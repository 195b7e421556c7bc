------------------------------- MODULE Client --------------------------------
(***************************************************************************)
(* The client of the language model (internal/llm): a call, its attempts,  *)
(* the pauses between them, and what it makes of the endpoint's answer.    *)
(* The client is the one the holder has when the call begins; a save of    *)
(* the LLM settings puts another in its place.                             *)
(***************************************************************************)
EXTENDS Integers, Sequences, FiniteSets

CONSTANTS
  Caller,      \* what calls the model
  MaxInputs,   \* bound: texts in a request for embeddings
  Configured,  \* the configuration's llm.retry; a number that is not positive is unset
  DefaultRetry,
  MaxShift,    \* the most a base delay is doubled
  Word,        \* how many values a duration has: half of them negative
  MaxSwaps     \* bound: saves of the settings

RetryConfig == [attempts : Int, base : Int, max : Int]

ASSUME ClientAssumption ==
  /\ Configured \in RetryConfig /\ DefaultRetry \in RetryConfig
  /\ DefaultRetry.attempts > 0 /\ DefaultRetry.base > 0 /\ DefaultRetry.max > 0
  /\ MaxShift \in Nat /\ Word \in Nat \ {0} /\ MaxInputs \in Nat

VARIABLES
  client,  \* the client the holder has
  call,    \* each caller's call
  hungUp   \* the callers whose context has ended

clientVars == <<client, call, hungUp>>

-----------------------------------------------------------------------------
(* The retry's numbers. *)

\* RetryConfig.withDefaults.
WithDefaults(r) ==
  [k \in DOMAIN r |-> IF r[k] > 0 THEN r[k] ELSE DefaultRetry[k]]

\* A product as a signed number of the word's width.
Wrapped(n) == LET u == n % Word IN IF 2 * u >= Word THEN u - Word ELSE u

Least(a, b) == IF a <= b THEN a ELSE b

\* RetryConfig.delay: the pauses the jitter may choose from after the
\* failure-th failure (from 0).
Delays(r, failure) ==
  LET d      == Wrapped(r.base * 2 ^ Least(failure, MaxShift))
      jitter == d \div 4
  IN IF d <= 0 THEN {r.max}
     ELSE {IF p <= 0 \/ p > r.max THEN r.max ELSE p : p \in (d - jitter) .. (d + jitter)}

\* The endpoint's refusals, and what is worth another attempt: 429, 502, 503 and
\* 504 (busy), and the client's own timeout.
Failure   == {"busy", "timeout", "refused", "missing", "broken"}
Retryable == {"busy", "timeout"}

-----------------------------------------------------------------------------
(* The answer to a request for embeddings: vectors in any order, each with  *)
(* the index of its input, some missing, doubled or empty.  A vector is its *)
(* input's index.                                                           *)

Datum(n)  == [index : -1 .. n, empty : BOOLEAN]
Bodies(n) == UNION {[1 .. k -> Datum(n)] : k \in 0 .. n + 1}
NoVector  == -1

\* Mutant: filed in the order they came in.
FiledAsTheyCome(body, n) ==
  [i \in 0 .. n - 1 |-> IF i + 1 \in DOMAIN body /\ ~body[i + 1].empty
                        THEN body[i + 1].index ELSE NoVector]

\* The vectors filed by index, a later one over an earlier one.
Filed(body, n) ==
  [i \in 0 .. n - 1 |->
     LET found == {k \in DOMAIN body : body[k].index = i /\ \A l \in DOMAIN body :
                     body[l].index = i => l <= k}
     IN IF \E k \in found : ~body[k].empty THEN i ELSE NoVector]

Accepts(body, n) ==
  /\ Len(body) = n
  /\ \A k \in DOMAIN body : body[k].index \in 0 .. n - 1
  /\ \A i \in 0 .. n - 1 : Filed(body, n)[i] # NoVector

-----------------------------------------------------------------------------
Kinds == {[op |-> "embed", n |-> n] : n \in 0 .. MaxInputs}
        \union {[op |-> op, n |-> 0] : op \in {"chat", "models", "transcribe"}}
Over == {"ok", "failed", "unlisted"}

Unasked == [at |-> "idle", ask |-> [op |-> "chat", n |-> 0], by |-> client,
            tries |-> 0, pause |-> 0, sent |-> <<>>, said |-> <<>>, vectors |-> <<>>]

\* newLLMClient: the first client has the configuration's retry.
ClientInit ==
  /\ client = [serial |-> 0, models |-> {"embed", "chat"}, retry |-> WithDefaults(Configured)]
  /\ call = [c \in Caller |-> Unasked]
  /\ hungUp = {}

\* The call with the fields that e names.
Becomes(c, e) ==
  call' = [call EXCEPT ![c] = [k \in DOMAIN @ |-> IF k \in DOMAIN e THEN e[k] ELSE @[k]]]

\* Holder.Embed, Chat, Transcribe, ListModels: the client is taken once.  No
\* request without a model's name, nor for no texts at all.
AskModel(c, ask) ==
  /\ call[c].at = "idle"
  /\ Becomes(c, [ask |-> ask, by |-> client,
       at |-> IF ask.op = "embed" /\ ask.n = 0 THEN "ok"
              ELSE IF ask.op \in {"embed", "chat"} \ client.models THEN "failed"
              ELSE "send"])
  /\ UNCHANGED <<client, hungUp>>

\* A request is built and sent; on a context that has ended it is not.
Transmit(c) ==
  /\ call[c].at = "send"
  /\ IF c \in hungUp THEN Becomes(c, [at |-> "failed"])
     ELSE Becomes(c, [at |-> "sent", sent |-> Append(call[c].sent,
                        [by |-> call[c].by.serial, live |-> c \notin hungUp])])
  /\ UNCHANGED <<client, hungUp>>

\* doWithRetry, after a failure: another attempt, or the error.  A transcription
\* has one attempt.
Again(c, why) ==
  /\ why \in Retryable
  /\ c \notin hungUp
  /\ call[c].ask.op # "transcribe"
  /\ call[c].tries + 1 < call[c].by.retry.attempts

Fail(c, why) ==
  /\ call[c].at = "sent"
  /\ LET heard == Append(call[c].said, why) IN
     IF Again(c, why)
     THEN \E d \in Delays(call[c].by.retry, call[c].tries) :
            Becomes(c, [said |-> heard, at |-> "wait", pause |-> d])
     ELSE Becomes(c, [said |-> heard, at |->
            IF call[c].ask.op = "models" /\ why = "missing" THEN "unlisted" ELSE "failed"])
  /\ UNCHANGED <<client, hungUp>>

\* The request in flight of a context that ends.
Interrupt(c) ==
  /\ call[c].at = "sent" /\ c \in hungUp
  /\ Becomes(c, [at |-> "failed"])
  /\ UNCHANGED <<client, hungUp>>

\* The pause is over, or the context has ended: with both the select takes either.
Wake(c) ==
  /\ call[c].at = "wait"
  /\ Becomes(c, [at |-> "send", tries |-> call[c].tries + 1])
  /\ UNCHANGED <<client, hungUp>>

GiveUp(c) ==
  /\ call[c].at = "wait" /\ c \in hungUp
  /\ Becomes(c, [at |-> "failed"])
  /\ UNCHANGED <<client, hungUp>>

\* The answer to Embed.
Embedded(c, body) ==
  /\ call[c].at = "sent" /\ call[c].ask.op = "embed"
  /\ LET n == call[c].ask.n IN
     IF Accepts(body, n) THEN Becomes(c, [at |-> "ok", vectors |-> Filed(body, n)])
     ELSE Becomes(c, [at |-> "failed"])
  /\ UNCHANGED <<client, hungUp>>

\* The answer to Chat, Vision and Transcribe, with a text in it or not, and to
\* ListModels, which takes what it cannot read for an endpoint that lists none.
Reply(c, good) ==
  /\ call[c].at = "sent" /\ call[c].ask.op # "embed"
  /\ Becomes(c, [at |-> IF good THEN "ok"
                        ELSE IF call[c].ask.op = "models" THEN "unlisted" ELSE "failed"])
  /\ UNCHANGED <<client, hungUp>>

\* Applier.ApplyLLM, Holder.Swap: a client with the form's models, and without
\* the configuration's retry.
SwapClient(models) ==
  /\ client.serial < MaxSwaps
  /\ client' = [serial |-> client.serial + 1, models |-> models, retry |-> WithDefaults(DefaultRetry)]
  /\ UNCHANGED <<call, hungUp>>

HangUp(c) ==
  /\ call[c].at \notin {"idle"} \union Over
  /\ hungUp' = hungUp \union {c}
  /\ UNCHANGED <<client, call>>

CallStep(c) ==
  \/ Transmit(c) \/ Interrupt(c) \/ Wake(c) \/ GiveUp(c)
  \/ \E why \in Failure : Fail(c, why)
  \/ \E body \in Bodies(call[c].ask.n) : Embedded(c, body)
  \/ \E good \in BOOLEAN : Reply(c, good)

ClientNext ==
  \/ \E c \in Caller : CallStep(c) \/ HangUp(c) \/ \E ask \in Kinds : AskModel(c, ask)
  \/ \E models \in SUBSET {"embed", "chat"} : SwapClient(models)

\* http.Client.Timeout ends a request that nobody answers.
ClientSpec ==
  /\ ClientInit /\ [][ClientNext]_clientVars
  /\ \A c \in Caller : WF_clientVars(CallStep(c))

ClientTypeOK ==
  /\ client.serial \in 0 .. MaxSwaps /\ hungUp \subseteq Caller
  /\ \A c \in Caller : call[c].at \in {"idle", "send", "sent", "wait"} \union Over

-----------------------------------------------------------------------------
\* What Embed returns is a vector for every input, each its own.
OwnVectors ==
  \A c \in Caller : call[c].at = "ok" /\ call[c].ask.op = "embed" /\ call[c].ask.n > 0 =>
    call[c].vectors = [i \in 0 .. call[c].ask.n - 1 |-> i]

\* A request is sent again only after a transient failure, no more often than
\* its client's retry says, and after a pause of at most its ceiling.
RetriesBounded ==
  \A c \in Caller :
    /\ Len(call[c].sent) <= call[c].by.retry.attempts
    /\ \A k \in 1 .. Len(call[c].sent) - 1 : call[c].said[k] \in Retryable
    /\ call[c].pause \in 0 .. call[c].by.retry.max
    /\ call[c].at = "wait" => call[c].pause > 0

\* Every request of a call goes to the endpoint its first one went to, and none
\* is sent once its context has ended.
OneEndpoint ==
  \A c \in Caller : \A k \in DOMAIN call[c].sent :
    call[c].sent[k] = [by |-> call[c].by.serial, live |-> TRUE]

\* A call of the language model gives the caller its own answer or an error, and
\* its retries stay within its client's limits.  (internal/llm/openai.go Embed,
\* doWithRetry; internal/llm/retry.go delay, retryable.)
CallsHold == OwnVectors /\ RetriesBounded /\ OneEndpoint

\* A call sends no more requests than the configuration's llm.retry allows.
\* (internal/config/config.go LLMConfig.Retry: "attempts=1 disables".)
RetryAsConfigured ==
  \A c \in Caller : Len(call[c].sent) <= WithDefaults(Configured).attempts

\* Every call that has begun ends.
CallsEnd == \A c \in Caller : call[c].at # "idle" ~> call[c].at \in Over
=============================================================================
