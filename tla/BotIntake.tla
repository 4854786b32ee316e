----------------------------- MODULE BotIntake -----------------------------
(***************************************************************************)
(* Idempotent intake of bot commands: bot.Service.Handle together with the *)
(* command aggregate (domain/bot/command.go), the repository contract      *)
(* (ReserveCommand / Save / MarkProcessed) and the worker queue that       *)
(* Handle enqueues into.                                                   *)
(*                                                                         *)
(* Each element of Reqs is one call of Handle, run by its own HTTP-handler *)
(* goroutine; calls interleave at every repository and queue call.  The    *)
(* store keeps, per idempotency key, the state of the command recorded for *)
(* it ("none" = never reserved, "reserved" = claimed by ReserveCommand but *)
(* no command saved yet).  The worker behind the queue is outside the      *)
(* source; it is modelled from the spec as MarkProcessed.                  *)
(***************************************************************************)
EXTENDS Naturals, FiniteSets

CONSTANTS
    Keys,           \* idempotency keys (model values)
    Reqs,           \* concurrent Handle calls (model values)
    StoreFaults,    \* repository calls may return an error
    InvalidInputs,  \* a request may carry a blank command id
    LateDelivery    \* Enqueue may deliver the command and still return an error

ASSUME KeysAssumption == Keys # {}
ASSUME FlagsAssumption ==
    /\ StoreFaults \in BOOLEAN
    /\ InvalidInputs \in BOOLEAN
    /\ LateDelivery \in BOOLEAN

VARIABLES
    store,      \* [Keys -> StoreStates]: command state recorded per key
    queue,      \* keys whose command is in the worker queue
    enqueued,   \* [Keys -> Nat]: history, how often a key was delivered to the queue
    pc,         \* [Reqs -> Stages]: where each Handle call is
    reqKey,     \* [Reqs -> Keys]: input.IdempotencyKey
    reqValid,   \* [Reqs -> BOOLEAN]: input.CommandID is not blank
    resp        \* [Reqs -> Responses]: what Handle returned

vars == <<store, queue, enqueued, pc, reqKey, reqValid, resp>>

CommandStates == {"pending", "completed", "failed"}
StoreStates == {"none", "reserved"} \cup CommandStates
Stages == {"idle", "reserve", "save", "enqueue", "markFailed", "done"}
Responses == {"none", "accepted", "duplicate", "error"}

\* Outcomes the environment may give each external call.
SaveOutcomes == IF StoreFaults THEN {"ok", "err"} ELSE {"ok"}
EnqueueOutcomes == {"ok", "err"} \cup (IF LateDelivery THEN {"late"} ELSE {})
CommandIDs == IF InvalidInputs THEN BOOLEAN ELSE {TRUE}

-----------------------------------------------------------------------------
\* Fault-injection variant: a reservation check that only sees saved commands.
IsFreshOfCommands(st) == st \in {"none", "reserved"}

\* ReserveCommand's check-and-set: the key is free to claim only if nothing,
\* not even a reservation, was recorded for it (spec 4.3, step 1).
IsFresh(st) == st = "none"

\* Fault-injection variant: every existing command but a failed one counts as done.
AcceptsUnlessFailed(st) == st # "failed"

\* Handle's fast path: an existing command counts as done only when completed.
Accepts(st) == st = "completed"

\* Handle returns: the call ends with a response.
Finish(r, answer) ==
    /\ pc' = [pc EXCEPT ![r] = "done"]
    /\ resp' = [resp EXCEPT ![r] = answer]

Init ==
    /\ store = [k \in Keys |-> "none"]
    /\ queue = {}
    /\ enqueued = [k \in Keys |-> 0]
    /\ pc = [r \in Reqs |-> "idle"]
    /\ reqKey = [r \in Reqs |-> CHOOSE k \in Keys : TRUE]
    /\ reqValid = [r \in Reqs |-> TRUE]
    /\ resp = [r \in Reqs |-> "none"]

\* A webhook call reaches Handle with some key and command id.
Receive(r) ==
    /\ pc[r] = "idle"
    /\ \E k \in Keys, v \in CommandIDs:
          /\ reqKey' = [reqKey EXCEPT ![r] = k]
          /\ reqValid' = [reqValid EXCEPT ![r] = v]
    /\ pc' = [pc EXCEPT ![r] = "reserve"]
    /\ UNCHANGED <<store, queue, enqueued, resp>>

\* ReserveCommand, then the branch Handle takes on its answer; on a fresh
\* reservation NewCommand validates the command id (after the key is claimed).
ReserveCommand(r) ==
    LET k == reqKey[r] IN
    /\ pc[r] = "reserve"
    /\ \/ /\ IsFresh(store[k])
          /\ store' = [store EXCEPT ![k] = "reserved"]
          /\ IF reqValid[r]
                THEN /\ pc' = [pc EXCEPT ![r] = "save"]
                     /\ UNCHANGED resp
                ELSE Finish(r, "error")
       \/ /\ ~IsFresh(store[k])
          /\ Finish(r, IF Accepts(store[k]) THEN "accepted" ELSE "duplicate")
          /\ UNCHANGED store
       \/ /\ StoreFaults
          /\ Finish(r, "error")
          /\ UNCHANGED store
    /\ UNCHANGED <<queue, enqueued, reqKey, reqValid>>

\* Repo.Save of the new command in state pending.
Save(r) ==
    LET k == reqKey[r] IN
    /\ pc[r] = "save"
    /\ \E o \in SaveOutcomes:
          IF o = "ok"
             THEN /\ store' = [store EXCEPT ![k] = "pending"]
                  /\ pc' = [pc EXCEPT ![r] = "enqueue"]
                  /\ UNCHANGED resp
             ELSE /\ Finish(r, "error")
                  /\ UNCHANGED store
    /\ UNCHANGED <<queue, enqueued, reqKey, reqValid>>

\* Fault-injection variant: the queue is given the request instead of its key.
EnqueueRequestId(r) ==
    /\ pc[r] = "enqueue"
    /\ queue' = queue \cup {r}
    /\ enqueued' = [enqueued EXCEPT ![reqKey[r]] = @ + 1]
    /\ Finish(r, "accepted")
    /\ UNCHANGED <<store, reqKey, reqValid>>

\* Producer.Enqueue; on success the best-effort Notify (no state) and Accepted.
Enqueue(r) ==
    LET k == reqKey[r] IN
    /\ pc[r] = "enqueue"
    /\ \E o \in EnqueueOutcomes:
          /\ IF o \in {"ok", "late"}
                THEN /\ queue' = queue \cup {k}
                     /\ enqueued' = [enqueued EXCEPT ![k] = @ + 1]
                ELSE UNCHANGED <<queue, enqueued>>
          /\ IF o = "ok"
                THEN Finish(r, "accepted")
                ELSE /\ pc' = [pc EXCEPT ![r] = "markFailed"]
                     /\ UNCHANGED resp
    /\ UNCHANGED <<store, reqKey, reqValid>>

\* Fault-injection variant: the failed state is set but never saved.
MarkFailedUnsaved(r) ==
    /\ pc[r] = "markFailed"
    /\ Finish(r, "error")
    /\ UNCHANGED <<store, queue, enqueued, reqKey, reqValid>>

\* After a failed Enqueue: cmd.MarkAttempt(now, err) sets the in-memory command
\* to failed, Repo.Save writes it (its error is ignored), Handle returns err.
MarkFailed(r) ==
    LET k == reqKey[r] IN
    /\ pc[r] = "markFailed"
    /\ \E o \in SaveOutcomes:
          store' = IF o = "ok" THEN [store EXCEPT ![k] = "failed"] ELSE store
    /\ Finish(r, "error")
    /\ UNCHANGED <<queue, enqueued, reqKey, reqValid>>

\* Fault-injection variant: the worker does not acknowledge the message, so
\* the queue redelivers it.
MarkProcessedRedelivered(k) ==
    /\ k \in queue
    /\ \E st \in {"completed", "failed"}: store' = [store EXCEPT ![k] = st]
    /\ UNCHANGED <<queue, enqueued, pc, reqKey, reqValid, resp>>

\* The worker takes a command off the queue, processes it and records the
\* outcome with Repo.MarkProcessed.
MarkProcessed(k) ==
    /\ k \in queue
    /\ queue' = queue \ {k}
    /\ \E st \in {"completed", "failed"}: store' = [store EXCEPT ![k] = st]
    /\ UNCHANGED <<enqueued, pc, reqKey, reqValid, resp>>

\* Every call has returned and the queue is drained: the system is at rest.
Terminated ==
    /\ \A r \in Reqs: pc[r] = "done"
    /\ queue = {}
    /\ UNCHANGED vars

Handle(r) == ReserveCommand(r) \/ Save(r) \/ Enqueue(r) \/ MarkFailed(r)

Next ==
    \/ \E r \in Reqs: Receive(r) \/ Handle(r)
    \/ \E k \in Keys: MarkProcessed(k)
    \/ Terminated

\* A call, once in Handle, runs to its return (each external call returns or
\* times out); the worker keeps draining the queue.  Callers are not obliged
\* to call, so Receive has no fairness.
Fairness ==
    /\ \A r \in Reqs: WF_vars(Handle(r))
    /\ \A k \in Keys: WF_vars(MarkProcessed(k))

Spec == Init /\ [][Next]_vars /\ Fairness

-----------------------------------------------------------------------------
TypeOK ==
    /\ store \in [Keys -> StoreStates]
    /\ queue \subseteq Keys
    /\ enqueued \in [Keys -> Nat]
    /\ pc \in [Reqs -> Stages]
    /\ reqKey \in [Reqs -> Keys]
    /\ reqValid \in [Reqs -> BOOLEAN]
    /\ resp \in [Reqs -> Responses]

\* At most one effective processing per idempotency key (spec 4.3): however
\* many Handle calls with the same key race, the command of a key is handed to
\* the worker queue at most once.
AtMostOnceEnqueue == \A k \in Keys: enqueued[k] <= 1

\* Accepted=true is only returned for a key whose command was handed to the
\* worker: Handle's fast path and its fresh path both answer Accepted only
\* after Enqueue succeeded for that key.
AcceptedMeansEnqueued ==
    \A r \in Reqs: resp[r] = "accepted" => enqueued[reqKey[r]] >= 1

\* A completed command stays completed (spec 3: state only advances
\* pending -> completed | failed): no Save of Handle overwrites the worker's
\* MarkProcessed(completed).
CompletedIsFinal ==
    [][\A k \in Keys: store[k] = "completed" => store'[k] = "completed"]_store

\* Every key that Handle reserved or saved pending eventually reaches a
\* state the worker or a retry can act on (completed or failed): the
\* reservation and the pending persist are one unit (spec 4.3).
IntakeResolves ==
    \A k \in Keys: store[k] \in {"reserved", "pending"}
                      ~> store[k] \in {"completed", "failed"}

-----------------------------------------------------------------------------
\* The outcome the contract sees for a stored command state: reservations
\* and pending commands are still open.
Outcome(st) == IF st \in {"completed", "failed"} THEN st ELSE "open"

Contract == INSTANCE BotIntakeContract
               WITH handed <- {k \in Keys: enqueued[k] >= 1},
                    finished <- [k \in Keys |-> Outcome(store[k])],
                    answer <- resp,
                    key <- reqKey

\* Handle, with the worker behind the queue, keeps the intake contract of
\* spec 4.3: one handover per key, "accepted" only for handed keys, and an
\* outcome decided once (completed only by the worker).
ImplementsContract == Contract!Spec

=============================================================================
