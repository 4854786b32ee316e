--------------------------- MODULE BotIntakeProofs ---------------------------
(***************************************************************************)
(* Proofs about the bot intake model (BotIntake), for every set of keys    *)
(* and requests and every setting of the fault flags.                      *)
(***************************************************************************)
EXTENDS BotIntake, TLAPS

\* Every step of the model keeps each variable in its type.
LEMMA TypeStep == TypeOK /\ [Next]_vars => TypeOK'
<1> SUFFICES ASSUME TypeOK, [Next]_vars PROVE TypeOK'
  OBVIOUS
<1>1. ASSUME NEW r \in Reqs, Receive(r) PROVE TypeOK'
  BY <1>1, FlagsAssumption DEF Receive, TypeOK, CommandIDs, Stages
<1>2. ASSUME NEW r \in Reqs, ReserveCommand(r) PROVE TypeOK'
  BY <1>2 DEF ReserveCommand, Finish, TypeOK, StoreStates, Stages, Responses
<1>3. ASSUME NEW r \in Reqs, Save(r) PROVE TypeOK'
  BY <1>3 DEF Save, SaveOutcomes, Finish, TypeOK, StoreStates, CommandStates,
              Stages, Responses
<1>4. ASSUME NEW r \in Reqs, Enqueue(r) PROVE TypeOK'
  BY <1>4 DEF Enqueue, EnqueueOutcomes, Finish, TypeOK, Stages, Responses
<1>5. ASSUME NEW r \in Reqs, MarkFailed(r) PROVE TypeOK'
  BY <1>5 DEF MarkFailed, SaveOutcomes, Finish, TypeOK, StoreStates,
              CommandStates, Stages, Responses
<1>6. ASSUME NEW k \in Keys, MarkProcessed(k) PROVE TypeOK'
  BY <1>6 DEF MarkProcessed, TypeOK, StoreStates, CommandStates
<1>7. CASE Terminated \/ UNCHANGED vars
  BY <1>7 DEF Terminated, vars, TypeOK
<1>8. QED
  BY <1>1, <1>2, <1>3, <1>4, <1>5, <1>6, <1>7 DEF Next, Handle

\* Handle, the worker and the callers keep every variable in its type: the
\* store holds only command states, the queue only keys.
THEOREM TypeCorrect == Spec => []TypeOK
<1>1. Init => TypeOK
  BY KeysAssumption DEF Init, TypeOK, StoreStates, Stages, Responses
<1>2. QED
  BY <1>1, TypeStep, PTL DEF Spec

-----------------------------------------------------------------------------
(* The inductive invariant.  A request "owns" its key from the fresh        *)
(* reservation until its Enqueue: an owner's key is reserved or pending and *)
(* not yet enqueued, and no two requests own one key because a key leaves   *)
(* "none" for good.  Without late delivery a request marking its command    *)
(* failed never enqueued it, so it cannot overwrite a completed command.   *)
Owner(r) == pc[r] \in {"save", "enqueue"}

\* From the fresh reservation until Handle returns.
Holder(r) == pc[r] \in {"save", "enqueue", "markFailed"}

IInv ==
    /\ TypeOK
    /\ \A r \in Reqs: pc[r] = "idle" => resp[r] = "none"
    /\ \A k \in Keys: store[k] = "none" =>
          /\ enqueued[k] = 0
          /\ \A r \in Reqs: Holder(r) => reqKey[r] # k
    /\ \A r \in Reqs: Owner(r) =>
          /\ enqueued[reqKey[r]] = 0
          /\ store[reqKey[r]] # "none"
    /\ \A r1, r2 \in Reqs: Holder(r1) /\ Holder(r2) /\ reqKey[r1] = reqKey[r2] => r1 = r2
    /\ \A k \in queue: enqueued[k] >= 1
    /\ \A k \in Keys: store[k] = "completed" => enqueued[k] >= 1 /\ k \notin queue
    /\ ~LateDelivery => \A r \in Reqs: pc[r] = "markFailed" => enqueued[reqKey[r]] = 0
    /\ AtMostOnceEnqueue
    /\ AcceptedMeansEnqueued

\* IInv holds initially.
LEMMA IInvInit == Init => IInv
  BY KeysAssumption DEF Init, IInv, TypeOK, StoreStates, Stages, Responses,
                       Owner, Holder, AtMostOnceEnqueue, AcceptedMeansEnqueued

\* Every step of Handle, of the worker and of the callers preserves IInv.
LEMMA IInvNext == IInv /\ [Next]_vars => IInv'
<1> SUFFICES ASSUME IInv, [Next]_vars PROVE IInv'
  OBVIOUS
<1>0. TypeOK'
  BY TypeStep DEF IInv
<1>1. ASSUME NEW r \in Reqs, Receive(r) PROVE IInv'
  BY <1>1, <1>0 DEF Receive, IInv, TypeOK, Owner, Holder, AtMostOnceEnqueue, AcceptedMeansEnqueued
<1>2. ASSUME NEW r \in Reqs, ReserveCommand(r) PROVE IInv'
  BY <1>2, <1>0 DEF ReserveCommand, IsFresh, Accepts, Finish, IInv, TypeOK, Owner, Holder,
                    AtMostOnceEnqueue, AcceptedMeansEnqueued
<1>3. ASSUME NEW r \in Reqs, Save(r) PROVE IInv'
  BY <1>3, <1>0 DEF Save, SaveOutcomes, Finish, IInv, TypeOK, Owner, Holder,
                    AtMostOnceEnqueue, AcceptedMeansEnqueued
<1>4. ASSUME NEW r \in Reqs, Enqueue(r) PROVE IInv'
  <2> DEFINE k == reqKey[r]
  <2>0. pc[r] = "enqueue" /\ UNCHANGED <<store, reqKey, reqValid>>
    BY <1>4 DEF Enqueue
  <2>1. PICK o \in EnqueueOutcomes:
          /\ IF o \in {"ok", "late"}
                THEN /\ queue' = queue \cup {k}
                     /\ enqueued' = [enqueued EXCEPT ![k] = @ + 1]
                ELSE UNCHANGED <<queue, enqueued>>
          /\ IF o = "ok"
                THEN Finish(r, "accepted")
                ELSE /\ pc' = [pc EXCEPT ![r] = "markFailed"]
                     /\ UNCHANGED resp
    BY <1>4 DEF Enqueue
  <2>2. CASE o = "ok"
    <3>1. Owner(r) /\ enqueued[k] = 0 /\ store[k] # "none"
      BY <2>0 DEF IInv, Owner
    <3>2. \A r2 \in Reqs: Holder(r2) /\ r2 # r => reqKey[r2] # k
      BY <3>1 DEF IInv, Owner, Holder
    <3>3. store[k] # "completed" /\ k \in Keys
      BY <3>1 DEF IInv, TypeOK
    <3>4. /\ queue' = queue \cup {k}
          /\ enqueued' = [enqueued EXCEPT ![k] = 1]
          /\ pc' = [pc EXCEPT ![r] = "done"]
          /\ resp' = [resp EXCEPT ![r] = "accepted"]
      BY <2>1, <2>2, <3>1 DEF Finish
    <3>5. \A k2 \in Keys: store'[k2] = "none" =>
              /\ enqueued'[k2] = 0
              /\ \A r2 \in Reqs: Holder(r2)' => reqKey'[r2] # k2
      BY <2>0, <3>1, <3>4, <1>0 DEF IInv, TypeOK, Owner, Holder
    <3>6. \A r2 \in Reqs: Owner(r2)' =>
              /\ enqueued'[reqKey'[r2]] = 0
              /\ store'[reqKey'[r2]] # "none"
      BY <2>0, <3>2, <3>4, <1>0 DEF IInv, TypeOK, Owner, Holder
    <3>7. \A r1, r2 \in Reqs: Holder(r1)' /\ Holder(r2)' /\ reqKey'[r1] = reqKey'[r2] => r1 = r2
      BY <2>0, <3>4, <1>0 DEF IInv, TypeOK, Holder
    <3>8. \A k2 \in queue': enqueued'[k2] >= 1
      BY <3>4, <3>3, <1>0 DEF IInv, TypeOK
    <3>9. \A k2 \in Keys: store'[k2] = "completed" => enqueued'[k2] >= 1 /\ k2 \notin queue'
      BY <2>0, <3>3, <3>4, <1>0 DEF IInv, TypeOK
    <3>10. ~LateDelivery => \A r2 \in Reqs: pc'[r2] = "markFailed" => enqueued'[reqKey'[r2]] = 0
      BY <2>0, <3>2, <3>4, <1>0 DEF IInv, TypeOK, Holder
    <3>11. AtMostOnceEnqueue' /\ AcceptedMeansEnqueued'
      BY <2>0, <3>3, <3>4, <1>0 DEF IInv, TypeOK, AtMostOnceEnqueue, AcceptedMeansEnqueued
    <3>12. \A r2 \in Reqs: pc'[r2] = "idle" => resp'[r2] = "none"
      BY <2>0, <3>4, <1>0 DEF IInv, TypeOK
    <3>13. QED
      BY <1>0, <3>5, <3>6, <3>7, <3>8, <3>9, <3>10, <3>11, <3>12 DEF IInv
  <2>3. CASE o = "err"
    BY <2>0, <2>1, <2>3, <1>0 DEF IInv, TypeOK, Owner, Holder,
                                  AtMostOnceEnqueue, AcceptedMeansEnqueued
  <2>4. CASE o = "late"
    <3>1. LateDelivery
      BY <2>1, <2>4 DEF EnqueueOutcomes
    <3>2. QED
      BY <3>1, <2>0, <2>1, <2>4, <1>0 DEF IInv, TypeOK, Owner, Holder,
                                         AtMostOnceEnqueue, AcceptedMeansEnqueued
  <2>5. QED
    BY <2>1, <2>2, <2>3, <2>4 DEF EnqueueOutcomes
<1>5. ASSUME NEW r \in Reqs, MarkFailed(r) PROVE IInv'
  BY <1>5, <1>0 DEF MarkFailed, SaveOutcomes, Finish, IInv, TypeOK, Owner, Holder,
                    AtMostOnceEnqueue, AcceptedMeansEnqueued
<1>6. ASSUME NEW k \in Keys, MarkProcessed(k) PROVE IInv'
  BY <1>6, <1>0 DEF MarkProcessed, IInv, TypeOK, Owner, Holder, Holder, AtMostOnceEnqueue,
                    AcceptedMeansEnqueued
<1>7. CASE Terminated \/ UNCHANGED vars
  BY <1>7 DEF Terminated, vars, IInv, TypeOK, Owner, Holder, Holder, AtMostOnceEnqueue,
              AcceptedMeansEnqueued
<1>8. QED
  BY <1>1, <1>2, <1>3, <1>4, <1>5, <1>6, <1>7 DEF Next, Handle

\* IInv holds in every reachable state.
THEOREM IInvariant == Spec => []IInv
  BY IInvInit, IInvNext, PTL DEF Spec

\* However many Handle calls with one idempotency key race, under any store
\* failures and any invalid input, the command of a key is handed to the
\* worker queue at most once (spec 4.3).
THEOREM AtMostOnce == Spec => []AtMostOnceEnqueue
  BY IInvariant, PTL DEF IInv

\* Handle answers Accepted=true only for a key whose command reached the
\* worker queue, on its fresh path and on its completed fast path alike.
THEOREM AcceptedEnqueued == Spec => []AcceptedMeansEnqueued
  BY IInvariant, PTL DEF IInv

\* Without late queue delivery, no step overwrites a completed command.
LEMMA CompletedStep ==
    ASSUME ~LateDelivery, IInv, [Next]_vars
    PROVE  [\A k \in Keys: store[k] = "completed" => store'[k] = "completed"]_store
<1> SUFFICES ASSUME NEW k \in Keys, store[k] = "completed"
             PROVE  store'[k] = "completed"
  OBVIOUS
<1>0. enqueued[k] >= 1 /\ k \notin queue
  BY DEF IInv
<1>1. ASSUME NEW r \in Reqs, Receive(r) PROVE store'[k] = "completed"
  BY <1>1 DEF Receive
<1>2. ASSUME NEW r \in Reqs, ReserveCommand(r) PROVE store'[k] = "completed"
  BY <1>2 DEF ReserveCommand, IsFresh, Finish, IInv, TypeOK
<1>3. ASSUME NEW r \in Reqs, Save(r) PROVE store'[k] = "completed"
  <2>1. reqKey[r] # k
    BY <1>3, <1>0 DEF Save, IInv, TypeOK, Owner
  <2>2. QED
    BY <1>3, <2>1 DEF Save, SaveOutcomes, Finish, IInv, TypeOK
<1>4. ASSUME NEW r \in Reqs, Enqueue(r) PROVE store'[k] = "completed"
  BY <1>4 DEF Enqueue
<1>5. ASSUME NEW r \in Reqs, MarkFailed(r) PROVE store'[k] = "completed"
  <2>1. reqKey[r] # k
    BY <1>5, <1>0 DEF MarkFailed, IInv, TypeOK
  <2>2. QED
    BY <1>5, <2>1 DEF MarkFailed, SaveOutcomes, Finish, IInv, TypeOK
<1>6. ASSUME NEW k2 \in Keys, MarkProcessed(k2) PROVE store'[k] = "completed"
  BY <1>6, <1>0 DEF MarkProcessed, IInv, TypeOK
<1>7. CASE Terminated \/ UNCHANGED vars
  BY <1>7 DEF Terminated, vars
<1>8. QED
  BY <1>1, <1>2, <1>3, <1>4, <1>5, <1>6, <1>7 DEF Next, Handle

\* When Enqueue either delivers and succeeds or fails without delivering, a
\* command the worker completed stays completed: Handle's failure Save can
\* only hit a command that never reached the queue (spec 3).
THEOREM CompletedFinal == ~LateDelivery => (Spec => CompletedIsFinal)
<1> SUFFICES ASSUME ~LateDelivery PROVE Spec => CompletedIsFinal
  OBVIOUS
<1>1. IInv /\ [Next]_vars => [\A k \in Keys: store[k] = "completed" => store'[k] = "completed"]_store
  BY CompletedStep
<1>2. QED
  BY <1>1, IInvariant, PTL DEF Spec, CompletedIsFinal


-----------------------------------------------------------------------------
(* Refinement of the intake contract.  Besides IInv the mapping needs to   *)
(* know what the store holds for the key of a call in progress and for a   *)
(* queued key, so that the contract's outcome of that key is still open     *)
(* when the call or the worker decides it; this holds without late          *)
(* delivery, when a queued key is only ever touched by the worker.          *)
PInv ==
    /\ \A r \in Reqs: pc[r] # "done" => resp[r] = "none"
    /\ \A r \in Reqs: pc[r] = "save" => store[reqKey[r]] = "reserved"
    /\ \A r \in Reqs: pc[r] \in {"enqueue", "markFailed"} => store[reqKey[r]] = "pending"
    /\ \A k \in queue: store[k] = "pending"

LEMMA PInvInit == Init => PInv
  BY DEF Init, PInv

LEMMA PInvNext ==
    ASSUME ~LateDelivery, IInv, PInv, [Next]_vars
    PROVE  PInv'
<1>1. ASSUME NEW r \in Reqs, Receive(r) PROVE PInv'
  BY <1>1 DEF Receive, PInv, IInv, TypeOK
<1>2. ASSUME NEW r \in Reqs, ReserveCommand(r) PROVE PInv'
  <2>1. \A r2 \in Reqs: Holder(r2) => reqKey[r2] # reqKey[r] \/ store[reqKey[r]] # "none"
    BY DEF IInv, TypeOK
  <2>2. \A k \in queue: store[k] # "none"
    BY DEF PInv
  <2>3. QED
    BY <1>2, <2>1, <2>2 DEF ReserveCommand, IsFresh, Finish, PInv, IInv, TypeOK, Holder
<1>3. ASSUME NEW r \in Reqs, Save(r) PROVE PInv'
  <2>1. \A r2 \in Reqs: Holder(r2) /\ r2 # r => reqKey[r2] # reqKey[r]
    BY <1>3 DEF Save, IInv, Holder
  <2>2. \A k \in queue: k # reqKey[r]
    BY <1>3 DEF Save, IInv, Owner
  <2>3. QED
    BY <1>3, <2>1, <2>2 DEF Save, SaveOutcomes, Finish, PInv, IInv, TypeOK, Holder
<1>4. ASSUME NEW r \in Reqs, Enqueue(r) PROVE PInv'
  BY <1>4 DEF Enqueue, EnqueueOutcomes, Finish, PInv, IInv, TypeOK
<1>5. ASSUME NEW r \in Reqs, MarkFailed(r) PROVE PInv'
  <2>1. \A r2 \in Reqs: Holder(r2) /\ r2 # r => reqKey[r2] # reqKey[r]
    BY <1>5 DEF MarkFailed, IInv, Holder
  <2>2. \A k \in queue: k # reqKey[r]
    BY <1>5 DEF MarkFailed, IInv
  <2>3. QED
    BY <1>5, <2>1, <2>2 DEF MarkFailed, SaveOutcomes, Finish, PInv, IInv, TypeOK, Holder
<1>6. ASSUME NEW k \in Keys, MarkProcessed(k) PROVE PInv'
  <2>1. \A r2 \in Reqs: pc[r2] \in {"save", "enqueue", "markFailed"} => reqKey[r2] # k
    BY <1>6 DEF MarkProcessed, IInv, Owner
  <2>2. QED
    BY <1>6, <2>1 DEF MarkProcessed, PInv, IInv, TypeOK
<1>7. CASE Terminated \/ UNCHANGED vars
  BY <1>7 DEF Terminated, vars, PInv
<1>8. QED
  BY <1>1, <1>2, <1>3, <1>4, <1>5, <1>6, <1>7 DEF Next, Handle


\* IInv and PInv hold together in every reachable state without late delivery.
LEMMA BothInvariant == ~LateDelivery => (Spec => [](IInv /\ PInv))
<1> SUFFICES ASSUME ~LateDelivery PROVE Spec => [](IInv /\ PInv)
  OBVIOUS
<1>1. IInv /\ PInv /\ [Next]_vars => IInv' /\ PInv'
  BY IInvNext, PInvNext
<1>2. QED
  BY <1>1, IInvInit, PInvInit, PTL DEF Spec

\* The mapped state: keys handed over and each key's outcome.
Handed == {k \in Keys: enqueued[k] >= 1}
Outcomes == [k \in Keys |-> Outcome(store[k])]

LEMMA RefineInit == Init => Contract!Init
  BY KeysAssumption DEF Init, Contract!Init, Outcome

LEMMA RefineStep ==
    ASSUME ~LateDelivery, IInv, PInv, [Next]_vars
    PROVE  [Contract!Next]_Contract!avars
<1> USE DEF Contract!Next, Contract!avars
<1>1. ASSUME NEW r \in Reqs, Receive(r) PROVE Contract!Call(r)
  BY <1>1 DEF Receive, Contract!Call, IInv
<1>2. ASSUME NEW r \in Reqs, ReserveCommand(r)
      PROVE  Contract!Answer(r) \/ UNCHANGED Contract!avars
  <2> DEFINE k == reqKey[r]
  <2>0. /\ pc[r] = "reserve" /\ resp[r] = "none" /\ k \in Keys
        /\ UNCHANGED <<enqueued, reqKey>>
    BY <1>2 DEF ReserveCommand, PInv, IInv, TypeOK
  <2>1. CASE /\ IsFresh(store[k])
             /\ store' = [store EXCEPT ![k] = "reserved"]
             /\ IF reqValid[r]
                   THEN /\ pc' = [pc EXCEPT ![r] = "save"]
                        /\ UNCHANGED resp
                   ELSE Finish(r, "error")
    <3>1. Outcomes' = Outcomes
      BY <2>1, <2>0 DEF IsFresh, Outcome, Outcomes, IInv, TypeOK
    <3>2. CASE reqValid[r]
      BY <2>0, <2>1, <3>1, <3>2 DEF Outcomes, Handed
    <3>3. CASE ~reqValid[r]
      BY <2>0, <2>1, <3>1, <3>3 DEF Finish, Outcomes, Handed, Contract!Answer, Contract!Reply
    <3>4. QED
      BY <3>2, <3>3
  <2>2. CASE ~IsFresh(store[k]) /\ Finish(r, IF Accepts(store[k]) THEN "accepted" ELSE "duplicate")
             /\ UNCHANGED store
    <3>1. Accepts(store[k]) => k \in Handed
      BY <2>0 DEF Accepts, IInv, Handed
    <3>2. QED
      BY <1>2, <2>0, <2>2, <3>1 DEF ReserveCommand, Finish, Contract!Answer, Contract!Reply, Handed
  <2>3. CASE StoreFaults /\ Finish(r, "error") /\ UNCHANGED store
    BY <1>2, <2>0, <2>3 DEF ReserveCommand, Finish, Contract!Answer, Contract!Reply
  <2>4. QED
    BY <1>2, <2>1, <2>2, <2>3 DEF ReserveCommand
<1>3. ASSUME NEW r \in Reqs, Save(r)
      PROVE  Contract!Answer(r) \/ UNCHANGED Contract!avars
  <2> DEFINE k == reqKey[r]
  <2>0. /\ pc[r] = "save" /\ resp[r] = "none" /\ store[k] = "reserved" /\ k \in Keys
        /\ UNCHANGED <<enqueued, reqKey>>
    BY <1>3 DEF Save, PInv, IInv, TypeOK
  <2>1. PICK o \in SaveOutcomes:
          IF o = "ok"
             THEN /\ store' = [store EXCEPT ![k] = "pending"]
                  /\ pc' = [pc EXCEPT ![r] = "enqueue"]
                  /\ UNCHANGED resp
             ELSE /\ Finish(r, "error")
                  /\ UNCHANGED store
    BY <1>3 DEF Save
  <2>2. CASE o = "ok"
    <3>1. Outcomes' = Outcomes
      BY <2>0, <2>1, <2>2 DEF Outcome, Outcomes, IInv, TypeOK
    <3>2. QED
      BY <2>0, <2>1, <2>2, <3>1 DEF Handed, Outcomes
  <2>3. CASE o # "ok"
    BY <2>0, <2>1, <2>3 DEF Finish, Contract!Answer, Contract!Reply
  <2>4. QED
    BY <2>2, <2>3
<1>4. ASSUME NEW r \in Reqs, Enqueue(r)
      PROVE  (\E k \in Keys: Contract!Hand(k)) \/ UNCHANGED Contract!avars
  <2> DEFINE k == reqKey[r]
  <2>0. /\ pc[r] = "enqueue" /\ resp[r] = "none" /\ enqueued[k] = 0 /\ k \in Keys
        /\ UNCHANGED <<store, reqKey>>
    BY <1>4 DEF Enqueue, PInv, IInv, TypeOK, Owner
  <2>1. PICK o \in EnqueueOutcomes:
          /\ IF o \in {"ok", "late"}
                THEN /\ queue' = queue \cup {k}
                     /\ enqueued' = [enqueued EXCEPT ![k] = @ + 1]
                ELSE UNCHANGED <<queue, enqueued>>
          /\ IF o = "ok"
                THEN Finish(r, "accepted")
                ELSE /\ pc' = [pc EXCEPT ![r] = "markFailed"]
                     /\ UNCHANGED resp
    BY <1>4 DEF Enqueue
  <2>2. CASE o = "ok"
    <3>1. Handed' = Handed \cup {k} /\ k \notin Handed
      BY <2>0, <2>1, <2>2 DEF Handed, IInv, TypeOK
    <3>2. QED
      BY <2>0, <2>1, <2>2, <3>1 DEF Finish, Contract!Hand, Contract!Reply, Handed
  <2>3. CASE o = "err"
    BY <2>0, <2>1, <2>3
  <2>4. QED
    BY <2>1, <2>2, <2>3 DEF EnqueueOutcomes
<1>5. ASSUME NEW r \in Reqs, MarkFailed(r) PROVE Contract!Answer(r)
  <2> DEFINE k == reqKey[r]
  <2>0. /\ pc[r] = "markFailed" /\ resp[r] = "none" /\ store[k] = "pending" /\ k \in Keys
        /\ UNCHANGED <<enqueued, reqKey>>
        /\ resp' = [resp EXCEPT ![r] = "error"]
    BY <1>5 DEF MarkFailed, Finish, PInv, IInv, TypeOK
  <2>1. PICK o \in SaveOutcomes:
          store' = IF o = "ok" THEN [store EXCEPT ![k] = "failed"] ELSE store
    BY <1>5 DEF MarkFailed
  <2>2. CASE o = "ok"
    <3>1. Outcomes' = [Outcomes EXCEPT ![k] = "failed"] /\ Outcomes[k] = "open"
      BY <2>0, <2>1, <2>2 DEF Outcome, Outcomes, IInv, TypeOK
    <3>2. QED
      BY <2>0, <3>1 DEF Contract!Answer, Contract!Reply, Contract!Decide, Handed, Outcomes
  <2>3. CASE o # "ok"
    BY <2>0, <2>1, <2>3 DEF Contract!Answer, Contract!Reply
  <2>4. QED
    BY <2>2, <2>3
<1>6. ASSUME NEW k \in Keys, MarkProcessed(k) PROVE Contract!Process(k)
  <2>0. /\ k \in queue /\ store[k] = "pending" /\ enqueued[k] >= 1
        /\ UNCHANGED <<enqueued, resp, reqKey>>
    BY <1>6 DEF MarkProcessed, PInv, IInv
  <2>1. PICK st \in {"completed", "failed"}: store' = [store EXCEPT ![k] = st]
    BY <1>6 DEF MarkProcessed
  <2>2. Outcomes' = [Outcomes EXCEPT ![k] = st] /\ Outcomes[k] = "open"
    BY <2>0, <2>1 DEF Outcome, Outcomes, IInv, TypeOK
  <2>3. QED
    BY <2>0, <2>2 DEF Contract!Process, Contract!Decide, Handed, Outcomes
<1>7. CASE Terminated \/ UNCHANGED vars
  BY <1>7 DEF Terminated, vars
<1>8. QED
  BY <1>1, <1>2, <1>3, <1>4, <1>5, <1>6, <1>7 DEF Next, Handle

\* Without late queue delivery, bot intake implements its contract: every
\* step of Handle, of a caller or of the worker is a step of the abstract
\* intake (or leaves it unchanged), so one handover per key, "accepted"
\* only for handed keys and outcomes decided once hold for any keys and
\* any number of concurrent calls, under store errors and invalid input.
THEOREM Refinement == ~LateDelivery => (Spec => ImplementsContract)
<1> SUFFICES ASSUME ~LateDelivery PROVE Spec => Contract!Spec
  BY DEF ImplementsContract
<1>1. IInv /\ PInv /\ [Next]_vars => [Contract!Next]_Contract!avars
  BY RefineStep
<1>2. QED
  BY <1>1, RefineInit, BothInvariant, PTL DEF Spec, Contract!Spec

=============================================================================
