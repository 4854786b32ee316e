---------------------------- MODULE GroupApiProofs ----------------------------
(***************************************************************************)
(* Proofs about POST /v1/groups (GroupApi), for every set of requests and *)
(* every fault and shutdown setting.                                       *)
(***************************************************************************)
EXTENDS GroupApi, TLAPS

\* Stages in which the handler has not written a status yet.
Unanswered == {"idle", "provider", "persist"}

(* The inductive invariant: a handler that has not returned has written no *)
(* status, and one about to save has created its group in Nakama.          *)
IInv ==
    /\ TypeOK
    /\ \A r \in Requests: pc[r] \in Unanswered => status[r] = 0
    /\ \A r \in Requests: pc[r] = "persist" => r \in remote
    /\ CreatedMeansRecorded

LEMMA IInvInit == Init => IInv
<1> SUFFICES ASSUME Init PROVE IInv
  OBVIOUS
<1>1. [json |-> TRUE, creator |-> TRUE, name |-> TRUE] \in Inputs
  <2>1. TRUE \in IF BlankNames THEN BOOLEAN ELSE {TRUE}
    OBVIOUS
  <2>2. QED
    BY <2>1 DEF Inputs
<1>2. in \in [Requests -> Inputs]
  BY <1>1 DEF Init
<1>3. QED
  BY <1>2 DEF Init, IInv, TypeOK, Stages, Unanswered, CreatedMeansRecorded

LEMMA ReceiveIInv ==
    ASSUME IInv, NEW r \in Requests, Receive(r)
    PROVE  IInv'
<1>1. PICK i \in Inputs:
         /\ in' = [in EXCEPT ![r] = i]
         /\ IF Accepted(i)
               THEN pc' = [pc EXCEPT ![r] = "provider"] /\ UNCHANGED status
               ELSE pc' = [pc EXCEPT ![r] = "done"] /\ Respond(r, 400)
  BY DEF Receive
<1>2. pc[r] = "idle" /\ UNCHANGED <<remote, local, server>>
  BY DEF Receive
<1>3. CASE Accepted(i)
  BY <1>1, <1>2, <1>3 DEF IInv, TypeOK, Stages, Unanswered, CreatedMeansRecorded
<1>4. CASE ~Accepted(i)
  BY <1>1, <1>2, <1>4 DEF IInv, TypeOK, Stages, Unanswered, CreatedMeansRecorded, Respond
<1>5. QED
  BY <1>3, <1>4

LEMMA ProviderCreateIInv ==
    ASSUME IInv, NEW r \in Requests, ProviderCreate(r)
    PROVE  IInv'
<1>1. PICK o \in ProviderOutcomes:
         /\ remote' = IF TookEffect(o) THEN remote \cup {r} ELSE remote
         /\ IF o = "ok"
               THEN pc' = [pc EXCEPT ![r] = "persist"] /\ UNCHANGED status
               ELSE pc' = [pc EXCEPT ![r] = "done"] /\ Respond(r, 400)
  BY DEF ProviderCreate
<1>2. pc[r] = "provider" /\ UNCHANGED <<local, in, server>>
  BY DEF ProviderCreate
<1>3. remote \subseteq remote' /\ remote' \subseteq Requests
  BY <1>1 DEF IInv, TypeOK
<1>4. CASE o = "ok"
  <2>1. r \in remote'
    BY <1>1, <1>4 DEF TookEffect
  <2>2. QED
    BY <1>1, <1>2, <1>3, <1>4, <2>1
       DEF IInv, TypeOK, Stages, Unanswered, CreatedMeansRecorded
<1>5. CASE o # "ok"
  BY <1>1, <1>2, <1>3, <1>5 DEF IInv, TypeOK, Stages, Unanswered, CreatedMeansRecorded, Respond
<1>6. QED
  BY <1>4, <1>5

LEMMA PersistIInv ==
    ASSUME IInv, NEW r \in Requests, Persist(r)
    PROVE  IInv'
<1>1. /\ pc[r] = "persist"
      /\ pc' = [pc EXCEPT ![r] = "done"]
      /\ UNCHANGED <<remote, in, server>>
  BY DEF Persist
<1>2. r \in remote
  BY <1>1 DEF IInv
<1>3. CASE NewGroupOk(in[r])
  <2>1. PICK o \in SaveOutcomes:
           /\ local' = IF TookEffect(o) THEN local \cup {r} ELSE local
           /\ Respond(r, IF o = "ok" THEN 201 ELSE 400)
    BY <1>3 DEF Persist
  <2>2. status'[r] = 201 => r \in local'
    BY <2>1 DEF IInv, TypeOK, Respond, TookEffect
  <2>3. local \subseteq local' /\ local' \subseteq Requests
    BY <2>1 DEF IInv, TypeOK
  <2>4. QED
    BY <1>1, <1>2, <2>1, <2>2, <2>3
       DEF IInv, TypeOK, Stages, Unanswered, CreatedMeansRecorded, Respond
<1>4. CASE ~NewGroupOk(in[r])
  <2>1. Respond(r, 400) /\ UNCHANGED local
    BY <1>4 DEF Persist
  <2>2. QED
    BY <1>1, <2>1 DEF IInv, TypeOK, Stages, Unanswered, CreatedMeansRecorded, Respond
<1>5. QED
  BY <1>3, <1>4

LEMMA ServerIInv ==
    ASSUME IInv, Shutdown \/ ShutdownDone \/ ShutdownDeadline \/ Quiescent \/ UNCHANGED vars
    PROVE  IInv'
  BY DEF IInv, TypeOK, Stages, Unanswered, CreatedMeansRecorded, InFlight,
         Shutdown, ShutdownDone, ShutdownDeadline, Quiescent, vars

LEMMA IInvNext == IInv /\ [Next]_vars => IInv'
<1> SUFFICES ASSUME IInv, [Next]_vars PROVE IInv'
  OBVIOUS
<1>1. ASSUME NEW r \in Requests, Handler(r) PROVE IInv'
  BY <1>1, ReceiveIInv, ProviderCreateIInv, PersistIInv DEF Handler
<1>2. QED
  BY <1>1, ServerIInv DEF Next

\* Whatever requests race, Nakama calls fail or time out and SIGTERM cuts
\* handlers short, a 201 from handleCreateGroup is only ever written for a
\* group that both Nakama and the repository hold.
THEOREM CreatedRecorded == Spec => []CreatedMeansRecorded
<1>1. IInv => CreatedMeansRecorded
  BY DEF IInv
<1>2. QED
  BY <1>1, IInvInit, IInvNext, PTL DEF Spec

=============================================================================
