---------------------------- MODULE BattleApiProofs ----------------------------
(***************************************************************************)
(* Proofs about POST /v1/battles (BattleApi), for every set of requests    *)
(* and every fault setting.                                                *)
(***************************************************************************)
EXTENDS BattleApi, TLAPS

\* Stages in which the handler has not written a status yet.
Unanswered == {"idle", "provider", "persist"}

(* The inductive invariant: a handler that has not returned has written no *)
(* status, and one about to build and save its battle has its match.       *)
IInv ==
    /\ TypeOK
    /\ \A r \in Requests: pc[r] \in Unanswered => status[r] = 0
    /\ \A r \in Requests: pc[r] = "persist" => r \in remote
    /\ SavedBattleHasMatch
    /\ AcceptedMeansRecorded

LEMMA IInvInit == Init => IInv
  BY DEF Init, IInv, TypeOK, Unanswered, SavedBattleHasMatch, AcceptedMeansRecorded

LEMMA ReceiveIInv ==
    ASSUME IInv, NEW r \in Requests, Receive(r)
    PROVE  IInv'
<1>1. PICK i \in Inputs:
         IF Accepted(i)
            THEN pc' = [pc EXCEPT ![r] = "provider"] /\ UNCHANGED status
            ELSE pc' = [pc EXCEPT ![r] = "done"] /\ Respond(r, 400)
  BY DEF Receive
<1>2. pc[r] = "idle" /\ UNCHANGED <<remote, local, idOk>>
  BY DEF Receive
<1>3. QED
  BY <1>1, <1>2 DEF IInv, TypeOK, Unanswered, SavedBattleHasMatch,
                    AcceptedMeansRecorded, Respond

LEMMA CreateMatchIInv ==
    ASSUME IInv, NEW r \in Requests, CreateMatch(r)
    PROVE  IInv'
<1>1. PICK o \in ProviderOutcomes, id \in BattleIds:
         /\ remote' = IF TookEffect(o) THEN remote \cup {r} ELSE remote
         /\ idOk' = [idOk EXCEPT ![r] = id]
         /\ IF o = "ok"
               THEN pc' = [pc EXCEPT ![r] = "persist"] /\ UNCHANGED status
               ELSE pc' = [pc EXCEPT ![r] = "done"] /\ Respond(r, 400)
  BY DEF CreateMatch
<1>2. pc[r] = "provider" /\ UNCHANGED local
  BY DEF CreateMatch
<1>3. remote \subseteq remote' /\ remote' \subseteq Requests /\ id \in BOOLEAN
  BY <1>1 DEF IInv, TypeOK, BattleIds
<1>4. CASE o = "ok"
  <2>1. r \in remote'
    BY <1>1, <1>4 DEF TookEffect
  <2>2. QED
    BY <1>1, <1>2, <1>3, <1>4, <2>1
       DEF IInv, TypeOK, Unanswered, SavedBattleHasMatch, AcceptedMeansRecorded
<1>5. CASE o # "ok"
  BY <1>1, <1>2, <1>3, <1>5 DEF IInv, TypeOK, Unanswered, SavedBattleHasMatch,
                                AcceptedMeansRecorded, Respond
<1>6. QED
  BY <1>4, <1>5

LEMMA PersistIInv ==
    ASSUME IInv, NEW r \in Requests, Persist(r)
    PROVE  IInv'
<1>1. /\ pc[r] = "persist"
      /\ pc' = [pc EXCEPT ![r] = "done"]
      /\ UNCHANGED <<remote, idOk>>
  BY DEF Persist
<1>2. r \in remote
  BY <1>1 DEF IInv
<1>3. CASE idOk[r]
  <2>1. PICK o \in SaveOutcomes:
           /\ local' = IF TookEffect(o) THEN local \cup {r} ELSE local
           /\ Respond(r, IF o = "ok" THEN 202 ELSE 400)
    BY <1>3 DEF Persist
  <2>2. status'[r] = 202 => r \in local'
    BY <2>1 DEF IInv, TypeOK, Respond, TookEffect
  <2>3. local \subseteq local' /\ local' \subseteq local \cup {r}
    BY <2>1 DEF IInv, TypeOK
  <2>4. QED
    BY <1>1, <1>2, <2>1, <2>2, <2>3
       DEF IInv, TypeOK, Unanswered, SavedBattleHasMatch, AcceptedMeansRecorded, Respond
<1>4. CASE ~idOk[r]
  <2>1. Respond(r, 400) /\ UNCHANGED local
    BY <1>4 DEF Persist
  <2>2. QED
    BY <1>1, <2>1 DEF IInv, TypeOK, Unanswered, SavedBattleHasMatch,
                      AcceptedMeansRecorded, Respond
<1>5. QED
  BY <1>3, <1>4

LEMMA IInvNext == IInv /\ [Next]_vars => IInv'
<1> SUFFICES ASSUME IInv, [Next]_vars PROVE IInv'
  OBVIOUS
<1>1. ASSUME NEW r \in Requests, Receive(r) \/ CreateMatch(r) \/ Persist(r) PROVE IInv'
  BY <1>1, ReceiveIInv, CreateMatchIInv, PersistIInv
<1>2. CASE Quiescent \/ UNCHANGED vars
  BY <1>2 DEF Quiescent, vars, IInv, TypeOK, Unanswered, SavedBattleHasMatch,
              AcceptedMeansRecorded
<1>3. QED
  BY <1>1, <1>2 DEF Next

\* However requests interleave and CreateMatch or Save fail or time out,
\* StartBattle never leaves a saved battle without its Nakama match.
THEOREM BattleHasMatch == Spec => []SavedBattleHasMatch
<1>1. IInv => SavedBattleHasMatch
  BY DEF IInv
<1>2. QED
  BY <1>1, IInvInit, IInvNext, PTL DEF Spec

\* A 202 from POST /v1/battles is only written for a battle both Nakama and
\* the repository hold.
THEOREM AcceptedRecorded == Spec => []AcceptedMeansRecorded
<1>1. IInv => AcceptedMeansRecorded
  BY DEF IInv
<1>2. QED
  BY <1>1, IInvInit, IInvNext, PTL DEF Spec

=============================================================================
