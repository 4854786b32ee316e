------------------------------- MODULE BattleApi -------------------------------
(***************************************************************************)
(* POST /v1/battles end to end: handleStartBattle decodes the request and  *)
(* calls battles.Service.StartBattle, which validates the leader id and    *)
(* the idempotency key, asks the match provider (Nakama) to create a       *)
(* match, builds the Battle aggregate from the battle id the provider      *)
(* returned (NewBattle) and saves it; the handler answers 202 Accepted or  *)
(* writes every error as 400.  Each element of Requests is one concurrent  *)
(* handler goroutine and names the match its CreateMatch call creates.     *)
(* Request bodies are abstracted to whether they decode and whether the    *)
(* leader id and the idempotency key are non-blank.  The server lifecycle  *)
(* is the one GroupApi models and is left out here.                        *)
(***************************************************************************)
EXTENDS FiniteSets

CONSTANTS
    Requests,        \* concurrent POST /v1/battles requests (model values)
    ProviderFaults,  \* CreateMatch may fail, or time out after creating the match
    SaveFaults,      \* the repository Save may fail, or time out after saving
    EmptyIds         \* the provider may answer with a blank battle id

ASSUME FlagsAssumption ==
    /\ ProviderFaults \in BOOLEAN
    /\ SaveFaults \in BOOLEAN
    /\ EmptyIds \in BOOLEAN

VARIABLES
    remote,   \* requests whose match exists in Nakama
    local,    \* requests whose Battle aggregate the repository saved
    pc,       \* [Requests -> {"idle", "provider", "persist", "done"}]
    idOk,     \* [Requests -> BOOLEAN]: the battle id CreateMatch returned is non-blank
    status    \* [Requests -> {0, 202, 400}]: status written (0: none yet)

vars == <<remote, local, pc, idOk, status>>

Inputs == [json : BOOLEAN, leader : BOOLEAN, key : BOOLEAN]

\* A call that times out may have taken effect; one that fails did not.
ProviderOutcomes == IF ProviderFaults THEN {"ok", "failed", "timeout"} ELSE {"ok"}
SaveOutcomes == IF SaveFaults THEN {"ok", "failed", "timeout"} ELSE {"ok"}
TookEffect(o) == o \in {"ok", "timeout"}
BattleIds == IF EmptyIds THEN BOOLEAN ELSE {TRUE}

Respond(r, code) == status' = [status EXCEPT ![r] = code]

\* StartBattle's LeaderID.Validate and IdempotencyKey.Validate, after a
\* successful decode.
Accepted(i) == i.json /\ i.leader /\ i.key

Init ==
    /\ remote = {}
    /\ local = {}
    /\ pc = [r \in Requests |-> "idle"]
    /\ idOk = [r \in Requests |-> TRUE]
    /\ status = [r \in Requests |-> 0]

-----------------------------------------------------------------------------
\* handleStartBattle: json Decode, then StartBattle's two Validate calls;
\* any error is written as 400.
Receive(r) ==
    /\ pc[r] = "idle"
    /\ \E i \in Inputs:
          IF Accepted(i)
             THEN pc' = [pc EXCEPT ![r] = "provider"] /\ UNCHANGED status
             ELSE pc' = [pc EXCEPT ![r] = "done"] /\ Respond(r, 400)
    /\ UNCHANGED <<remote, local, idOk>>

\* Fault-injection variant: CreateMatch's error is not checked.
CreateMatchUnchecked(r) ==
    /\ pc[r] = "provider"
    /\ \E o \in ProviderOutcomes, id \in BattleIds:
          /\ remote' = IF TookEffect(o) THEN remote \cup {r} ELSE remote
          /\ idOk' = [idOk EXCEPT ![r] = id]
          /\ pc' = [pc EXCEPT ![r] = "persist"]
    /\ UNCHANGED <<local, status>>

\* StartBattle: Provider.CreateMatch; an error is returned at once.
CreateMatch(r) ==
    /\ pc[r] = "provider"
    /\ \E o \in ProviderOutcomes, id \in BattleIds:
          /\ remote' = IF TookEffect(o) THEN remote \cup {r} ELSE remote
          /\ idOk' = [idOk EXCEPT ![r] = id]
          /\ IF o = "ok"
                THEN pc' = [pc EXCEPT ![r] = "persist"] /\ UNCHANGED status
                ELSE pc' = [pc EXCEPT ![r] = "done"] /\ Respond(r, 400)
    /\ UNCHANGED local

\* Fault-injection variant: the handler answers 202 whatever Save returned.
PersistIgnoringSaveError(r) ==
    /\ pc[r] = "persist"
    /\ pc' = [pc EXCEPT ![r] = "done"]
    /\ IF idOk[r]
          THEN \E o \in SaveOutcomes:
                  /\ local' = IF TookEffect(o) THEN local \cup {r} ELSE local
                  /\ Respond(r, 202)
          ELSE Respond(r, 400) /\ UNCHANGED local
    /\ UNCHANGED <<remote, idOk>>

\* StartBattle: NewBattle (a blank battle id is rejected; leader and key
\* were checked already), then Repo.Save; success is written as 202.
Persist(r) ==
    /\ pc[r] = "persist"
    /\ pc' = [pc EXCEPT ![r] = "done"]
    /\ IF idOk[r]
          THEN \E o \in SaveOutcomes:
                  /\ local' = IF TookEffect(o) THEN local \cup {r} ELSE local
                  /\ Respond(r, IF o = "ok" THEN 202 ELSE 400)
          ELSE Respond(r, 400) /\ UNCHANGED local
    /\ UNCHANGED <<remote, idOk>>

\* Every request has been answered.
Quiescent ==
    /\ \A r \in Requests: pc[r] = "done"
    /\ UNCHANGED vars

Next == (\E r \in Requests: Receive(r) \/ CreateMatch(r) \/ Persist(r)) \/ Quiescent

Spec == Init /\ [][Next]_vars

-----------------------------------------------------------------------------
TypeOK ==
    /\ remote \subseteq Requests
    /\ local \subseteq Requests
    /\ pc \in [Requests -> {"idle", "provider", "persist", "done"}]
    /\ idOk \in [Requests -> BOOLEAN]
    /\ status \in [Requests -> {0, 202, 400}]

\* Spec 4.5: the match is created before the local aggregate exists, so the
\* repository never holds a battle whose match Nakama does not have, under
\* any provider or repository failure and any interleaving of requests.
SavedBattleHasMatch == local \subseteq remote

\* A 202 Accepted from handleStartBattle means both the match and the
\* Battle aggregate exist.
AcceptedMeansRecorded ==
    \A r \in Requests: status[r] = 202 => r \in remote /\ r \in local

=============================================================================
