------------------------------- MODULE GroupApi -------------------------------
(***************************************************************************)
(* POST /v1/groups end to end: handleCreateGroup decodes the request and   *)
(* calls groups.Service.CreateGroup, which creates the group in Nakama     *)
(* (GroupClient), builds the Group aggregate (NewGroup) and saves it       *)
(* (GroupRepository, also a Nakama client); the handler answers 201 or     *)
(* writes every error as 400.  net/http runs each request on its own       *)
(* goroutine, so each element of Requests is one concurrent handler.  The  *)
(* server's lifecycle from cmd/api/main.go is part of the model: SIGTERM   *)
(* stops the listener and Shutdown waits 10s for handlers in flight, after *)
(* which main returns and the process exits under them.                    *)
(*                                                                         *)
(* Nakama allocates a fresh group id per CreateGroup call, so a request    *)
(* names the group it creates.  Request bodies are abstracted to whether   *)
(* they decode, whether the creator id is valid and whether the name is    *)
(* non-empty.                                                              *)
(***************************************************************************)
EXTENDS FiniteSets

CONSTANTS
    Requests,        \* concurrent POST /v1/groups requests (model values)
    ProviderFaults,  \* Nakama's CreateGroup may fail, or time out after creating
    SaveFaults,      \* the repository Save may fail, or time out after saving
    Signals,         \* SIGTERM may arrive
    BlankNames       \* clients may send an empty group name

ASSUME FlagsAssumption ==
    /\ ProviderFaults \in BOOLEAN
    /\ SaveFaults \in BOOLEAN
    /\ Signals \in BOOLEAN
    /\ BlankNames \in BOOLEAN

VARIABLES
    remote,   \* requests whose group exists in Nakama
    local,    \* requests whose Group aggregate the repository saved
    pc,       \* [Requests -> Stages]
    in,       \* [Requests -> Inputs]: the decoded body
    status,   \* [Requests -> {0, 201, 400}]: status written (0: none yet)
    server    \* "running", "draining" (Shutdown in progress) or "stopped"

vars == <<remote, local, pc, in, status, server>>

Inputs == [json : BOOLEAN, creator : BOOLEAN, name : IF BlankNames THEN BOOLEAN ELSE {TRUE}]
Stages == {"idle", "provider", "persist", "done", "killed"}

\* A Nakama call that times out may have taken effect; one that fails did not.
ProviderOutcomes == IF ProviderFaults THEN {"ok", "failed", "timeout"} ELSE {"ok"}
SaveOutcomes == IF SaveFaults THEN {"ok", "failed", "timeout"} ELSE {"ok"}
TookEffect(o) == o \in {"ok", "timeout"}

InFlight(r) == pc[r] \in {"provider", "persist"}

\* Server.writeJSON / writeError: the status line of the response.
Respond(r, code) == status' = [status EXCEPT ![r] = code]

\* CreateGroup's first check: CreatorID.Validate (after a successful decode).
Accepted(i) == i.json /\ i.creator

\* NewGroup: id and owner are valid here (Nakama's id, a checked creator);
\* only the name can be rejected.
NewGroupOk(i) == i.name

Init ==
    /\ remote = {}
    /\ local = {}
    /\ pc = [r \in Requests |-> "idle"]
    /\ in = [r \in Requests |-> [json |-> TRUE, creator |-> TRUE, name |-> TRUE]]
    /\ status = [r \in Requests |-> 0]
    /\ server = "running"

-----------------------------------------------------------------------------
\* handleCreateGroup: json Decode (400 on error), then CreateGroup's
\* CreatorID.Validate (400 on error); otherwise on to the provider.
Receive(r) ==
    /\ server = "running"
    /\ pc[r] = "idle"
    /\ \E i \in Inputs:
          /\ in' = [in EXCEPT ![r] = i]
          /\ IF Accepted(i)
                THEN pc' = [pc EXCEPT ![r] = "provider"] /\ UNCHANGED status
                ELSE pc' = [pc EXCEPT ![r] = "done"] /\ Respond(r, 400)
    /\ UNCHANGED <<remote, local, server>>

\* CreateGroup: Provider.CreateGroup; an error is returned (400) at once.
ProviderCreate(r) ==
    /\ pc[r] = "provider"
    /\ \E o \in ProviderOutcomes:
          /\ remote' = IF TookEffect(o) THEN remote \cup {r} ELSE remote
          /\ IF o = "ok"
                THEN pc' = [pc EXCEPT ![r] = "persist"] /\ UNCHANGED status
                ELSE pc' = [pc EXCEPT ![r] = "done"] /\ Respond(r, 400)
    /\ UNCHANGED <<local, in, server>>

\* Fault-injection variant: the handler answers 201 whatever Save returned.
PersistIgnoringSaveError(r) ==
    /\ pc[r] = "persist"
    /\ pc' = [pc EXCEPT ![r] = "done"]
    /\ IF NewGroupOk(in[r])
          THEN \E o \in SaveOutcomes:
                  /\ local' = IF TookEffect(o) THEN local \cup {r} ELSE local
                  /\ Respond(r, 201)
          ELSE Respond(r, 400) /\ UNCHANGED local
    /\ UNCHANGED <<remote, in, server>>

\* CreateGroup: NewGroup (ErrNameRequired -> 400), then Repo.Save
\* (error -> 400); success is written as 201 Created.
Persist(r) ==
    /\ pc[r] = "persist"
    /\ pc' = [pc EXCEPT ![r] = "done"]
    /\ IF NewGroupOk(in[r])
          THEN \E o \in SaveOutcomes:
                  /\ local' = IF TookEffect(o) THEN local \cup {r} ELSE local
                  /\ Respond(r, IF o = "ok" THEN 201 ELSE 400)
          ELSE Respond(r, 400) /\ UNCHANGED local
    /\ UNCHANGED <<remote, in, server>>

\* SIGTERM: signal.NotifyContext cancels baseCtx and main calls
\* httpServer.Shutdown, which closes the listener at once.
Shutdown ==
    /\ Signals
    /\ server = "running"
    /\ server' = "draining"
    /\ UNCHANGED <<remote, local, pc, in, status>>

\* Shutdown returns once no handler is active; main returns.
ShutdownDone ==
    /\ server = "draining"
    /\ \A r \in Requests: ~InFlight(r)
    /\ server' = "stopped"
    /\ UNCHANGED <<remote, local, pc, in, status>>

\* The 10s shutdown context expires with handlers still running; main
\* returns, the process exits and those handlers stop where they are.
ShutdownDeadline ==
    /\ server = "draining"
    /\ \E r \in Requests: InFlight(r)
    /\ server' = "stopped"
    /\ pc' = [r \in Requests |-> IF InFlight(r) THEN "killed" ELSE pc[r]]
    /\ UNCHANGED <<remote, local, in, status>>

\* Nothing left to do: no handler runs and no request can still arrive.
Quiescent ==
    /\ \A r \in Requests: ~InFlight(r)
    /\ server = "stopped" \/ \A r \in Requests: pc[r] # "idle"
    /\ UNCHANGED vars

Handler(r) == Receive(r) \/ ProviderCreate(r) \/ Persist(r)

Next ==
    \/ \E r \in Requests: Handler(r)
    \/ Shutdown \/ ShutdownDone \/ ShutdownDeadline
    \/ Quiescent

Spec == Init /\ [][Next]_vars

-----------------------------------------------------------------------------
TypeOK ==
    /\ remote \subseteq Requests
    /\ local \subseteq Requests
    /\ pc \in [Requests -> Stages]
    /\ in \in [Requests -> Inputs]
    /\ status \in [Requests -> {0, 201, 400}]
    /\ server \in {"running", "draining", "stopped"}

\* A 201 Created from handleCreateGroup means the group exists both in
\* Nakama and in the repository, whatever faults and shutdowns occurred.
CreatedMeansRecorded ==
    \A r \in Requests: status[r] = 201 => r \in remote /\ r \in local

=============================================================================
