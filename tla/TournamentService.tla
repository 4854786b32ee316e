-------------------------- MODULE TournamentService --------------------------
(***************************************************************************)
(* The tournament command service (app/tournaments/service.go) with its    *)
(* two stores: the local repositories of tournaments and participants and  *)
(* the external Nakama provider (infra NakamaProviderImpl).                *)
(*                                                                         *)
(* Each element of Calls is one command (CreateTournament, DeleteTournament *)
(* or AddAttempt) run by its own goroutine; calls interleave at every      *)
(* repository and provider call, and every such call may fail.  When       *)
(* Serialized is TRUE, calls on the same tournament never overlap (the     *)
(* per-key serialization spec 5 requires of a conforming repository); when *)
(* FALSE they overlap freely, as with the in-memory repositories of        *)
(* infra/tournament, which lock each map access but not a Get..Save span.  *)
(***************************************************************************)
EXTENDS Integers, FiniteSets

CONSTANTS
    Tids,          \* tournament ids (model values)
    Players,       \* player ids (model values)
    Calls,         \* concurrent service calls (model values)
    Counts,        \* attempt counts a caller may pass (any int)
    RepoFaults,    \* repository calls may return an error
    ProviderFaults,\* provider calls may return an error
    Serialized     \* calls on one tournament never overlap

ASSUME CountsAssumption == Counts \subseteq Int /\ Counts # {}
ASSUME IdsAssumption == Tids # {} /\ Players # {}
ASSUME FlagsAssumption ==
    /\ RepoFaults \in BOOLEAN
    /\ ProviderFaults \in BOOLEAN
    /\ Serialized \in BOOLEAN

VARIABLES
    local,          \* [Tids -> BOOLEAN]: tournament saved in the local repository
    remote,         \* [Tids -> BOOLEAN]: tournament exists in Nakama
    attempts,       \* [Tids \X Players -> Nat]: local Participant.Attempts (0 = none)
    remoteAttempts, \* [Tids \X Players -> Nat]: attempts Nakama has recorded
    pc,             \* [Calls -> Stages]
    op,             \* [Calls -> Ops]: the command a call runs
    snap            \* [Calls -> Nat]: participant attempts computed before Save

vars == <<local, remote, attempts, remoteAttempts, pc, op, snap>>

Kinds == {"create", "delete", "attempt"}
Ops == [kind : Kinds, t : Tids, p : Players, n : Counts, valid : BOOLEAN]
Stages == {"idle", "createSave", "createSync", "deleteSync", "deleteLocal",
           "attemptGet", "attemptSave", "attemptSync", "done"}

RepoOutcomes == IF RepoFaults THEN {"ok", "err"} ELSE {"ok"}
ProviderOutcomes == IF ProviderFaults THEN {"ok", "err"} ELSE {"ok"}

\* A call is between its first and its last external call.
InFlight(c) == pc[c] \notin {"idle", "done"}

\* The call may start on tournament t: no other call on t is in flight.
MayStart(c, t) ==
    Serialized => \A d \in Calls \ {c}: InFlight(d) => op[d].t # t

Goto(c, stage) == pc' = [pc EXCEPT ![c] = stage]

Init ==
    /\ local = [t \in Tids |-> FALSE]
    /\ remote = [t \in Tids |-> FALSE]
    /\ attempts = [k \in Tids \X Players |-> 0]
    /\ remoteAttempts = [k \in Tids \X Players |-> 0]
    /\ pc = [c \in Calls |-> "idle"]
    /\ op = [c \in Calls |-> CHOOSE o \in Ops : TRUE]
    /\ snap = [c \in Calls |-> 0]

-----------------------------------------------------------------------------
\* Every command starts by choosing its arguments; under Serialized it then
\* holds its tournament until it returns.
Arrive(c, o) ==
    /\ pc[c] = "idle"
    /\ o \in Ops
    /\ MayStart(c, o.t)
    /\ op' = [op EXCEPT ![c] = o]
    /\ UNCHANGED <<local, remote, attempts, remoteAttempts, snap>>

\* CreateTournament: NewTournament validates every field before any store is
\* touched (valid = FALSE stands for any field it rejects).
BeginCreate(c) ==
    \E o \in Ops:
       /\ o.kind = "create"
       /\ Arrive(c, o)
       /\ Goto(c, IF o.valid THEN "createSave" ELSE "done")

\* DeleteTournament: the id check (ids drawn from Tids are well formed).
BeginDelete(c) ==
    \E o \in Ops:
       /\ o.kind = "delete"
       /\ Arrive(c, o)
       /\ Goto(c, "deleteSync")

\* Fault-injection variant: AddAttempt without its `Count <= 0` check.
BeginAttemptUnchecked(c) ==
    \E o \in Ops:
       /\ o.kind = "attempt"
       /\ Arrive(c, o)
       /\ Goto(c, "attemptGet")

\* AddAttempt: the id checks, then ErrInvalidAttemptCount for Count <= 0.
BeginAttempt(c) ==
    \E o \in Ops:
       /\ o.kind = "attempt"
       /\ Arrive(c, o)
       /\ Goto(c, IF o.n > 0 THEN "attemptGet" ELSE "done")

Begin(c) == BeginCreate(c) \/ BeginDelete(c) \/ BeginAttempt(c)

\* CreateTournament: Repo.Save of the new aggregate (overwrites any record).
CreateSave(c) ==
    /\ pc[c] = "createSave"
    /\ \E o \in RepoOutcomes:
          IF o = "ok" THEN /\ local' = [local EXCEPT ![op[c].t] = TRUE]
                           /\ Goto(c, "createSync")
                      ELSE /\ Goto(c, "done")
                           /\ UNCHANGED local
    /\ UNCHANGED <<remote, attempts, remoteAttempts, op, snap>>

\* CreateTournament: Provider.CreateTournament (Nakama's create is a no-op
\* for an id it already has).
CreateSync(c) ==
    /\ pc[c] = "createSync"
    /\ \E o \in ProviderOutcomes:
          remote' = IF o = "ok" THEN [remote EXCEPT ![op[c].t] = TRUE] ELSE remote
    /\ Goto(c, "done")
    /\ UNCHANGED <<local, attempts, remoteAttempts, op, snap>>

\* Fault-injection variant: the provider's error is dropped and the local
\* delete goes ahead.
DeleteSyncIgnoringError(c) ==
    LET t == op[c].t IN
    /\ pc[c] = "deleteSync"
    /\ \E o \in ProviderOutcomes:
          IF o = "ok"
             THEN /\ remote' = [remote EXCEPT ![t] = FALSE]
                  /\ remoteAttempts' = [k \in Tids \X Players |->
                                          IF k[1] = t THEN 0 ELSE remoteAttempts[k]]
             ELSE UNCHANGED <<remote, remoteAttempts>>
    /\ Goto(c, "deleteLocal")
    /\ UNCHANGED <<local, attempts, op, snap>>

\* DeleteTournament: Provider.DeleteTournament first; Nakama drops the
\* tournament with its records.
DeleteSync(c) ==
    LET t == op[c].t IN
    /\ pc[c] = "deleteSync"
    /\ \E o \in ProviderOutcomes:
          IF o = "ok"
             THEN /\ remote' = [remote EXCEPT ![t] = FALSE]
                  /\ remoteAttempts' = [k \in Tids \X Players |->
                                          IF k[1] = t THEN 0 ELSE remoteAttempts[k]]
                  /\ Goto(c, "deleteLocal")
             ELSE /\ Goto(c, "done")
                  /\ UNCHANGED <<remote, remoteAttempts>>
    /\ UNCHANGED <<local, attempts, op, snap>>

\* DeleteTournament: then Repo.Delete (participants are left in place).
DeleteLocal(c) ==
    /\ pc[c] = "deleteLocal"
    /\ \E o \in RepoOutcomes:
          local' = IF o = "ok" THEN [local EXCEPT ![op[c].t] = FALSE] ELSE local
    /\ Goto(c, "done")
    /\ UNCHANGED <<remote, attempts, remoteAttempts, op, snap>>

\* AddAttempt: Participants.Get, NewParticipant (0 attempts) on
\* ErrParticipantNotFound, then AddAttempts(count) on the copy.
AttemptGet(c) ==
    /\ pc[c] = "attemptGet"
    /\ \E o \in RepoOutcomes:
          IF o = "ok" THEN /\ snap' = [snap EXCEPT ![c] = attempts[<<op[c].t, op[c].p>>] + op[c].n]
                           /\ Goto(c, "attemptSave")
                      ELSE /\ Goto(c, "done")
                           /\ UNCHANGED snap
    /\ UNCHANGED <<local, remote, attempts, remoteAttempts, op>>

\* Fault-injection variant: the Save error is dropped and the provider is
\* still called.
AttemptSaveIgnoringError(c) ==
    /\ pc[c] = "attemptSave"
    /\ \E o \in RepoOutcomes:
          attempts' = IF o = "ok" THEN [attempts EXCEPT ![<<op[c].t, op[c].p>>] = snap[c]]
                                  ELSE attempts
    /\ Goto(c, "attemptSync")
    /\ UNCHANGED <<local, remote, remoteAttempts, op, snap>>

\* AddAttempt: Participants.Save of the updated participant.
AttemptSave(c) ==
    /\ pc[c] = "attemptSave"
    /\ \E o \in RepoOutcomes:
          IF o = "ok" THEN /\ attempts' = [attempts EXCEPT ![<<op[c].t, op[c].p>>] = snap[c]]
                           /\ Goto(c, "attemptSync")
                      ELSE /\ Goto(c, "done")
                           /\ UNCHANGED attempts
    /\ UNCHANGED <<local, remote, remoteAttempts, op, snap>>

\* AddAttempt: Provider.AddAttempt; Nakama refuses it for an unknown tournament.
AttemptSync(c) ==
    LET k == <<op[c].t, op[c].p>> IN
    /\ pc[c] = "attemptSync"
    /\ \E o \in ProviderOutcomes:
          remoteAttempts' = IF o = "ok" /\ remote[op[c].t]
                               THEN [remoteAttempts EXCEPT ![k] = @ + op[c].n]
                               ELSE remoteAttempts
    /\ Goto(c, "done")
    /\ UNCHANGED <<local, remote, attempts, op, snap>>

\* Every call has returned: the system is at rest.
Terminated ==
    /\ \A c \in Calls: pc[c] = "done"
    /\ UNCHANGED vars

Step(c) ==
    \/ CreateSave(c) \/ CreateSync(c)
    \/ DeleteSync(c) \/ DeleteLocal(c)
    \/ AttemptGet(c) \/ AttemptSave(c) \/ AttemptSync(c)

Next == (\E c \in Calls: Begin(c) \/ Step(c)) \/ Terminated

Spec == Init /\ [][Next]_vars

-----------------------------------------------------------------------------
TypeOK ==
    /\ local \in [Tids -> BOOLEAN]
    /\ remote \in [Tids -> BOOLEAN]
    /\ attempts \in [Tids \X Players -> Nat]
    /\ remoteAttempts \in [Tids \X Players -> Nat]
    /\ pc \in [Calls -> Stages]
    /\ op \in [Calls -> Ops]
    /\ snap \in [Calls -> Nat]

\* Nakama never holds more attempts for a participant than the local store:
\* AddAttempt saves locally before it calls the provider and stops when the
\* save fails (spec 4.2: no orphaned sync calls), and no attempt saved
\* locally is lost to a concurrent AddAttempt.
LocalCoversRemote ==
    \A k \in Tids \X Players: remoteAttempts[k] <= attempts[k]

\* Every tournament Nakama has is also recorded locally: creates persist
\* before they sync and deletes sync before they delete locally, so that no
\* failure loses the local record of a tournament Nakama still has (spec 4.2).
RemoteImpliesLocal ==
    \A t \in Tids: remote[t] => local[t]

=============================================================================
