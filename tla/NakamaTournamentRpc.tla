-------------------------- MODULE NakamaTournamentRpc --------------------------
(***************************************************************************)
(* The tournament RPCs of sample_go_module against one Nakama: the raw     *)
(* RPCs of tournament.go, which decode the payload and call the Nakama     *)
(* runtime directly, and the *WithAdapter RPCs of tournament_adapter.go,   *)
(* which go through tournaments.Service with an adapter, hence a fresh     *)
(* MemoryRepository and MemoryParticipantRepository, built for every RPC.  *)
(* Nakama runs every RPC on its own goroutine, so each element of Calls is *)
(* one concurrent RPC.                                                     *)
(*                                                                         *)
(* Nakama's state is abstracted to the tournaments that exist and, per     *)
(* tournament and owner, the attempts TournamentAddAttempt has added (it   *)
(* adds the count it is given, negative or not).  uuid.NewV4 never repeats *)
(* an id.  A payload is abstracted to whether it decodes and passes the    *)
(* checks its handler makes, and to the count it carries.                  *)
(***************************************************************************)
EXTENDS Integers, FiniteSets

CONSTANTS
    Tids,          \* tournament ids uuid.NewV4 may return (model values)
    Owners,        \* owner ids (model values)
    Counts,        \* attempt counts a payload may carry
    Calls,         \* concurrent RPCs (model values)
    RawRpcs,       \* the raw RPCs of tournament.go are called
    AdapterRpcs,   \* the *WithAdapter RPCs are called
    NakamaFaults   \* Nakama calls may fail, or time out after taking effect

VARIABLES
    ntour,      \* tournaments that exist in Nakama
    natt,       \* [Tids -> [Owners -> Int]]: attempts Nakama recorded
    used,       \* ids uuid.NewV4 has returned
    localTour,  \* [Calls -> SUBSET Tids]: the call's adapter MemoryRepository
    localPart,  \* [Calls -> SUBSET (Tids \X Owners)]: its MemoryParticipantRepository
    pc,         \* [Calls -> Stages]
    op          \* [Calls -> Ops]: the RPC and its decoded payload

vars == <<ntour, natt, used, localTour, localPart, pc, op>>

RawKinds == {"create", "createTwice", "delete", "attempt"}
AdapterKinds == {"adapterCreate", "adapterDelete", "adapterAttempt"}
Kinds == (IF RawRpcs THEN RawKinds ELSE {}) \cup (IF AdapterRpcs THEN AdapterKinds ELSE {})
Ops == [kind : Kinds, t : Tids, o : Owners, n : Counts, valid : BOOLEAN]
Stages == {"idle", "nkCreate", "nkCreateAgain", "nkDelete", "nkAttempt",
           "save", "saveAttempt", "done"}

\* A Nakama call that times out may have taken effect; one that fails did not.
NakamaOutcomes == IF NakamaFaults THEN {"ok", "failed", "timeout"} ELSE {"ok"}
TookEffect(x) == x \in {"ok", "timeout"}

\* nk.TournamentCreate, TournamentDelete and TournamentAddAttempt.
NkCreate(t, x) == ntour' = IF TookEffect(x) THEN ntour \cup {t} ELSE ntour
NkDelete(t, x) ==
    /\ ntour' = IF TookEffect(x) THEN ntour \ {t} ELSE ntour
    /\ natt' = IF TookEffect(x) THEN [natt EXCEPT ![t] = [o \in Owners |-> 0]] ELSE natt
NkAddAttempt(t, o, n, x) ==
    natt' = IF TookEffect(x) /\ t \in ntour THEN [natt EXCEPT ![t][o] = @ + n] ELSE natt

\* rpcAddAttemptTournament and rpcAddAttemptTournamentWithAdapter:
\* `args.Count == 0` is "count must be non-zero".
RpcCountOk(n) == n # 0

\* tournaments.Service.AddAttempt: `cmd.Count <= 0` is ErrInvalidAttemptCount.
ServiceCountOk(n) == RpcCountOk(n) /\ n > 0

Goto(c, s) == pc' = [pc EXCEPT ![c] = s]

\* Returning from a *WithAdapter RPC drops its adapter and repositories.
Return(c) ==
    /\ Goto(c, "done")
    /\ localTour' = [localTour EXCEPT ![c] = {}]
    /\ localPart' = [localPart EXCEPT ![c] = {}]

Init ==
    /\ ntour = {}
    /\ natt = [t \in Tids |-> [o \in Owners |-> 0]]
    /\ used = {}
    /\ localTour = [c \in Calls |-> {}]
    /\ localPart = [c \in Calls |-> {}]
    /\ pc = [c \in Calls |-> "idle"]
    /\ op = [c \in Calls |-> CHOOSE x \in Ops : TRUE]

-----------------------------------------------------------------------------
\* The RPC decodes its payload and makes its own checks; a create RPC then
\* takes a fresh uuid.  Invalid payloads return an error at once.
Decode(c, x) ==
    /\ pc[c] = "idle"
    /\ op' = [op EXCEPT ![c] = x]
    /\ UNCHANGED <<ntour, natt, localTour, localPart>>

\* rpcCreateTournament / rpcCreateSameTournamentMultipleTimes: decode, a
\* new uuid, then createTournament (nk.TournamentCreate).
RawCreate(c) ==
    \E x \in Ops, t \in Tids \ used:
       /\ x.kind \in {"create", "createTwice"}
       /\ x.t = t
       /\ Decode(c, x)
       /\ used' = used \cup {t}
       /\ Goto(c, IF x.valid THEN "nkCreate" ELSE "done")

\* rpcDeleteTournament and rpcAddAttemptTournament: json.Unmarshal and the
\* required-field checks; the add-attempt RPC also rejects a zero count.
RawCall(c) ==
    \E x \in Ops:
       /\ x.kind \in {"delete", "attempt"}
       /\ Decode(c, x)
       /\ UNCHANGED used
       /\ IF x.kind = "delete"
             THEN Goto(c, IF x.valid THEN "nkDelete" ELSE "done")
             ELSE Goto(c, IF x.valid /\ RpcCountOk(x.n) THEN "nkAttempt" ELSE "done")

\* createTournament: nk.TournamentCreate; the twice-RPC creates once more
\* with the same id after a success.
CreateInNakama(c) ==
    /\ pc[c] = "nkCreate"
    /\ \E x \in NakamaOutcomes:
          /\ NkCreate(op[c].t, x)
          /\ IF x = "ok" /\ op[c].kind = "createTwice"
                THEN Goto(c, "nkCreateAgain") /\ UNCHANGED <<localTour, localPart>>
                ELSE Return(c)
    /\ UNCHANGED <<natt, used, op>>

\* rpcCreateSameTournamentMultipleTimes: the second createTournament with
\* the id that now exists; Nakama answers it like any other create.
CreateAgain(c) ==
    /\ pc[c] = "nkCreateAgain"
    /\ \E x \in NakamaOutcomes: NkCreate(op[c].t, x)
    /\ Return(c)
    /\ UNCHANGED <<natt, used, op>>

\* nk.TournamentDelete (the raw RPC, or NakamaProviderImpl.DeleteTournament
\* under the adapter, whose MemoryRepository.Delete then removes nothing).
DeleteInNakama(c) ==
    /\ pc[c] = "nkDelete"
    /\ \E x \in NakamaOutcomes: NkDelete(op[c].t, x)
    /\ Return(c)
    /\ UNCHANGED <<used, op>>

\* nk.TournamentAddAttempt with the payload's count (raw RPC), or
\* NakamaProviderImpl.AddAttempt after the participant Save (adapter).
AddAttemptInNakama(c) ==
    /\ pc[c] = "nkAttempt"
    /\ \E x \in NakamaOutcomes: NkAddAttempt(op[c].t, op[c].o, op[c].n, x)
    /\ Return(c)
    /\ UNCHANGED <<ntour, used, op>>

\* rpcCreateTournamentWithAdapter: decode, NewTournamentServiceAdapter (a
\* fresh repository), a new uuid and Service.CreateTournament's
\* NewTournament; valid = FALSE stands for a payload NewTournament rejects.
AdapterCreate(c) ==
    \E x \in Ops, t \in Tids \ used:
       /\ x.kind = "adapterCreate"
       /\ x.t = t
       /\ Decode(c, x)
       /\ used' = used \cup {t}
       /\ Goto(c, IF x.valid THEN "save" ELSE "done")

\* Service.CreateTournament: Repo.Save into the adapter's MemoryRepository
\* (which cannot fail), then the provider.
AdapterSave(c) ==
    /\ pc[c] = "save"
    /\ localTour' = [localTour EXCEPT ![c] = @ \cup {op[c].t}]
    /\ Goto(c, "nkCreate")
    /\ UNCHANGED <<ntour, natt, used, localPart, op>>

\* rpcDeleteTournamentWithAdapter: decode and `TournamentID == ""`, then
\* Service.DeleteTournament's Validate and the provider delete.
AdapterDelete(c) ==
    \E x \in Ops:
       /\ x.kind = "adapterDelete"
       /\ Decode(c, x)
       /\ UNCHANGED used
       /\ Goto(c, IF x.valid THEN "nkDelete" ELSE "done")

\* rpcAddAttemptTournamentWithAdapter: decode, required fields and
\* `Count == 0`, then Service.AddAttempt's checks including `Count <= 0`.
AdapterAttempt(c) ==
    \E x \in Ops:
       /\ x.kind = "adapterAttempt"
       /\ Decode(c, x)
       /\ UNCHANGED used
       /\ Goto(c, IF x.valid /\ ServiceCountOk(x.n) THEN "saveAttempt" ELSE "done")

\* Service.AddAttempt: Participants.Get finds nothing in the fresh
\* repository, NewParticipant, AddAttempts and Save, then the provider.
AdapterSaveAttempt(c) ==
    /\ pc[c] = "saveAttempt"
    /\ localPart' = [localPart EXCEPT ![c] = @ \cup {<<op[c].t, op[c].o>>}]
    /\ Goto(c, "nkAttempt")
    /\ UNCHANGED <<ntour, natt, used, localTour, op>>

Finished ==
    /\ \A c \in Calls: pc[c] = "done"
    /\ UNCHANGED vars

Rpc(c) ==
    \/ RawCreate(c) \/ RawCall(c) \/ AdapterCreate(c) \/ AdapterDelete(c) \/ AdapterAttempt(c)
    \/ CreateInNakama(c) \/ CreateAgain(c) \/ DeleteInNakama(c) \/ AddAttemptInNakama(c)
    \/ AdapterSave(c) \/ AdapterSaveAttempt(c)

Next == (\E c \in Calls: Rpc(c)) \/ Finished

Spec == Init /\ [][Next]_vars

-----------------------------------------------------------------------------
TypeOK ==
    /\ ntour \subseteq Tids
    /\ natt \in [Tids -> [Owners -> Int]]
    /\ used \subseteq Tids
    /\ localTour \in [Calls -> SUBSET Tids]
    /\ localPart \in [Calls -> SUBSET (Tids \X Owners)]
    /\ pc \in [Calls -> Stages]
    /\ op \in [Calls -> Ops]

\* Spec 4.2 and 4.4: an add-attempt validates `count > 0` before it touches
\* any store.  So no add-attempt RPC's Nakama call lowers a tournament's
\* attempts, whatever other RPCs interleave (rpcAddAttemptTournament,
\* rpcAddAttemptTournamentWithAdapter).
AttemptsOnlyGrow ==
    [][\A c \in Calls:
         (pc[c] = "nkAttempt" /\ pc'[c] = "done") =>
            \A t \in ntour \cap ntour', o \in Owners: natt'[t][o] >= natt[t][o]]_vars

=============================================================================
