----------------------- MODULE TournamentServiceProofs -----------------------
(***************************************************************************)
(* Proofs about the tournament command service model (TournamentService), *)
(* for every set of tournaments, players, calls and counts.                *)
(***************************************************************************)
EXTENDS TournamentService, TLAPS

\* The participant key an AddAttempt call works on.
K(c) == <<op[c].t, op[c].p>>

AttemptStages == {"attemptGet", "attemptSave", "attemptSync"}

\* The type invariant with the fact that makes it inductive: an AddAttempt
\* call only gets past its count check with a positive count.
TInv ==
    /\ TypeOK
    /\ \A c \in Calls: pc[c] \in AttemptStages => op[c].n > 0

\* Some command exists, so Init can choose one for every call.
LEMMA OpsNonEmpty == \E o \in Ops: TRUE
<1>1. PICK t \in Tids, p \in Players, n \in Counts: TRUE
  BY IdsAssumption, CountsAssumption
<1>2. [kind |-> "create", t |-> t, p |-> p, n |-> n, valid |-> TRUE] \in Ops
  BY <1>1 DEF Ops, Kinds
<1>3. QED
  BY <1>2

\* TInv holds initially.
LEMMA TInvInit == Init => TInv
<1> SUFFICES ASSUME Init PROVE TInv
  OBVIOUS
<1>1. (CHOOSE o \in Ops: TRUE) \in Ops
  BY OpsNonEmpty
<1>2. QED
  BY <1>1 DEF Init, TInv, TypeOK, Stages, AttemptStages

\* The fields of a call's command, as the actions use them.
LEMMA OpFacts ==
    ASSUME TypeOK, NEW c \in Calls
    PROVE  /\ op[c].t \in Tids
           /\ op[c].p \in Players
           /\ op[c].n \in Int
           /\ K(c) \in Tids \X Players
  BY CountsAssumption DEF TypeOK, Ops, K

\* Arrive chooses a well-typed command and leaves the stores alone.
LEMMA ArriveType ==
    ASSUME TInv, NEW c \in Calls, NEW o \in Ops, Arrive(c, o)
    PROVE  /\ op' \in [Calls -> Ops]
           /\ UNCHANGED <<local, remote, attempts, remoteAttempts, snap>>
  BY DEF Arrive, TInv, TypeOK

\* Every step keeps TInv.
LEMMA TInvNext == TInv /\ [Next]_vars => TInv'
<1> SUFFICES ASSUME TInv, [Next]_vars PROVE TInv'
  OBVIOUS
<1>1. ASSUME NEW c \in Calls, BeginCreate(c) PROVE TInv'
  BY <1>1, ArriveType DEF BeginCreate, Arrive, Goto, TInv, TypeOK, Stages, AttemptStages
<1>2. ASSUME NEW c \in Calls, BeginDelete(c) PROVE TInv'
  BY <1>2, ArriveType DEF BeginDelete, Arrive, Goto, TInv, TypeOK, Stages, AttemptStages
<1>3. ASSUME NEW c \in Calls, BeginAttempt(c) PROVE TInv'
  BY <1>3, ArriveType DEF BeginAttempt, Arrive, Goto, TInv, TypeOK, Stages, AttemptStages
<1>4. ASSUME NEW c \in Calls, CreateSave(c) \/ CreateSync(c) PROVE TInv'
  BY <1>4 DEF CreateSave, CreateSync, RepoOutcomes, ProviderOutcomes, Goto,
              TInv, TypeOK, Ops, Stages, AttemptStages
<1>5. ASSUME NEW c \in Calls, DeleteSync(c) PROVE TInv'
  <2>1. remoteAttempts' \in [Tids \X Players -> Nat]
    BY <1>5, OpFacts DEF DeleteSync, ProviderOutcomes, TInv, TypeOK
  <2>2. QED
    BY <1>5, <2>1, OpFacts DEF DeleteSync, ProviderOutcomes, Goto, TInv, TypeOK,
                               Stages, AttemptStages
<1>6. ASSUME NEW c \in Calls, DeleteLocal(c) PROVE TInv'
  BY <1>6, OpFacts DEF DeleteLocal, RepoOutcomes, Goto, TInv, TypeOK, Stages,
                       AttemptStages
<1>7. ASSUME NEW c \in Calls, AttemptGet(c) PROVE TInv'
  <2>1. pc[c] = "attemptGet"
    BY <1>7 DEF AttemptGet
  <2>2. attempts[K(c)] + op[c].n \in Nat
    BY <2>1, OpFacts DEF TInv, TypeOK, AttemptStages
  <2>3. QED
    BY <1>7, <2>1, <2>2, OpFacts DEF AttemptGet, RepoOutcomes, Goto, TInv, TypeOK,
                                     Stages, AttemptStages, K
<1>8. ASSUME NEW c \in Calls, AttemptSave(c) PROVE TInv'
  BY <1>8, OpFacts DEF AttemptSave, RepoOutcomes, Goto, TInv, TypeOK, Stages,
                       AttemptStages
<1>9. ASSUME NEW c \in Calls, AttemptSync(c) PROVE TInv'
  <2>1. pc[c] = "attemptSync"
    BY <1>9 DEF AttemptSync
  <2>2. remoteAttempts[K(c)] + op[c].n \in Nat
    BY <2>1, OpFacts DEF TInv, TypeOK, AttemptStages
  <2>3. QED
    BY <1>9, <2>1, <2>2, OpFacts DEF AttemptSync, ProviderOutcomes, Goto, TInv,
                                     TypeOK, Stages, AttemptStages, K
<1>10. CASE Terminated \/ UNCHANGED vars
  BY <1>10 DEF Terminated, vars, TInv, TypeOK
<1>11. QED
  BY <1>1, <1>2, <1>3, <1>4, <1>5, <1>6, <1>7, <1>8, <1>9, <1>10 DEF Next, Begin, Step

\* Whatever calls interleave, serialized or not, every variable keeps its
\* type; in particular no AddAttempt leaves a negative attempt count, since
\* the count check runs before the participant is read.
THEOREM TypeCorrect == Spec => []TypeOK
<1>1. TInv => TypeOK
  BY DEF TInv
<1>2. QED
  BY <1>1, TInvInit, TInvNext, PTL DEF Spec

-----------------------------------------------------------------------------
(* The inductive invariant for the two consistency properties when calls  *)
(* on one tournament are serialized.  Each call in flight is alone on its *)
(* tournament, and what it is about to write is safe to write: a create   *)
(* about to sync finds its local record, a delete about to delete locally *)
(* already removed the tournament from Nakama, an AddAttempt about to save *)
(* holds the stored count plus its own, and one about to sync has already *)
(* saved its count locally on top of what Nakama has.                      *)
Exclusive ==
    \A c, d \in Calls: c # d /\ InFlight(c) /\ InFlight(d) => op[c].t # op[d].t
CreateSyncSafe == \A c \in Calls: pc[c] = "createSync" => local[op[c].t]
DeleteLocalSafe == \A c \in Calls: pc[c] = "deleteLocal" => ~remote[op[c].t]
SaveHolds ==
    \A c \in Calls: pc[c] = "attemptSave" => snap[c] = attempts[K(c)] + op[c].n
SyncCovered ==
    \A c \in Calls: pc[c] = "attemptSync" => remoteAttempts[K(c)] + op[c].n <= attempts[K(c)]

IInv ==
    /\ TInv
    /\ Exclusive
    /\ CreateSyncSafe
    /\ DeleteLocalSafe
    /\ SaveHolds
    /\ SyncCovered
    /\ LocalCoversRemote
    /\ RemoteImpliesLocal

\* IInv holds initially.
LEMMA IInvInit == Init => IInv
<1> SUFFICES ASSUME Init PROVE IInv
  OBVIOUS
<1>1. TInv
  BY TInvInit
<1>2. QED
  BY <1>1 DEF Init, IInv, InFlight, Exclusive, CreateSyncSafe, DeleteLocalSafe,
              SaveHolds, SyncCovered, LocalCoversRemote, RemoteImpliesLocal

\* Under IInv, a call in flight shares its tournament, and so its
\* participant key, with no other call in flight.
LEMMA Alone ==
    ASSUME IInv, NEW c \in Calls, NEW d \in Calls, d # c, InFlight(c), InFlight(d)
    PROVE  op[d].t # op[c].t /\ K(d) # K(c)
  BY DEF IInv, Exclusive, K

\* A step of a call in flight that only moves its own pc keeps Exclusive.
LEMMA StepExclusive ==
    ASSUME IInv, NEW c \in Calls, InFlight(c), NEW x \in Stages,
           op' = op, pc' = [pc EXCEPT ![c] = x]
    PROVE  Exclusive'
  BY DEF IInv, TInv, TypeOK, Exclusive, InFlight

\* A call that returns without writing keeps IInv.
LEMMA ReturnIInv ==
    ASSUME IInv, TInv', NEW c \in Calls, InFlight(c),
           pc' = [pc EXCEPT ![c] = "done"],
           UNCHANGED <<local, remote, attempts, remoteAttempts, op, snap>>
    PROVE  IInv'
<1>1. Exclusive'
  BY StepExclusive DEF Stages
<1>2. QED
  BY <1>1 DEF IInv, TInv, TypeOK, CreateSyncSafe, DeleteLocalSafe, SaveHolds,
              SyncCovered, LocalCoversRemote, RemoteImpliesLocal, K

\* A call that passes its validation is, under Serialized, alone on its
\* tournament, and no stage it enters has a pending write to justify.
LEMMA BeginIInv ==
    ASSUME Serialized, IInv, TInv',
           NEW c \in Calls, NEW o \in Ops, Arrive(c, o),
           NEW st \in {"createSave", "deleteSync", "attemptGet", "done"},
           pc' = [pc EXCEPT ![c] = st]
    PROVE  IInv'
<1>1. \A d \in Calls \ {c}: InFlight(d) => op[d].t # o.t
  BY DEF Arrive, MayStart
<1>2. op' = [op EXCEPT ![c] = o] /\ UNCHANGED <<local, remote, attempts, remoteAttempts, snap>>
  BY DEF Arrive
<1>3. pc[c] = "idle"
  BY DEF Arrive
<1>4. Exclusive'
  BY <1>1, <1>2, <1>3 DEF IInv, TInv, TypeOK, InFlight, Exclusive
<1>5. QED
  BY <1>2, <1>3, <1>4 DEF IInv, TInv, TypeOK, CreateSyncSafe, DeleteLocalSafe,
                          SaveHolds, SyncCovered, K, LocalCoversRemote, RemoteImpliesLocal

\* CreateTournament's Save: the local record a later sync relies on.
LEMMA CreateSaveIInv ==
    ASSUME IInv, TInv', NEW c \in Calls, CreateSave(c)
    PROVE  IInv'
<1> DEFINE t == op[c].t
<1>1. pc[c] = "createSave" /\ UNCHANGED <<remote, attempts, remoteAttempts, op, snap>>
  BY DEF CreateSave
<1>2. InFlight(c)
  BY <1>1 DEF InFlight
<1>3. PICK o \in RepoOutcomes:
        IF o = "ok" THEN /\ local' = [local EXCEPT ![t] = TRUE]
                         /\ pc' = [pc EXCEPT ![c] = "createSync"]
                    ELSE /\ pc' = [pc EXCEPT ![c] = "done"]
                         /\ UNCHANGED local
  BY DEF CreateSave, Goto
<1>4. CASE o = "ok"
  <2>1. Exclusive'
    BY <1>1, <1>2, <1>3, <1>4, StepExclusive DEF Stages
  <2>2. local' = [local EXCEPT ![t] = TRUE] /\ pc' = [pc EXCEPT ![c] = "createSync"]
    BY <1>3, <1>4
  <2>3. CreateSyncSafe'
    BY <1>1, <2>2 DEF IInv, TInv, TypeOK, CreateSyncSafe
  <2>4. DeleteLocalSafe' /\ SaveHolds' /\ SyncCovered' /\ LocalCoversRemote'
    BY <1>1, <2>2 DEF IInv, TInv, TypeOK, DeleteLocalSafe, SaveHolds, SyncCovered, K,
                      LocalCoversRemote
  <2>5. RemoteImpliesLocal'
    BY <1>1, <2>2 DEF IInv, TInv, TypeOK, RemoteImpliesLocal
  <2>6. QED
    BY <2>1, <2>3, <2>4, <2>5 DEF IInv
<1>5. CASE o # "ok"
  BY <1>1, <1>2, <1>3, <1>5, ReturnIInv
<1>6. QED
  BY <1>4, <1>5

\* CreateTournament's provider call: the record it mirrors is still there,
\* since no delete of the same tournament runs alongside.
LEMMA CreateSyncIInv ==
    ASSUME IInv, TInv', NEW c \in Calls, CreateSync(c)
    PROVE  IInv'
<1> DEFINE t == op[c].t
<1>1. /\ pc[c] = "createSync" /\ pc' = [pc EXCEPT ![c] = "done"]
      /\ UNCHANGED <<local, attempts, remoteAttempts, op, snap>>
  BY DEF CreateSync, Goto
<1>2. InFlight(c) /\ local[t]
  BY <1>1 DEF InFlight, IInv, CreateSyncSafe
<1>3. remote' = remote \/ remote' = [remote EXCEPT ![t] = TRUE]
  BY DEF CreateSync
<1>4. \A d \in Calls: d # c /\ pc[d] = "deleteLocal" => op[d].t # t
  BY <1>2, Alone DEF InFlight
<1>5. Exclusive'
  BY <1>1, <1>2, StepExclusive DEF Stages
<1>6. CreateSyncSafe' /\ SaveHolds' /\ SyncCovered' /\ LocalCoversRemote'
  BY <1>1 DEF IInv, TInv, TypeOK, CreateSyncSafe, SaveHolds, SyncCovered, K,
              LocalCoversRemote
<1>7. DeleteLocalSafe'
  BY <1>1, <1>3, <1>4 DEF IInv, TInv, TypeOK, Ops, DeleteLocalSafe
<1>8. RemoteImpliesLocal'
  BY <1>1, <1>2, <1>3 DEF IInv, TInv, TypeOK, RemoteImpliesLocal
<1>9. QED
  BY <1>5, <1>6, <1>7, <1>8 DEF IInv

\* DeleteTournament's provider call: Nakama forgets the tournament and its
\* attempts; an AddAttempt waiting to sync is on another tournament.
LEMMA DeleteSyncIInv ==
    ASSUME IInv, TInv', NEW c \in Calls, DeleteSync(c)
    PROVE  IInv'
<1> DEFINE t == op[c].t
<1>1. pc[c] = "deleteSync" /\ UNCHANGED <<local, attempts, op, snap>>
  BY DEF DeleteSync
<1>2. InFlight(c) /\ t \in Tids
  BY <1>1, OpFacts DEF InFlight, IInv, TInv
<1>3. PICK o \in ProviderOutcomes:
        IF o = "ok"
           THEN /\ remote' = [remote EXCEPT ![t] = FALSE]
                /\ remoteAttempts' = [k \in Tids \X Players |->
                                        IF k[1] = t THEN 0 ELSE remoteAttempts[k]]
                /\ pc' = [pc EXCEPT ![c] = "deleteLocal"]
           ELSE /\ pc' = [pc EXCEPT ![c] = "done"]
                /\ UNCHANGED <<remote, remoteAttempts>>
  BY DEF DeleteSync, Goto
<1>4. CASE o = "ok"
  <2>1. /\ remote' = [remote EXCEPT ![t] = FALSE]
        /\ remoteAttempts' = [k \in Tids \X Players |->
                                IF k[1] = t THEN 0 ELSE remoteAttempts[k]]
        /\ pc' = [pc EXCEPT ![c] = "deleteLocal"]
    BY <1>3, <1>4
  <2>2. Exclusive'
    BY <1>1, <1>2, <2>1, StepExclusive DEF Stages
  <2>3. \A d \in Calls: d # c /\ pc[d] = "attemptSync" => op[d].t # t
    BY <1>2, Alone DEF InFlight
  <2>4. SyncCovered'
    BY <1>1, <2>1, <2>3 DEF IInv, TInv, TypeOK, Ops, SyncCovered, K
  <2>5. LocalCoversRemote'
    BY <1>1, <2>1 DEF IInv, TInv, TypeOK, LocalCoversRemote
  <2>6. DeleteLocalSafe' /\ RemoteImpliesLocal'
    BY <1>1, <1>2, <2>1 DEF IInv, TInv, TypeOK, Ops, DeleteLocalSafe, RemoteImpliesLocal
  <2>7. CreateSyncSafe' /\ SaveHolds'
    BY <1>1, <2>1 DEF IInv, TInv, TypeOK, CreateSyncSafe, SaveHolds, K
  <2>8. QED
    BY <2>2, <2>4, <2>5, <2>6, <2>7 DEF IInv
<1>5. CASE o # "ok"
  BY <1>1, <1>2, <1>3, <1>5, ReturnIInv
<1>6. QED
  BY <1>4, <1>5

\* DeleteTournament's local delete: Nakama no longer has the tournament,
\* and no create of the same tournament is about to sync.
LEMMA DeleteLocalIInv ==
    ASSUME IInv, TInv', NEW c \in Calls, DeleteLocal(c)
    PROVE  IInv'
<1> DEFINE t == op[c].t
<1>1. /\ pc[c] = "deleteLocal" /\ pc' = [pc EXCEPT ![c] = "done"]
      /\ UNCHANGED <<remote, attempts, remoteAttempts, op, snap>>
  BY DEF DeleteLocal, Goto
<1>2. InFlight(c) /\ ~remote[t]
  BY <1>1 DEF InFlight, IInv, DeleteLocalSafe
<1>3. local' = local \/ local' = [local EXCEPT ![t] = FALSE]
  BY DEF DeleteLocal
<1>4. \A d \in Calls: d # c /\ pc[d] = "createSync" => op[d].t # t
  BY <1>2, Alone DEF InFlight
<1>5. Exclusive'
  BY <1>1, <1>2, StepExclusive DEF Stages
<1>6. CreateSyncSafe'
  BY <1>1, <1>3, <1>4 DEF IInv, TInv, TypeOK, Ops, CreateSyncSafe
<1>7. RemoteImpliesLocal'
  BY <1>1, <1>2, <1>3 DEF IInv, TInv, TypeOK, RemoteImpliesLocal
<1>8. DeleteLocalSafe' /\ SaveHolds' /\ SyncCovered' /\ LocalCoversRemote'
  BY <1>1 DEF IInv, TInv, TypeOK, DeleteLocalSafe, SaveHolds, SyncCovered, K,
              LocalCoversRemote
<1>9. QED
  BY <1>5, <1>6, <1>7, <1>8 DEF IInv

\* AddAttempt's read: the copy holds the stored count plus the call's count.
LEMMA AttemptGetIInv ==
    ASSUME IInv, TInv', NEW c \in Calls, AttemptGet(c)
    PROVE  IInv'
<1>1. pc[c] = "attemptGet" /\ UNCHANGED <<local, remote, attempts, remoteAttempts, op>>
  BY DEF AttemptGet
<1>2. InFlight(c)
  BY <1>1 DEF InFlight
<1>3. PICK o \in RepoOutcomes:
        IF o = "ok" THEN /\ snap' = [snap EXCEPT ![c] = attempts[<<op[c].t, op[c].p>>] + op[c].n]
                         /\ pc' = [pc EXCEPT ![c] = "attemptSave"]
                    ELSE /\ pc' = [pc EXCEPT ![c] = "done"]
                         /\ UNCHANGED snap
  BY DEF AttemptGet, Goto
<1>4. CASE o = "ok"
  <2>1. /\ snap' = [snap EXCEPT ![c] = attempts[K(c)] + op[c].n]
        /\ pc' = [pc EXCEPT ![c] = "attemptSave"]
    BY <1>3, <1>4 DEF K
  <2>2. Exclusive'
    BY <1>1, <1>2, <2>1, StepExclusive DEF Stages
  <2>3. SaveHolds'
    BY <1>1, <2>1 DEF IInv, TInv, TypeOK, SaveHolds, K
  <2>4. CreateSyncSafe' /\ DeleteLocalSafe' /\ SyncCovered' /\ LocalCoversRemote'
        /\ RemoteImpliesLocal'
    BY <1>1, <2>1 DEF IInv, TInv, TypeOK, CreateSyncSafe, DeleteLocalSafe, SyncCovered,
                      K, LocalCoversRemote, RemoteImpliesLocal
  <2>5. QED
    BY <2>2, <2>3, <2>4 DEF IInv
<1>5. CASE o # "ok"
  BY <1>1, <1>2, <1>3, <1>5, ReturnIInv
<1>6. QED
  BY <1>4, <1>5

\* AddAttempt's Save: no other call changed the participant since the read,
\* so the saved count is the old one plus the call's positive count.
LEMMA AttemptSaveIInv ==
    ASSUME IInv, TInv', NEW c \in Calls, AttemptSave(c)
    PROVE  IInv'
<1>1. pc[c] = "attemptSave" /\ UNCHANGED <<local, remote, remoteAttempts, op, snap>>
  BY DEF AttemptSave
<1>2. InFlight(c) /\ K(c) \in Tids \X Players /\ op[c].n \in Int /\ op[c].n > 0
      /\ snap[c] = attempts[K(c)] + op[c].n
  BY <1>1, OpFacts DEF InFlight, IInv, TInv, AttemptStages, SaveHolds
<1>3. PICK o \in RepoOutcomes:
        IF o = "ok" THEN /\ attempts' = [attempts EXCEPT ![<<op[c].t, op[c].p>>] = snap[c]]
                         /\ pc' = [pc EXCEPT ![c] = "attemptSync"]
                    ELSE /\ pc' = [pc EXCEPT ![c] = "done"]
                         /\ UNCHANGED attempts
  BY DEF AttemptSave, Goto
<1>4. CASE o = "ok"
  <2>1. /\ attempts' = [attempts EXCEPT ![K(c)] = snap[c]]
        /\ pc' = [pc EXCEPT ![c] = "attemptSync"]
    BY <1>3, <1>4 DEF K
  <2>2. Exclusive'
    BY <1>1, <1>2, <2>1, StepExclusive DEF Stages
  <2>3. \A d \in Calls: d # c /\ pc[d] \in {"attemptSave", "attemptSync"} => K(d) # K(c)
    BY <1>2, Alone DEF InFlight
  <2>4. SaveHolds'
    BY <1>1, <2>1, <2>3 DEF IInv, TInv, TypeOK, SaveHolds, K
  <2>5. SyncCovered'
    <3>1. \A d \in Calls: K(d)' = K(d)
      BY <1>1 DEF K
    <3>2. remoteAttempts[K(c)] + op[c].n <= attempts'[K(c)]
      BY <1>2, <2>1 DEF IInv, TInv, TypeOK, LocalCoversRemote
    <3>3. ASSUME NEW d \in Calls, d # c, pc'[d] = "attemptSync"
          PROVE  remoteAttempts'[K(d)] + op'[d].n <= attempts'[K(d)]
      <4>1. pc[d] = "attemptSync" /\ K(d) # K(c)
        BY <3>3, <2>1, <2>3
      <4>2. QED
        BY <4>1, <3>1, <1>1, <2>1 DEF IInv, SyncCovered
    <3>4. QED
      BY <3>1, <3>2, <3>3, <1>1, <2>1 DEF SyncCovered
  <2>6. LocalCoversRemote'
    BY <1>1, <1>2, <2>1 DEF IInv, TInv, TypeOK, LocalCoversRemote
  <2>7. CreateSyncSafe' /\ DeleteLocalSafe' /\ RemoteImpliesLocal'
    BY <1>1, <2>1 DEF IInv, CreateSyncSafe, DeleteLocalSafe, RemoteImpliesLocal
  <2>8. QED
    BY <2>2, <2>4, <2>5, <2>6, <2>7 DEF IInv
<1>5. CASE o # "ok"
  BY <1>1, <1>2, <1>3, <1>5, ReturnIInv
<1>6. QED
  BY <1>4, <1>5

\* AddAttempt's provider call: the count it adds to Nakama is already in
\* the local store on top of what Nakama had.
LEMMA AttemptSyncIInv ==
    ASSUME IInv, TInv', NEW c \in Calls, AttemptSync(c)
    PROVE  IInv'
<1>1. /\ pc[c] = "attemptSync" /\ pc' = [pc EXCEPT ![c] = "done"]
      /\ UNCHANGED <<local, remote, attempts, op, snap>>
  BY DEF AttemptSync, Goto
<1>2. InFlight(c) /\ K(c) \in Tids \X Players /\ op[c].n \in Int
      /\ remoteAttempts[K(c)] + op[c].n <= attempts[K(c)]
  BY <1>1, OpFacts DEF InFlight, IInv, TInv, SyncCovered
<1>3. \/ remoteAttempts' = remoteAttempts
      \/ remoteAttempts' = [remoteAttempts EXCEPT ![K(c)] = @ + op[c].n]
  BY DEF AttemptSync, K
<1>4. \A d \in Calls: d # c /\ pc[d] = "attemptSync" => K(d) # K(c)
  BY <1>2, Alone DEF InFlight
<1>5. Exclusive'
  BY <1>1, <1>2, StepExclusive DEF Stages
<1>6. LocalCoversRemote'
  <2> SUFFICES ASSUME NEW k \in Tids \X Players
               PROVE  remoteAttempts'[k] <= attempts'[k]
    BY DEF LocalCoversRemote
  <2>1. CASE remoteAttempts' = remoteAttempts
    BY <2>1, <1>1 DEF IInv, LocalCoversRemote
  <2>2. CASE remoteAttempts' = [remoteAttempts EXCEPT ![K(c)] = @ + op[c].n]
    <3>1. CASE k = K(c)
      BY <1>1, <1>2, <2>2, <3>1 DEF IInv, TInv, TypeOK
    <3>2. CASE k # K(c)
      BY <1>1, <2>2, <3>2 DEF IInv, TInv, TypeOK, LocalCoversRemote
    <3>3. QED
      BY <3>1, <3>2
  <2>3. QED
    BY <1>3, <2>1, <2>2
<1>7. SyncCovered'
  <2>1. \A d \in Calls: K(d)' = K(d)
    BY <1>1 DEF K
  <2>2. ASSUME NEW d \in Calls, pc'[d] = "attemptSync"
        PROVE  remoteAttempts'[K(d)] + op'[d].n <= attempts'[K(d)]
    <3>1. d # c /\ pc[d] = "attemptSync"
      BY <2>2, <1>1 DEF IInv, TInv, TypeOK
    <3>2. K(d) # K(c)
      BY <3>1, <1>4
    <3>3. remoteAttempts'[K(d)] = remoteAttempts[K(d)]
      <4>1. K(d) \in Tids \X Players /\ remoteAttempts \in [Tids \X Players -> Nat]
        BY OpFacts DEF IInv, TInv, TypeOK
      <4>2. QED
        BY <3>2, <4>1, <1>3
    <3>4. QED
      BY <3>1, <3>3, <2>1, <1>1 DEF IInv, SyncCovered
  <2>3. QED
    BY <2>1, <2>2 DEF SyncCovered
<1>8. CreateSyncSafe' /\ DeleteLocalSafe' /\ SaveHolds' /\ RemoteImpliesLocal'
  BY <1>1 DEF IInv, CreateSyncSafe, DeleteLocalSafe, SaveHolds, K, RemoteImpliesLocal
<1>9. QED
  BY <1>5, <1>6, <1>7, <1>8 DEF IInv

\* Under Serialized, every step keeps IInv.
LEMMA IInvNext ==
    ASSUME Serialized, IInv, [Next]_vars
    PROVE  IInv'
<1>0. TInv'
  BY TInvNext DEF IInv
<1>1. ASSUME NEW c \in Calls, BeginCreate(c) PROVE IInv'
  <2>1. PICK o \in Ops: /\ o.kind = "create" /\ Arrive(c, o)
                        /\ Goto(c, IF o.valid THEN "createSave" ELSE "done")
    BY <1>1 DEF BeginCreate
  <2>2. QED
    BY <2>1, <1>0, BeginIInv DEF Goto
<1>2. ASSUME NEW c \in Calls, BeginDelete(c) PROVE IInv'
  <2>1. PICK o \in Ops: o.kind = "delete" /\ Arrive(c, o) /\ Goto(c, "deleteSync")
    BY <1>2 DEF BeginDelete
  <2>2. QED
    BY <2>1, <1>0, BeginIInv DEF Goto
<1>3. ASSUME NEW c \in Calls, BeginAttempt(c) PROVE IInv'
  <2>1. PICK o \in Ops: /\ o.kind = "attempt" /\ Arrive(c, o)
                        /\ Goto(c, IF o.n > 0 THEN "attemptGet" ELSE "done")
    BY <1>3 DEF BeginAttempt
  <2>2. QED
    BY <2>1, <1>0, BeginIInv DEF Goto
<1>4. ASSUME NEW c \in Calls, Step(c) PROVE IInv'
  BY <1>4, <1>0, CreateSaveIInv, CreateSyncIInv, DeleteSyncIInv, DeleteLocalIInv,
     AttemptGetIInv, AttemptSaveIInv, AttemptSyncIInv DEF Step
<1>5. CASE Terminated \/ UNCHANGED vars
  BY <1>5 DEF Terminated, vars, IInv, TInv, TypeOK, Exclusive, InFlight,
              CreateSyncSafe, DeleteLocalSafe, SaveHolds, SyncCovered, K,
              LocalCoversRemote, RemoteImpliesLocal
<1>6. QED
  BY <1>1, <1>2, <1>3, <1>4, <1>5 DEF Next, Begin

\* With calls on one tournament serialized, IInv holds in every reachable state.
THEOREM SerializedInvariant == Serialized => (Spec => []IInv)
<1> SUFFICES ASSUME Serialized PROVE Spec => []IInv
  OBVIOUS
<1>1. IInv /\ [Next]_vars => IInv'
  BY IInvNext
<1>2. QED
  BY <1>1, IInvInit, PTL DEF Spec

\* When calls on one tournament never overlap (the per-key serialization
\* spec 5 asks of a conforming repository), Nakama never holds more attempts
\* for a participant than the local store, under any failure of any
\* repository or provider call: AddAttempt saves before it syncs and stops
\* when the save fails.
THEOREM LocalCovers == Serialized => (Spec => []LocalCoversRemote)
  BY SerializedInvariant, PTL DEF IInv

\* Under the same serialization, every tournament Nakama has is recorded
\* locally: CreateTournament saves before it syncs, DeleteTournament syncs
\* before it deletes locally, and any failure stops the call.
THEOREM RemoteRecorded == Serialized => (Spec => []RemoteImpliesLocal)
  BY SerializedInvariant, PTL DEF IInv

=============================================================================
