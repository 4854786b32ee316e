----------------------- MODULE AnalyticsSessionProofs -----------------------
(***************************************************************************)
(* Proofs about the analytics session model (AnalyticsSession), for every *)
(* set of users and calls.                                                 *)
(***************************************************************************)
EXTENDS AnalyticsSession, TLAPS

\* Stages in which an EndSession call holds a session pointer.
HoldStages == {"endCheck", "endSet", "endSave", "endDispatch", "endDelete"}

\* Some call argument exists, so Init can choose one for every call.
LEMMA OpsNonEmpty == \E o \in Ops: TRUE
<1>1. PICK u \in Users: TRUE
  BY IdsAssumption
<1>2. [kind |-> "start", u |-> u, valid |-> TRUE] \in Ops
  BY <1>1 DEF Ops
<1>3. QED
  BY <1>2

LEMMA TypeInit == Init => TypeOK
<1> SUFFICES ASSUME Init PROVE TypeOK
  OBVIOUS
<1>1. (CHOOSE o \in Ops: TRUE) \in Ops
  BY OpsNonEmpty
<1>2. QED
  BY <1>1 DEF Init, TypeOK, Stages, SessionPtrs

\* The repository a call uses and the user it names are well typed.
LEMMA CallFacts ==
    ASSUME TypeOK, NEW c \in Calls
    PROVE  /\ RepoOf(c) \in RepoIds
           /\ User(c) \in Users
           /\ Stored(c) \in SessionPtrs
  BY DEF TypeOK, RepoOf, RepoIds, User, Stored, Ops

\* Writing a session pointer into the entry a call uses keeps the map typed.
LEMMA StoreUpdate ==
    ASSUME TypeOK, NEW c \in Calls, NEW v \in SessionPtrs
    PROVE  [sessions EXCEPT ![RepoOf(c)][User(c)] = v] \in [RepoIds -> [Users -> SessionPtrs]]
<1>1. RepoOf(c) \in RepoIds /\ User(c) \in Users
  BY CallFacts
<1>2. QED
  BY <1>1 DEF TypeOK

LEMMA TypeStep == TypeOK /\ [Next]_vars => TypeOK'
<1> SUFFICES ASSUME TypeOK, [Next]_vars PROVE TypeOK'
  OBVIOUS
<1>1. ASSUME NEW c \in Calls, Begin(c) PROVE TypeOK'
  BY <1>1 DEF Begin, BeginStart, BeginEnd, Arrive, Goto, TypeOK, Stages
<1>2. ASSUME NEW c \in Calls, StartSave(c) PROVE TypeOK'
  <2>1. sessions' \in [RepoIds -> [Users -> SessionPtrs]]
    BY <1>2, StoreUpdate DEF StartSave, SessionPtrs
  <2>2. QED
    BY <1>2, <2>1, CallFacts DEF StartSave, Goto, TypeOK, Stages, SessionPtrs
<1>3. ASSUME NEW c \in Calls, EndGet(c) PROVE TypeOK'
  <2>1. Stored(c) \in SessionPtrs /\ User(c) \in Users
    BY CallFacts
  <2>2. QED
    BY <1>3, <2>1 DEF EndGet, Goto, TypeOK, Stages
<1>4. ASSUME NEW c \in Calls, EndCheck(c) \/ EndSet(c) PROVE TypeOK'
  BY <1>4 DEF EndCheck, EndSet, Goto, TypeOK, Stages
<1>5. ASSUME NEW c \in Calls, EndSave(c) PROVE TypeOK'
  <2>1. held[c] \in SessionPtrs
    BY DEF TypeOK
  <2>2. sessions' \in [RepoIds -> [Users -> SessionPtrs]]
    BY <1>5, <2>1, StoreUpdate DEF EndSave
  <2>3. QED
    BY <1>5, <2>2 DEF EndSave, Goto, TypeOK, Stages
<1>6. ASSUME NEW c \in Calls, EndDelete(c) PROVE TypeOK'
  <2>1. sessions' \in [RepoIds -> [Users -> SessionPtrs]]
    BY <1>6, StoreUpdate DEF EndDelete, SessionPtrs
  <2>2. QED
    BY <1>6, <2>1 DEF EndDelete, Goto, TypeOK, Stages
<1>7. ASSUME NEW c \in Calls, EndDispatch(c) PROVE TypeOK'
  <2>1. PICK o \in DispatchOutcomes, d \in BOOLEAN:
           /\ endEvents' = IF d THEN [endEvents EXCEPT ![held[c]] = @ + 1] ELSE endEvents
           /\ pc' = [pc EXCEPT ![c] = IF o = "ok" THEN "endDelete" ELSE "done"]
    BY <1>7 DEF EndDispatch, Goto
  <2>2. endEvents' \in [Calls -> Nat]
    <3>1. CASE d
      <4>1. endEvents' = [e \in Calls |-> IF e = held[c] THEN endEvents[e] + 1 ELSE endEvents[e]]
        BY <2>1, <3>1 DEF TypeOK
      <4>2. QED
        BY <4>1 DEF TypeOK
    <3>2. CASE ~d
      BY <2>1, <3>2 DEF TypeOK
    <3>3. QED
      BY <3>1, <3>2
  <2>3. QED
    BY <1>7, <2>1, <2>2 DEF EndDispatch, TypeOK, Stages
<1>8. CASE Terminated \/ UNCHANGED vars
  BY <1>8 DEF Terminated, vars, TypeOK
<1>9. QED
  BY <1>1, <1>2, <1>3, <1>4, <1>5, <1>6, <1>7, <1>8 DEF Next, Step

\* Whatever calls interleave and whichever adapter wiring is used, every
\* variable keeps its type.
THEOREM TypeCorrect == Spec => []TypeOK
  BY TypeInit, TypeStep, PTL DEF Spec

-----------------------------------------------------------------------------
(* The inductive invariant behind AtMostOneEnd when calls on one user are *)
(* serialized.  A session object exists only once its StartSession call   *)
(* has returned; the repository and every EndSession call in flight point *)
(* to objects of their own user; the call in flight on a user is alone;   *)
(* a call about to set State has seen the session active, and one past    *)
(* that point owns the end of a session no event has reported yet.        *)
Exclusive ==
    \A c, d \in Calls: c # d /\ InFlight(c) /\ InFlight(d) => User(c) # User(d)
StartKind == \A c \in Calls: pc[c] = "startSave" => op[c].kind = "start"
Allocated ==
    \A s \in Calls: sessionState[s] # "none" => pc[s] = "done" /\ op[s].kind = "start"
StoredOwned ==
    \A r \in RepoIds, u \in Users:
       sessions[r][u] # NoSession =>
          sessionState[sessions[r][u]] # "none" /\ op[sessions[r][u]].u = u
HeldOwned ==
    \A c \in Calls: pc[c] \in HoldStages =>
       /\ held[c] \in Calls
       /\ sessionState[held[c]] # "none"
       /\ op[held[c]].u = User(c)
Ending == \A c \in Calls: pc[c] = "endSet" => sessionState[held[c]] = "active"
Ended ==
    \A c \in Calls: pc[c] \in {"endSave", "endDispatch"} =>
       sessionState[held[c]] = "ended" /\ endEvents[held[c]] = 0
EventsEnded == \A s \in Calls: endEvents[s] # 0 => sessionState[s] = "ended"

IInv ==
    /\ TypeOK
    /\ Exclusive
    /\ StartKind
    /\ Allocated
    /\ StoredOwned
    /\ HeldOwned
    /\ Ending
    /\ Ended
    /\ EventsEnded
    /\ AtMostOneEnd

LEMMA IInvInit == Init => IInv
<1> SUFFICES ASSUME Init PROVE IInv
  OBVIOUS
<1>1. TypeOK
  BY TypeInit
<1>2. QED
  BY <1>1 DEF Init, IInv, Exclusive, InFlight, StartKind, Allocated, StoredOwned,
              HeldOwned, HoldStages, Ending, Ended, EventsEnded, AtMostOneEnd

\* Two calls in flight that hold pointers hold different sessions.
LEMMA HeldApart ==
    ASSUME IInv, NEW c \in Calls, NEW d \in Calls, c # d,
           pc[c] \in HoldStages, pc[d] \in HoldStages
    PROVE  held[c] # held[d]
<1>1. InFlight(c) /\ InFlight(d)
  BY DEF HoldStages, InFlight
<1>2. User(c) # User(d)
  BY <1>1 DEF IInv, Exclusive
<1>3. QED
  BY <1>2 DEF IInv, HeldOwned

\* The call moving to a new stage stays in flight and changes no argument.
LEMMA MoveExclusive ==
    ASSUME IInv, NEW c \in Calls, InFlight(c), NEW x \in Stages,
           op' = op, pc' = [pc EXCEPT ![c] = x]
    PROVE  Exclusive'
  BY DEF IInv, TypeOK, Exclusive, InFlight, User

LEMMA BeginIInv ==
    ASSUME Serialized, IInv, NEW c \in Calls, Begin(c)
    PROVE  IInv'
<1>1. PICK o \in Ops: /\ Arrive(c, o)
                      /\ \/ o.kind = "start" /\ pc' = [pc EXCEPT ![c] = IF o.valid THEN "startSave" ELSE "done"]
                         \/ o.kind = "end" /\ pc' = [pc EXCEPT ![c] = IF o.valid THEN "endGet" ELSE "done"]
  BY DEF Begin, BeginStart, BeginEnd, Goto
<1>2. /\ pc[c] = "idle"
      /\ op' = [op EXCEPT ![c] = o]
      /\ UNCHANGED <<sessions, sessionState, endEvents, held>>
      /\ \A d \in Calls \ {c}: InFlight(d) => op[d].u # o.u
  BY <1>1 DEF Arrive, MayStart
<1>3. TypeOK'
  BY TypeStep DEF Next, Begin, IInv
<1>4. sessionState[c] = "none"
  BY <1>2 DEF IInv, Allocated
<1>5. Exclusive'
  BY <1>1, <1>2 DEF IInv, TypeOK, Exclusive, InFlight, User
<1>6. (StoredOwned /\ HeldOwned)'
  <2>1. \A s \in Calls: sessionState[s] # "none" => op'[s] = op[s] /\ pc'[s] = pc[s]
    BY <1>1, <1>2, <1>4 DEF IInv, TypeOK
  <2>2. \A d \in Calls: pc'[d] \in HoldStages => d # c /\ pc'[d] = pc[d] /\ op'[d] = op[d]
    BY <1>1, <1>2 DEF IInv, TypeOK, HoldStages
  <2>3. QED
    BY <1>2, <2>1, <2>2 DEF IInv, TypeOK, StoredOwned, HeldOwned, User
<1>7. QED
  BY <1>1, <1>2, <1>3, <1>4, <1>5, <1>6
     DEF IInv, TypeOK, StartKind, Allocated, Ending, Ended, EventsEnded, AtMostOneEnd,
         HoldStages

LEMMA StartSaveIInv ==
    ASSUME IInv, NEW c \in Calls, StartSave(c)
    PROVE  IInv'
<1>1. /\ pc[c] = "startSave"
      /\ sessions' = [sessions EXCEPT ![RepoOf(c)][User(c)] = c]
      /\ sessionState' = [sessionState EXCEPT ![c] = "active"]
      /\ pc' = [pc EXCEPT ![c] = "done"]
      /\ UNCHANGED <<endEvents, op, held>>
  BY DEF StartSave, Goto
<1>2. TypeOK'
  BY TypeStep DEF Next, Step, IInv
<1>3. sessionState[c] = "none" /\ endEvents[c] = 0 /\ op[c].kind = "start"
  BY <1>1 DEF IInv, Allocated, EventsEnded, StartKind, TypeOK
<1>4. \A d \in Calls: pc[d] \in HoldStages => held[d] # c
  BY <1>3 DEF IInv, HeldOwned
<1>5. Exclusive'
  BY <1>1, MoveExclusive DEF InFlight, Stages
<1>6. StoredOwned'
  BY <1>1, <1>3, CallFacts DEF IInv, TypeOK, StoredOwned, User
<1>7. StartKind'
  BY <1>1 DEF IInv, TypeOK, StartKind
<1>8. Allocated'
  BY <1>1, <1>3 DEF IInv, TypeOK, Allocated
<1>9. HeldOwned'
  BY <1>1 DEF IInv, TypeOK, HeldOwned, HoldStages, User
<1>10. Ending'
  BY <1>1, <1>4 DEF IInv, TypeOK, Ending, HoldStages
<1>11. Ended'
  BY <1>1, <1>4 DEF IInv, TypeOK, Ended, HoldStages
<1>12. EventsEnded'
  BY <1>1, <1>3 DEF IInv, TypeOK, EventsEnded
<1>13. AtMostOneEnd'
  BY <1>1 DEF IInv, AtMostOneEnd
<1>14. QED
  BY <1>2, <1>5, <1>6, <1>7, <1>8, <1>9, <1>10, <1>11, <1>12, <1>13 DEF IInv

LEMMA EndGetIInv ==
    ASSUME IInv, NEW c \in Calls, EndGet(c)
    PROVE  IInv'
<1>1. pc[c] = "endGet" /\ UNCHANGED <<sessions, sessionState, endEvents, op>>
  BY DEF EndGet
<1>2. TypeOK'
  BY TypeStep DEF Next, Step, IInv
<1>3. Exclusive'
  BY <1>1, MoveExclusive DEF EndGet, Goto, InFlight, Stages
<1>4. (StoredOwned /\ EventsEnded /\ AtMostOneEnd)'
  BY <1>1 DEF IInv, StoredOwned, EventsEnded, AtMostOneEnd
<1>5. Allocated'
  <2>1. \A s \in Calls: sessionState[s] # "none" => s # c
    BY <1>1 DEF IInv, Allocated
  <2>2. \A s \in Calls \ {c}: pc'[s] = pc[s]
    BY <1>1 DEF EndGet, Goto, IInv, TypeOK
  <2>3. QED
    BY <1>1, <2>1, <2>2 DEF IInv, Allocated
<1>6. CASE Stored(c) = NoSession
  <2>1. pc' = [pc EXCEPT ![c] = "done"] /\ held' = held
    BY <1>1, <1>6 DEF EndGet, Goto
  <2>2. StartKind'
    BY <1>1, <2>1 DEF IInv, TypeOK, StartKind
  <2>3. (HeldOwned /\ Ending /\ Ended)'
    BY <1>1, <2>1 DEF IInv, TypeOK, HeldOwned, HoldStages, Ending, Ended, User
  <2>4. QED
    BY <1>2, <1>3, <1>4, <1>5, <2>2, <2>3 DEF IInv
<1>7. CASE Stored(c) # NoSession
  <2>1. held' = [held EXCEPT ![c] = Stored(c)] /\ pc' = [pc EXCEPT ![c] = "endCheck"]
    BY <1>1, <1>7 DEF EndGet, Goto
  <2>2. Stored(c) \in Calls /\ sessionState[Stored(c)] # "none" /\ op[Stored(c)].u = User(c)
    BY <1>7, CallFacts DEF IInv, StoredOwned, Stored, SessionPtrs
  <2>3. StartKind'
    BY <1>1, <2>1 DEF IInv, TypeOK, StartKind
  <2>4. HeldOwned'
    BY <1>1, <2>1, <2>2 DEF IInv, TypeOK, HeldOwned, HoldStages, User
  <2>5. (Ending /\ Ended)'
    BY <1>1, <2>1 DEF IInv, TypeOK, Ending, Ended
  <2>6. QED
    BY <1>2, <1>3, <1>4, <1>5, <2>3, <2>4, <2>5 DEF IInv
<1>8. QED
  BY <1>6, <1>7

LEMMA EndCheckIInv ==
    ASSUME IInv, NEW c \in Calls, EndCheck(c)
    PROVE  IInv'
<1>1. pc[c] = "endCheck" /\ UNCHANGED <<sessions, sessionState, endEvents, op, held>>
  BY DEF EndCheck
<1>2. TypeOK'
  BY TypeStep DEF Next, Step, IInv
<1>3. Exclusive'
  BY <1>1, MoveExclusive DEF EndCheck, Goto, InFlight, Stages
<1>4. pc' = [pc EXCEPT ![c] = IF sessionState[held[c]] = "ended" THEN "done" ELSE "endSet"]
  BY DEF EndCheck, Goto
<1>5. sessionState[held[c]] \in {"active", "ended"}
  BY <1>1 DEF IInv, HeldOwned, HoldStages, TypeOK
<1>6. (StoredOwned /\ EventsEnded /\ AtMostOneEnd)'
  BY <1>1 DEF IInv, StoredOwned, EventsEnded, AtMostOneEnd
<1>7. StartKind'
  BY <1>1, <1>4 DEF IInv, TypeOK, StartKind
<1>8. Allocated'
  BY <1>1, <1>4 DEF IInv, TypeOK, Allocated
<1>9. HeldOwned'
  BY <1>1, <1>4 DEF IInv, TypeOK, HeldOwned, HoldStages, User
<1>10. Ending'
  BY <1>1, <1>4, <1>5 DEF IInv, TypeOK, Ending
<1>11. Ended'
  BY <1>1, <1>4 DEF IInv, TypeOK, Ended
<1>12. QED
  BY <1>2, <1>3, <1>6, <1>7, <1>8, <1>9, <1>10, <1>11 DEF IInv

LEMMA EndSetIInv ==
    ASSUME IInv, NEW c \in Calls, EndSet(c)
    PROVE  IInv'
<1>1. /\ pc[c] = "endSet"
      /\ sessionState' = [sessionState EXCEPT ![held[c]] = "ended"]
      /\ pc' = [pc EXCEPT ![c] = "endSave"]
      /\ UNCHANGED <<sessions, endEvents, op, held>>
  BY DEF EndSet, Goto
<1>2. TypeOK'
  BY TypeStep DEF Next, Step, IInv
<1>3. Exclusive'
  BY <1>1, MoveExclusive DEF InFlight, Stages
<1>4. held[c] \in Calls /\ sessionState[held[c]] = "active" /\ endEvents[held[c]] = 0
  BY <1>1 DEF IInv, HeldOwned, HoldStages, Ending, EventsEnded
<1>5. \A d \in Calls \ {c}: pc[d] \in HoldStages => held[d] # held[c]
  BY <1>1, HeldApart DEF HoldStages
<1>6. \A s \in Calls: sessionState[s] # "none" => sessionState'[s] # "none"
  BY <1>1, <1>4 DEF IInv, TypeOK
<1>7. StartKind'
  BY <1>1 DEF IInv, TypeOK, StartKind
<1>8. Allocated'
  <2>1. pc[held[c]] = "done" /\ op[held[c]].kind = "start"
    BY <1>4 DEF IInv, Allocated
  <2>2. QED
    BY <1>1, <1>4, <2>1 DEF IInv, TypeOK, Allocated
<1>9. StoredOwned'
  BY <1>1, <1>6 DEF IInv, TypeOK, StoredOwned, SessionPtrs
<1>10. HeldOwned'
  BY <1>1, <1>6 DEF IInv, TypeOK, HeldOwned, HoldStages, User
<1>11. Ending'
  BY <1>1, <1>5 DEF IInv, TypeOK, Ending, HoldStages
<1>12. Ended'
  BY <1>1, <1>4, <1>5 DEF IInv, TypeOK, Ended, HoldStages
<1>13. EventsEnded'
  BY <1>1, <1>4 DEF IInv, TypeOK, EventsEnded
<1>14. AtMostOneEnd'
  BY <1>1 DEF IInv, AtMostOneEnd
<1>15. QED
  BY <1>2, <1>3, <1>7, <1>8, <1>9, <1>10, <1>11, <1>12, <1>13, <1>14 DEF IInv

LEMMA EndSaveIInv ==
    ASSUME IInv, NEW c \in Calls, EndSave(c)
    PROVE  IInv'
<1>1. /\ pc[c] = "endSave"
      /\ sessions' = [sessions EXCEPT ![RepoOf(c)][User(c)] = held[c]]
      /\ pc' = [pc EXCEPT ![c] = "endDispatch"]
      /\ UNCHANGED <<sessionState, endEvents, op, held>>
  BY DEF EndSave, Goto
<1>2. TypeOK'
  BY TypeStep DEF Next, Step, IInv
<1>3. Exclusive'
  BY <1>1, MoveExclusive DEF InFlight, Stages
<1>4. held[c] \in Calls /\ sessionState[held[c]] # "none" /\ op[held[c]].u = User(c)
  BY <1>1 DEF IInv, HeldOwned, HoldStages
<1>5. StoredOwned'
  BY <1>1, <1>4, CallFacts DEF IInv, TypeOK, StoredOwned
<1>6. (StartKind /\ Allocated)'
  BY <1>1 DEF IInv, TypeOK, StartKind, Allocated
<1>7. (HeldOwned /\ Ending)'
  BY <1>1 DEF IInv, TypeOK, HeldOwned, HoldStages, Ending, User
<1>8. Ended'
  BY <1>1 DEF IInv, TypeOK, Ended
<1>9. (EventsEnded /\ AtMostOneEnd)'
  BY <1>1 DEF IInv, EventsEnded, AtMostOneEnd
<1>10. QED
  BY <1>2, <1>3, <1>5, <1>6, <1>7, <1>8, <1>9 DEF IInv

LEMMA EndDispatchIInv ==
    ASSUME IInv, NEW c \in Calls, EndDispatch(c)
    PROVE  IInv'
<1>1. pc[c] = "endDispatch" /\ UNCHANGED <<sessions, sessionState, op, held>>
  BY DEF EndDispatch
<1>2. PICK o \in DispatchOutcomes, d \in BOOLEAN:
         /\ endEvents' = IF d THEN [endEvents EXCEPT ![held[c]] = @ + 1] ELSE endEvents
         /\ pc' = [pc EXCEPT ![c] = IF o = "ok" THEN "endDelete" ELSE "done"]
  BY DEF EndDispatch, Goto
<1>3. TypeOK'
  BY TypeStep DEF Next, Step, IInv
<1>4. Exclusive'
  BY <1>1, <1>2, MoveExclusive DEF InFlight, Stages
<1>5. held[c] \in Calls /\ sessionState[held[c]] = "ended" /\ endEvents[held[c]] = 0
  BY <1>1 DEF IInv, HeldOwned, HoldStages, Ended
<1>6. \A e \in Calls \ {c}: pc[e] \in HoldStages => held[e] # held[c]
  BY <1>1, HeldApart DEF HoldStages
<1>7. (EventsEnded /\ AtMostOneEnd)'
  BY <1>1, <1>2, <1>5 DEF IInv, TypeOK, EventsEnded, AtMostOneEnd
<1>8. Ended'
  BY <1>1, <1>2, <1>5, <1>6 DEF IInv, TypeOK, Ended, HoldStages
<1>9. (StartKind /\ Allocated /\ StoredOwned)'
  BY <1>1, <1>2 DEF IInv, TypeOK, StartKind, Allocated, StoredOwned
<1>10. HeldOwned'
  BY <1>1, <1>2 DEF IInv, TypeOK, HeldOwned, HoldStages, User
<1>11. Ending'
  BY <1>1, <1>2 DEF IInv, TypeOK, Ending
<1>12. QED
  BY <1>3, <1>4, <1>7, <1>8, <1>9, <1>10, <1>11 DEF IInv

LEMMA EndDeleteIInv ==
    ASSUME IInv, NEW c \in Calls, EndDelete(c)
    PROVE  IInv'
<1>1. /\ pc[c] = "endDelete"
      /\ sessions' = [sessions EXCEPT ![RepoOf(c)][User(c)] = NoSession]
      /\ pc' = [pc EXCEPT ![c] = "done"]
      /\ UNCHANGED <<sessionState, endEvents, op, held>>
  BY DEF EndDelete, Goto
<1>2. TypeOK'
  BY TypeStep DEF Next, Step, IInv
<1>3. Exclusive'
  BY <1>1, MoveExclusive DEF InFlight, Stages
<1>4. StoredOwned'
  BY <1>1, CallFacts DEF IInv, TypeOK, StoredOwned
<1>5. (StartKind /\ Allocated)'
  BY <1>1 DEF IInv, TypeOK, StartKind, Allocated
<1>6. (HeldOwned /\ Ending /\ Ended)'
  BY <1>1 DEF IInv, TypeOK, HeldOwned, HoldStages, Ending, Ended, User
<1>7. (EventsEnded /\ AtMostOneEnd)'
  BY <1>1 DEF IInv, EventsEnded, AtMostOneEnd
<1>8. QED
  BY <1>2, <1>3, <1>4, <1>5, <1>6, <1>7 DEF IInv

LEMMA IInvNext ==
    ASSUME Serialized
    PROVE  IInv /\ [Next]_vars => IInv'
<1> SUFFICES ASSUME IInv, [Next]_vars PROVE IInv'
  OBVIOUS
<1>1. ASSUME NEW c \in Calls, Begin(c) PROVE IInv'
  BY <1>1, BeginIInv
<1>2. ASSUME NEW c \in Calls, Step(c) PROVE IInv'
  BY <1>2, StartSaveIInv, EndGetIInv, EndCheckIInv, EndSetIInv, EndSaveIInv,
     EndDispatchIInv, EndDeleteIInv DEF Step
<1>3. CASE Terminated \/ UNCHANGED vars
  BY <1>3 DEF Terminated, vars, IInv, TypeOK, Exclusive, InFlight, User, StartKind,
              Allocated, StoredOwned, HeldOwned, Ending, Ended, EventsEnded, AtMostOneEnd
<1>4. QED
  BY <1>1, <1>2, <1>3 DEF Next

\* When calls on one user are serialized (the per-key serialization spec 5
\* requires of a repository), Segment receives at most one end event per
\* session, even though the in-memory repository hands every EndSession
\* the same Session object and Dispatch may time out after delivering.
THEOREM EndOnce == Serialized => (Spec => []AtMostOneEnd)
<1> SUFFICES ASSUME Serialized PROVE Spec => []AtMostOneEnd
  OBVIOUS
<1>1. IInv => AtMostOneEnd
  BY DEF IInv
<1>2. QED
  BY <1>1, IInvInit, IInvNext, PTL DEF Spec

=============================================================================
