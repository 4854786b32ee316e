--------------------------- MODULE AnalyticsSession ---------------------------
(***************************************************************************)
(* The analytics session service (app/analytics Service: StartSession,    *)
(* EndSession) over the in-memory session repository and the Segment      *)
(* dispatcher, as the legacy tracker adapter (se/adapter.go) wires them.   *)
(*                                                                         *)
(* Each element of Calls is one StartSession or EndSession call.  Calls on *)
(* different users always interleave; calls on one user overlap only when  *)
(* Serialized is FALSE (spec 5 puts that serialization on the caller's     *)
(* repository).  MemorySessionRepository stores and returns *pointers*:    *)
(* the Session a call gets is the object the map holds, so Session.End     *)
(* mutates the stored object before any Save.  Sessions are therefore      *)
(* modelled as a heap of objects, one per StartSession call (the call's    *)
(* own id names the object it allocates), and the repository maps a user   *)
(* to an object. Session.End's check and its assignment are separate       *)
(* steps: two calls that hold one object run them unsynchronized (a data   *)
(* race), so either may see the other's write or not.                      *)
(***************************************************************************)
EXTENDS Naturals, FiniteSets

CONSTANTS
    Users,          \* player ids (model values)
    Calls,          \* service calls (model values)
    NoSession,      \* the absent map entry / nil pointer
    DispatchFaults, \* Segment may reject a batch or time out
    PerCallRepo,    \* every call builds its own adapter and repository
    Serialized      \* calls on one user never overlap

ASSUME IdsAssumption == Users # {} /\ NoSession \notin Calls
ASSUME FlagsAssumption ==
    /\ DispatchFaults \in BOOLEAN
    /\ PerCallRepo \in BOOLEAN
    /\ Serialized \in BOOLEAN

VARIABLES
    sessions,     \* [RepoIds -> [Users -> Calls \cup {NoSession}]]: the repository map
    sessionState, \* [Calls -> {"none","active","ended"}]: Session.State of each object
    endEvents,    \* [Calls -> Nat]: end events Segment received for each session
    pc,           \* [Calls -> Stages]
    op,           \* [Calls -> Ops]
    held          \* [Calls -> Calls \cup {NoSession}]: the pointer EndSession got

vars == <<sessions, sessionState, endEvents, pc, op, held>>

Ops == [kind : {"start", "end"}, u : Users, valid : BOOLEAN]
Stages == {"idle", "startSave", "endGet", "endCheck", "endSet", "endSave",
           "endDispatch", "endDelete", "done"}
SessionPtrs == Calls \cup {NoSession}

\* TrackerAdapter: one repository per adapter; StartWithAdapter and
\* EndWithAdapter build a fresh adapter, hence a fresh repository, per call.
RepoIds == IF PerCallRepo THEN Calls ELSE {"shared"}
RepoOf(c) == IF PerCallRepo THEN c ELSE "shared"

\* SegmentDispatcher.Dispatch: a status >= 400 is ErrDispatchFailed and the
\* batch was refused; a transport error (the 5s client timeout) may come
\* after Segment received the batch.
DispatchOutcomes == IF DispatchFaults THEN {"ok", "rejected", "timeout"} ELSE {"ok"}
Delivers(o) == CASE o = "ok" -> {TRUE}
                 [] o = "rejected" -> {FALSE}
                 [] o = "timeout" -> {TRUE, FALSE}

InFlight(c) == pc[c] \notin {"idle", "done"}
MayStart(c, u) == Serialized => \A d \in Calls \ {c}: InFlight(d) => op[d].u # u
Goto(c, stage) == pc' = [pc EXCEPT ![c] = stage]
User(c) == op[c].u
Stored(c) == sessions[RepoOf(c)][User(c)]

Init ==
    /\ sessions = [r \in RepoIds |-> [u \in Users |-> NoSession]]
    /\ sessionState = [s \in Calls |-> "none"]
    /\ endEvents = [s \in Calls |-> 0]
    /\ pc = [c \in Calls |-> "idle"]
    /\ op = [c \in Calls |-> CHOOSE o \in Ops : TRUE]
    /\ held = [c \in Calls |-> NoSession]

-----------------------------------------------------------------------------
Arrive(c, o) ==
    /\ pc[c] = "idle"
    /\ MayStart(c, o.u)
    /\ op' = [op EXCEPT ![c] = o]
    /\ UNCHANGED <<sessions, sessionState, endEvents, held>>

\* StartSession: UserID.Validate and the version check (valid = FALSE
\* stands for either failing; NewSession repeats them).
BeginStart(c) ==
    \E o \in Ops:
       /\ o.kind = "start"
       /\ Arrive(c, o)
       /\ Goto(c, IF o.valid THEN "startSave" ELSE "done")

\* StartSession: NewSession allocates an active session and Sessions.Save
\* puts it in the map, replacing whatever the user had.  The identify and
\* start events dispatched next change no session state; only the error
\* returned depends on them.
StartSave(c) ==
    /\ pc[c] = "startSave"
    /\ sessions' = [sessions EXCEPT ![RepoOf(c)][User(c)] = c]
    /\ sessionState' = [sessionState EXCEPT ![c] = "active"]
    /\ Goto(c, "done")
    /\ UNCHANGED <<endEvents, op, held>>

\* EndSession: UserID.Validate.
BeginEnd(c) ==
    \E o \in Ops:
       /\ o.kind = "end"
       /\ Arrive(c, o)
       /\ Goto(c, IF o.valid THEN "endGet" ELSE "done")

\* EndSession: Sessions.Get returns the stored pointer or ErrSessionNotFound.
EndGet(c) ==
    LET s == Stored(c) IN
    /\ pc[c] = "endGet"
    /\ IF s = NoSession
          THEN Goto(c, "done") /\ UNCHANGED held
          ELSE /\ held' = [held EXCEPT ![c] = s]
               /\ Goto(c, "endCheck")
    /\ UNCHANGED <<sessions, sessionState, endEvents, op>>

\* Fault-injection variant: Session.End without its already-ended check.
EndCheckSkipped(c) ==
    /\ pc[c] = "endCheck"
    /\ Goto(c, "endSet")
    /\ UNCHANGED <<sessions, sessionState, endEvents, op, held>>

\* Session.End: `if s.State == SessionStateEnded` returns "session already
\* ended".  (The end-before-start check cannot fire: the clock only advances.)
EndCheck(c) ==
    /\ pc[c] = "endCheck"
    /\ Goto(c, IF sessionState[held[c]] = "ended" THEN "done" ELSE "endSet")
    /\ UNCHANGED <<sessions, sessionState, endEvents, op, held>>

\* Session.End: State = SessionStateEnded, written through the pointer.
EndSet(c) ==
    /\ pc[c] = "endSet"
    /\ sessionState' = [sessionState EXCEPT ![held[c]] = "ended"]
    /\ Goto(c, "endSave")
    /\ UNCHANGED <<sessions, endEvents, op, held>>

\* EndSession: Sessions.Save puts the pointer it got back in the map.
EndSave(c) ==
    /\ pc[c] = "endSave"
    /\ sessions' = [sessions EXCEPT ![RepoOf(c)][User(c)] = held[c]]
    /\ Goto(c, "endDispatch")
    /\ UNCHANGED <<sessionState, endEvents, op, held>>

\* EndSession: Dispatcher.Dispatch of the end event; any error returns
\* ErrDispatchFailed at once, before the cleanup.
EndDispatch(c) ==
    /\ pc[c] = "endDispatch"
    /\ \E o \in DispatchOutcomes, d \in BOOLEAN:
          /\ d \in Delivers(o)
          /\ endEvents' = IF d THEN [endEvents EXCEPT ![held[c]] = @ + 1] ELSE endEvents
          /\ Goto(c, IF o = "ok" THEN "endDelete" ELSE "done")
    /\ UNCHANGED <<sessions, sessionState, op, held>>

\* EndSession: `_ = s.Sessions.Delete(ctx, cmd.UserID)` removes the entry.
EndDelete(c) ==
    /\ pc[c] = "endDelete"
    /\ sessions' = [sessions EXCEPT ![RepoOf(c)][User(c)] = NoSession]
    /\ Goto(c, "done")
    /\ UNCHANGED <<sessionState, endEvents, op, held>>

Terminated ==
    /\ \A c \in Calls: pc[c] = "done"
    /\ UNCHANGED vars

Begin(c) == BeginStart(c) \/ BeginEnd(c)
Step(c) ==
    \/ StartSave(c) \/ EndGet(c) \/ EndCheck(c) \/ EndSet(c)
    \/ EndSave(c) \/ EndDispatch(c) \/ EndDelete(c)

Next == (\E c \in Calls: Begin(c) \/ Step(c)) \/ Terminated

Spec == Init /\ [][Next]_vars

-----------------------------------------------------------------------------
TypeOK ==
    /\ sessions \in [RepoIds -> [Users -> SessionPtrs]]
    /\ sessionState \in [Calls -> {"none", "active", "ended"}]
    /\ endEvents \in [Calls -> Nat]
    /\ pc \in [Calls -> Stages]
    /\ op \in [Calls -> Ops]
    /\ held \in [Calls -> SessionPtrs]

\* Segment receives at most one end event per session: Session.End rejects
\* a second end of the same session, so an EndSession repeated after the
\* first one returned (a retry after a Segment timeout that delivered the
\* batch included) does not report the session as ended twice.  Two
\* overlapping EndSession calls on one user can; the serialized run rules
\* them out.
AtMostOneEnd ==
    \A s \in Calls: endEvents[s] <= 1


=============================================================================
