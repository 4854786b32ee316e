------------------------------ MODULE BattleMatch ------------------------------
(***************************************************************************)
(* The "sandai_battle" authoritative match of the Sand-ai runtime module   *)
(* (infra/runtime/sandai_module.go), driven the way Nakama drives a match  *)
(* handler: MatchInit once, then on its single match goroutine the         *)
(* MatchJoinAttempt, MatchJoin and MatchLeave callbacks and one MatchLoop  *)
(* per tick, with the tick Nakama passes growing by one per loop.  A loop  *)
(* that returns nil ends the match.                                        *)
(*                                                                         *)
(* Each element of Presences is one client session.  It may ask to join,   *)
(* be admitted, and leave (disconnect) once; a reconnect is a new session. *)
(* Broadcast messages change no match state and are left out.  The tick is *)
(* kept up to TickCap = EmptyAfter + 1: MatchLoop only compares it with    *)
(* EmptyAfter, so every larger tick behaves as TickCap does.              *)
(***************************************************************************)
EXTENDS Naturals

CONSTANTS
    Presences,   \* client sessions (model values)
    EmptyAfter   \* MatchLoop's `tick > 30`: ticks an empty match survives

ASSUME EmptyAfterAssumption == EmptyAfter \in Nat

VARIABLES
    players,  \* matchState.Players: the session ids joined
    tick,     \* the tick of the last MatchLoop (matchState.Tick)
    match,    \* "none" (before MatchInit), "running" or "ended"
    session   \* [Presences -> {"out", "attempting", "in", "left"}]

vars == <<players, tick, match, session>>

TickCap == EmptyAfter + 1
NextTick == IF tick < TickCap THEN tick + 1 ELSE TickCap

Init ==
    /\ players = {}
    /\ tick = 0
    /\ match = "none"
    /\ session = [p \in Presences |-> "out"]

-----------------------------------------------------------------------------
\* MatchInit: an empty matchState at tick 0 (tick rate 10, label "sandai").
MatchInit ==
    /\ match = "none"
    /\ match' = "running"
    /\ players' = {}
    /\ tick' = 0
    /\ UNCHANGED session

\* A client asks to join; Nakama calls MatchJoinAttempt, which accepts.
MatchJoinAttempt(p) ==
    /\ match = "running"
    /\ session[p] = "out"
    /\ session' = [session EXCEPT ![p] = "attempting"]
    /\ UNCHANGED <<players, tick, match>>

\* MatchJoin: state.Players[p.GetSessionId()] = p.
MatchJoin(p) ==
    /\ match = "running"
    /\ session[p] = "attempting"
    /\ players' = players \cup {p}
    /\ session' = [session EXCEPT ![p] = "in"]
    /\ UNCHANGED <<tick, match>>

\* MatchLeave: delete(state.Players, p.GetSessionId()).
MatchLeave(p) ==
    /\ match = "running"
    /\ session[p] = "in"
    /\ players' = players \ {p}
    /\ session' = [session EXCEPT ![p] = "left"]
    /\ UNCHANGED <<tick, match>>

\* Fault-injection variant: the emptiness test made on tick EmptyAfter alone.
MatchLoopAtTick ==
    /\ match = "running"
    /\ tick' = NextTick
    /\ match' = IF players = {} /\ NextTick = EmptyAfter THEN "ended" ELSE "running"
    /\ UNCHANGED <<players, session>>

\* MatchLoop: state.Tick = tick; broadcast the messages; return nil (end
\* the match) when no player is in it and tick > 30.
MatchLoop ==
    /\ match = "running"
    /\ tick' = NextTick
    /\ match' = IF players = {} /\ NextTick > EmptyAfter THEN "ended" ELSE "running"
    /\ UNCHANGED <<players, session>>

\* The match has ended and every session is settled: nothing more happens.
Finished ==
    /\ match = "ended"
    /\ UNCHANGED vars

Next ==
    \/ MatchInit
    \/ \E p \in Presences: MatchJoinAttempt(p) \/ MatchJoin(p) \/ MatchLeave(p)
    \/ MatchLoop
    \/ Finished

\* Nakama calls MatchLoop on every tick of a running match.
Spec == Init /\ [][Next]_vars /\ WF_vars(MatchInit) /\ WF_vars(MatchLoop)

-----------------------------------------------------------------------------
TypeOK ==
    /\ players \subseteq Presences
    /\ tick \in 0..TickCap
    /\ match \in {"none", "running", "ended"}
    /\ session \in [Presences -> {"out", "attempting", "in", "left"}]

\* A match every player has left (or that nobody joined) is ended by
\* MatchLoop, so no empty match keeps running forever; only a new player
\* can keep it alive.
EmptyMatchEnds ==
    (match = "running" /\ players = {}) ~> (match = "ended" \/ players # {})

=============================================================================
