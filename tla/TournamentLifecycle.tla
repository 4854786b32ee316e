-------------------------- MODULE TournamentLifecycle --------------------------
(***************************************************************************)
(* The Tournament aggregate's lifecycle (domain/tournament): NewTournament *)
(* builds an active tournament after validating its fields, End ends it at *)
(* a given time and Reset resets it.  Each operation takes an explicit     *)
(* time; the model lets any caller invoke them in any order and with any   *)
(* time, as the aggregate's public methods allow.  A rejected call returns *)
(* an error and leaves the receiver unchanged, a stuttering step.          *)
(*                                                                         *)
(* Times are 0..MaxTime, 0 standing for the zero time.Time; the fields     *)
(* other than the start time are abstracted to whether they validate.      *)
(***************************************************************************)
EXTENDS Integers

CONSTANT MaxTime  \* the last time a call may name (a positive natural)

VARIABLES
    state,      \* "none" (not yet built), "active", "ended" or "reset"
    startTime,  \* StartTime
    endTime     \* EndTime: NoEnd for a nil pointer

vars == <<state, startTime, endTime>>

Times == 0..MaxTime
NoEnd == -1

Init ==
    /\ state = "none"
    /\ startTime = 0
    /\ endTime = NoEnd

-----------------------------------------------------------------------------
\* NewTournament: id, title, category, max size, max num score and duration
\* are checked (fieldsOk), then a non-zero start time; the result is active.
NewTournament ==
    /\ state = "none"
    /\ \E start \in Times, fieldsOk \in BOOLEAN:
          IF fieldsOk /\ start # 0
             THEN /\ state' = "active"
                  /\ startTime' = start
                  /\ endTime' = NoEnd
             ELSE UNCHANGED vars

\* Tournament.End: ErrTournamentAlreadyEnded when ended, an error when the
\* end time is before the start time; otherwise ended at that time.
End ==
    /\ state # "none"
    /\ \E t \in Times:
          IF state = "ended" \/ t < startTime
             THEN UNCHANGED vars
             ELSE /\ state' = "ended"
                  /\ endTime' = t
                  /\ UNCHANGED startTime

\* Tournament.Reset: only an active or ended tournament can be reset.
Reset ==
    /\ state # "none"
    /\ IF state \in {"active", "ended"}
          THEN /\ state' = "reset"
               /\ UNCHANGED <<startTime, endTime>>
          ELSE UNCHANGED vars

Next == NewTournament \/ End \/ Reset

Spec == Init /\ [][Next]_vars

-----------------------------------------------------------------------------
TypeOK ==
    /\ state \in {"none", "active", "ended", "reset"}
    /\ startTime \in Times
    /\ endTime \in Times \cup {NoEnd}

\* Spec 2: a tournament's state only moves active -> ended, active -> reset
\* or ended -> reset; any other edge is rejected by End and Reset.
LegalTransitions ==
    [][state # "none" =>
         <<state, state'>> \in {<<"active", "ended">>, <<"active", "reset">>,
                                <<"ended", "reset">>}]_state

=============================================================================
