-------------------------- MODULE BotIntakeContract --------------------------
(***************************************************************************)
(* What idempotent command intake promises (spec 4.3), with no stores,     *)
(* queues or reservations: each idempotency key's command is handed to the *)
(* worker at most once; a caller hears "accepted" only for a key that was  *)
(* handed over; a key's outcome is decided once, as completed only by the  *)
(* worker of a handed command, and never changes again.  BotIntake         *)
(* implements it (BotIntake!Contract) when Enqueue never delivers late.    *)
(***************************************************************************)
CONSTANTS Keys, Reqs

VARIABLES
    handed,    \* keys whose command was handed to the worker
    finished,  \* [Keys -> {"open", "completed", "failed"}]: each key's outcome
    answer,    \* [Reqs -> {"none", "accepted", "duplicate", "error"}]
    key        \* [Reqs -> Keys]: the key each call is about

avars == <<handed, finished, answer, key>>

Init ==
    /\ handed = {}
    /\ finished = [k \in Keys |-> "open"]
    /\ answer = [r \in Reqs |-> "none"]
    /\ key \in [Reqs -> Keys]

Reply(r, a) ==
    /\ answer[r] = "none"
    /\ answer' = [answer EXCEPT ![r] = a]

Decide(k, outcome) ==
    /\ finished[k] = "open"
    /\ finished' = [finished EXCEPT ![k] = outcome]

\* A call not yet answered is about some key.
Call(r) ==
    /\ answer[r] = "none"
    /\ \E k \in Keys: key' = [key EXCEPT ![r] = k]
    /\ UNCHANGED <<handed, finished, answer>>

\* A key's command is handed to the worker, once; the call that handed it
\* over may be told "accepted" in the same step.
Hand(k) ==
    /\ k \notin handed
    /\ handed' = handed \cup {k}
    /\ \/ UNCHANGED answer
       \/ \E r \in Reqs: key[r] = k /\ Reply(r, "accepted")
    /\ UNCHANGED <<finished, key>>

\* A call is answered: "accepted" only for a handed key.  An error answer
\* may come with the key's outcome set to failed.
Answer(r) ==
    /\ \E a \in {"duplicate", "error"} \cup (IF key[r] \in handed THEN {"accepted"} ELSE {}):
          /\ Reply(r, a)
          /\ \/ UNCHANGED finished
             \/ a = "error" /\ Decide(key[r], "failed")
    /\ UNCHANGED <<handed, key>>

\* The worker decides the outcome of a handed command.
Process(k) ==
    /\ k \in handed
    /\ \E o \in {"completed", "failed"}: Decide(k, o)
    /\ UNCHANGED <<handed, answer, key>>

Next ==
    \/ \E r \in Reqs: Call(r) \/ Answer(r)
    \/ \E k \in Keys: Hand(k) \/ Process(k)

Spec == Init /\ [][Next]_avars

=============================================================================
