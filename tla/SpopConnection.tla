--------------------------- MODULE SpopConnection ---------------------------
(***************************************************************************)
(* What a connection of the agent promises HAProxy, without the tasks, the *)
(* semaphore and the frames that implement it: it greets at most once, it  *)
(* answers each NOTIFY it accepts at most once and in any order, and it    *)
(* leaves one unanswered only when the stream is lost or the connection is *)
(* being ended; once over, it owes nothing.                                *)
(***************************************************************************)
CONSTANT Ids      \* the NOTIFYs HAProxy may send

VARIABLES
    phase,        \* "greeting", "serving", "ending", "over"
    lost,         \* nothing can be written any more
    pending,      \* accepted and not answered
    answered      \* answered with an ACK

vars == <<phase, lost, pending, answered>>

Init ==
    /\ phase = "greeting"
    /\ lost = FALSE
    /\ pending = {} /\ answered = {}

Greet ==
    /\ phase = "greeting"
    /\ phase' = "serving"
    /\ UNCHANGED <<lost, pending, answered>>

Accept(id) ==
    /\ phase = "serving"
    /\ id \notin pending \union answered
    /\ pending' = pending \union {id}
    /\ UNCHANGED <<phase, lost, answered>>

Answer(id) ==
    /\ phase \in {"serving", "ending"} /\ ~lost
    /\ id \in pending
    /\ pending' = pending \ {id}
    /\ answered' = answered \union {id}
    /\ UNCHANGED <<phase, lost>>

\* A NOTIFY is given up.
Abandon(id) ==
    /\ id \in pending
    /\ phase = "ending" \/ lost
    /\ pending' = pending \ {id}
    /\ UNCHANGED <<phase, lost, answered>>

\* A protocol event or an error ends the service; the NOTIFY whose failure
\* is that error goes unanswered.
Fail ==
    /\ phase \in {"greeting", "serving"}
    /\ phase' = "ending"
    /\ \/ UNCHANGED pending
       \/ \E id \in pending : pending' = pending \ {id}
    /\ UNCHANGED answered
    /\ lost' \in {lost, TRUE}

LoseStream ==
    /\ lost' = TRUE
    /\ UNCHANGED <<phase, pending, answered>>

Finish ==
    /\ phase = "ending" /\ pending = {}
    /\ phase' = "over"
    /\ UNCHANGED <<lost, pending, answered>>

Next ==
    \/ Greet \/ Fail \/ LoseStream \/ Finish
    \/ \E id \in Ids : Accept(id) \/ Answer(id) \/ Abandon(id)

Spec == Init /\ [][Next]_vars
=============================================================================
