------------------------- MODULE GenerationContract -------------------------
(***************************************************************************)
(* What a generation promises to the rest of the system, without workers,  *)
(* jobs, tokens, attempts or monitors: the phase and the answer a snapshot *)
(* read from the database shows, and the terminal notices it will send.    *)
(* GenerationLifecycle implements it.                                      *)
(***************************************************************************)
EXTENDS Naturals, Sequences

VARIABLES
    phase,    \* the generation's status
    shown,    \* the response message's status
    answer,   \* how much of the answer the message holds
    notices   \* terminal events committed with the terminal state

contractVars == <<phase, shown, answer, notices>>

InFlight == {"STARTING", "STREAMING"}
Outcomes == {"COMPLETED", "FAILED", "CANCELLED"}

Init ==
    /\ phase = "QUEUED"
    /\ shown = "PENDING"
    /\ answer = 0
    /\ notices = <<>>

Start ==
    /\ phase = "QUEUED"
    /\ phase' = "STARTING"
    /\ UNCHANGED <<shown, answer, notices>>

\* The first delta is shown even when a cancellation is already pending.
FirstDelta ==
    /\ phase \in {"STARTING", "CANCEL_REQUESTED"}
    /\ phase' = IF phase = "STARTING" THEN "STREAMING" ELSE phase
    /\ shown = "PENDING"
    /\ shown' = "STREAMING"
    /\ UNCHANGED <<answer, notices>>

\* While in flight the saved answer only grows.
Save ==
    /\ phase \in InFlight
    /\ answer' \in Nat /\ answer' >= answer
    /\ UNCHANGED <<phase, shown, notices>>

AskCancel ==
    /\ phase \in {"QUEUED"} \cup InFlight
    /\ phase' = "CANCEL_REQUESTED"
    /\ UNCHANGED <<shown, answer, notices>>

\* One outcome, once: phase, message and notice change together.
Finish(outcome) ==
    /\ phase' = outcome
    /\ shown' = outcome
    /\ answer' \in Nat
    /\ \E told \in 0 .. answer' :
          notices' = <<[type |-> outcome, content |-> told]>>

\* A completed generation keeps what was saved and announces all of it.
Complete ==
    /\ phase \in InFlight
    /\ Finish("COMPLETED")
    /\ answer' >= answer
    /\ notices'[1].content = answer'

\* A failed one keeps it too; its notice may lag behind the message.
Fail ==
    /\ phase \in InFlight
    /\ Finish("FAILED")
    /\ answer' >= answer

\* Only a cancellation may throw away what was saved.
BeCancelled ==
    /\ phase \notin Outcomes
    /\ Finish("CANCELLED")
    /\ notices'[1].content = answer'

Next ==
    \/ Start \/ FirstDelta \/ Save \/ AskCancel
    \/ Complete \/ Fail \/ BeCancelled

Spec == Init /\ [][Next]_contractVars
=============================================================================
