-------------------------- MODULE SingleGeneration --------------------------
(***************************************************************************)
(* What the caller of FallbackExecutor.complete is promised about one      *)
(* request, however many routes are tried: at most one provider ever takes *)
(* the request up, it is a suitable one, a response comes from it, and     *)
(* once the call has ended nobody takes the request up any more.           *)
(***************************************************************************)
CONSTANTS Routes, NoOutcome

VARIABLES
    suitable,   \* the routes this request may be sent to
    generated,  \* the routes whose provider has taken the request up
    outcome     \* how the call ended

vars == <<suitable, generated, outcome>>

Init ==
    /\ suitable \in SUBSET Routes
    /\ generated = {}
    /\ outcome = NoOutcome

Running == outcome = NoOutcome

Generate ==
    /\ Running
    /\ generated = {}
    /\ \E r \in suitable : generated' = {r}
    /\ UNCHANGED <<suitable, outcome>>

Answer ==
    /\ Running
    /\ \E r \in generated : outcome' = [kind |-> "response", route |-> r]
    /\ UNCHANGED <<suitable, generated>>

(* "No eligible route" is said only when nothing has been generated.       *)
Exhaust ==
    /\ Running
    /\ generated = {}
    /\ outcome'.kind = "no_route"
    /\ UNCHANGED <<suitable, generated>>

Fail ==
    /\ Running
    /\ outcome'.kind \in {"timeout", "cancelled", "failed", "protocol", "refused"}
    /\ UNCHANGED <<suitable, generated>>

Next == Generate \/ Answer \/ Exhaust \/ Fail

Spec == Init /\ [][Next]_vars
=============================================================================
