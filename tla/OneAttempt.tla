----------------------------- MODULE OneAttempt -----------------------------
(***************************************************************************)
(* What the caller of Workflow.run can rely on, whatever the model, the    *)
(* tools and the timeouts do: the process is attempted at most once, an    *)
(* attempt that was refused has had no effect, no tool call takes effect   *)
(* twice and none after the run has ended, and the ending says what is     *)
(* known of the effects.                                                   *)
(***************************************************************************)
EXTENDS Naturals, Sequences

CONSTANTS MaxSteps, CallIds, NoOutcome, Rejections, Failures

VARIABLES
    reliable,  \* the worker's acknowledgement reaches the executor
    started,   \* the attempt has been made
    effects,   \* ids of the calls whose tool has been started, in order
    late,      \* the deadline has expired during the attempt
    asked,     \* the caller has cancelled the run
    outcome    \* how the run ended

vars == <<reliable, started, effects, late, asked, outcome>>

Running == outcome = NoOutcome

Init ==
    /\ reliable \in BOOLEAN
    /\ ~started /\ ~late /\ ~asked
    /\ effects = <<>>
    /\ Running

Start ==
    /\ Running /\ ~started
    /\ started' = TRUE
    /\ UNCHANGED <<reliable, effects, late, asked, outcome>>

(* The last step of the budget is for the answer.                          *)
TakeEffect ==
    /\ Running /\ started
    /\ Len(effects) + 1 < MaxSteps
    /\ \E id \in CallIds :
          /\ \A i \in DOMAIN effects : effects[i] # id
          /\ effects' = Append(effects, id)
    /\ UNCHANGED <<reliable, started, late, asked, outcome>>

Expire ==
    /\ Running /\ started
    /\ late' = TRUE
    /\ UNCHANGED <<reliable, started, effects, asked, outcome>>

Ask ==
    /\ Running /\ started
    /\ asked' = TRUE
    /\ UNCHANGED <<reliable, started, effects, late, outcome>>

(* The run ends, in a way that names the calls whose result was seen: all  *)
(* that took effect but, after a failure, perhaps the last one.            *)
End(kinds, missing) ==
    /\ Running
    /\ \E kind \in kinds, n \in 0..Len(effects) :
          /\ Len(effects) <= n + missing
          /\ outcome' = [kind |-> kind, tool_calls |-> n]
    /\ UNCHANGED <<reliable, started, effects, late, asked>>

Reject == ~started /\ End(Rejections, 0)

Answer == started /\ reliable /\ ~late /\ End({"response", "invariant"}, 0)

Fail == started /\ End(Failures, 1)

BeUnsure == started /\ (late \/ ~reliable) /\ End({"ambiguous"}, 1)

Stop == started /\ asked /\ End({"cancelled"}, 1)

Next ==
    \/ Start \/ TakeEffect \/ Expire \/ Ask
    \/ Reject \/ Answer \/ Fail \/ BeUnsure \/ Stop

Spec == Init /\ [][Next]_vars
=============================================================================
