---------------------------- MODULE AgentRuntime ----------------------------
(***************************************************************************)
(* One Workflow.run of the model-vs-agent lesson: the fixed process, the   *)
(* executor's single attempt under a deadline, the agent loop with its     *)
(* step budget, and the model client with its own timeout.  All four run   *)
(* in the caller's asyncio task, which is suspended only while a transport *)
(* or a tool is awaited.  Both timeouts work by cancelling that same task, *)
(* as the caller does; Task.cancelling() is what tells them apart.  A      *)
(* transport or a tool may let CancelledError through, or swallow it and   *)
(* go on.                                                                  *)
(***************************************************************************)
EXTENDS Integers, Sequences

CONSTANTS
    MaxSteps,  \* AgentLoop.max_steps
    CallIds,   \* the ids a model may give its tool calls
    MaxStops   \* bound: how often the caller cancels

ASSUME AgentAssumption ==
    /\ MaxSteps \in Nat \ {0}
    /\ MaxStops \in Nat

VARIABLES
    setup,      \* the request and how the four components were configured
    pc,         \* start, model, tool or done
    step,       \* step of AgentLoop.run: calls of the model so far
    call,       \* the tool call being executed
    context,    \* ids of the calls whose results are in the context
    seen,       \* seen_call_ids
    invoked,    \* ghost: ids of the calls that reached their tool, in order
    outer,      \* state of the executor's timeout
    inner,      \* state of the model client's timeout
    base,       \* task.cancelling() when the inner timeout was entered
    cancelling, \* task.cancelling()
    thrown,     \* CancelledError is on its way into the awaited operation
    stops,      \* ghost: cancellations by the caller
    swallowed,  \* ghost: an operation has swallowed a CancelledError
    outcome     \* how the run ended

vars == <<setup, pc, step, call, context, seen, invoked, outer, inner, base,
          cancelling, thrown, stops, swallowed, outcome>>

loop == <<step, call, context, seen, invoked>>
ghosts == <<stops, swallowed>>

Setups == [input : {"valid", "empty"}, worker : BOOLEAN,
           deadline : {"none", "passed", "ahead"}, model_timeout : BOOLEAN,
           lose_ack : BOOLEAN]

Calls == [id : CallIds, tool : {"known", "unknown"},
          arguments : {"valid", "invalid", "validator_bug"}]
NoCall == [id |-> "none", tool |-> "none", arguments |-> "none"]

NoOutcome == [kind |-> "none", tool_calls |-> 0]
Rejections == {"invalid_request", "unavailable", "deadline_exceeded"}
Failures == {"model_error", "step_limit", "unknown_tool", "duplicate_call",
             "invalid_arguments", "validator_bug", "tool_error"}
Kinds == Rejections \cup Failures
         \cup {"response", "invariant", "ambiguous", "cancelled"}

Init ==
    /\ setup \in Setups
    /\ pc = "start"
    /\ step = 0
    /\ call = NoCall
    /\ context = <<>>
    /\ seen = {}
    /\ invoked = <<>>
    /\ outer = "none" /\ inner = "none"
    /\ base = 0
    /\ cancelling = 0
    /\ thrown = FALSE
    /\ stops = 0
    /\ swallowed = FALSE
    /\ outcome = NoOutcome

Finish(kind) ==
    /\ pc' = "done"
    /\ outcome' = [kind |-> kind, tool_calls |-> Len(context)]

(* asyncio.timeout leaves its block: an expired one takes back its own     *)
(* cancellation.  Left is task.cancelling() afterwards.                    *)
Exit(timeout) == CASE timeout = "expiring" -> "expired"
                   [] timeout = "entered" -> "exited"
                   [] OTHER -> timeout

Left(timeout, count) == IF timeout = "expiring" THEN count - 1 ELSE count

----------------------------------------------------------------------------
(* Workflow.run and DistributedExecutor.execute, up to the first await.    *)
Reject ==
    /\ pc = "start"
    /\ \/ setup.input = "empty" /\ Finish("invalid_request")
       \/ setup.input = "valid" /\ ~setup.worker /\ Finish("unavailable")
       \/ /\ setup.input = "valid" /\ setup.worker /\ setup.deadline = "passed"
          /\ Finish("deadline_exceeded")
    /\ UNCHANGED <<setup, loop, outer, inner, base, cancelling, thrown, ghosts>>

(* One more call of the model: ModelClient._send enters its timeout.       *)
AskModel(count) ==
    /\ pc' = "model"
    /\ step' = step + 1
    /\ inner' = IF setup.model_timeout THEN "entered" ELSE "none"
    /\ base' = count

StartUnbounded ==  \* mutant: the deadline is checked, but no timeout is armed
    /\ pc = "start"
    /\ setup.input = "valid" /\ setup.worker /\ setup.deadline # "passed"
    /\ AskModel(cancelling)
    /\ UNCHANGED <<setup, call, context, seen, invoked, outer, cancelling, thrown,
                   ghosts, outcome>>

Start ==
    /\ pc = "start"
    /\ setup.input = "valid" /\ setup.worker /\ setup.deadline # "passed"
    /\ outer' = IF setup.deadline = "ahead" THEN "entered" ELSE "none"
    /\ AskModel(cancelling)
    /\ UNCHANGED <<setup, call, context, seen, invoked, cancelling, thrown, ghosts,
                   outcome>>

----------------------------------------------------------------------------
(* What the executor and the workflow make of the loop's ending.  Count is *)
(* task.cancelling() when the executor's timeout is left.                  *)
LeaveExecutor(count) ==
    /\ outer' = Exit(outer)
    /\ cancelling' = Left(outer, count)

FailRun(kind, count) ==
    /\ LeaveExecutor(count)
    /\ Finish(kind)

AnswerLate(text) ==  \* mutant: does not ask whether the timeout expired
    Finish(IF setup.lose_ack THEN "ambiguous"
           ELSE IF text = "empty" THEN "invariant" ELSE "response")

AnswerRun(text) ==
    Finish(IF outer = "expiring" \/ setup.lose_ack THEN "ambiguous"
           ELSE IF text = "empty" THEN "invariant" ELSE "response")

CancelRunAsDeadline(count) ==  \* mutant: an expired timeout hides the caller
    /\ LeaveExecutor(count)
    /\ Finish(IF outer = "expiring" THEN "ambiguous" ELSE "cancelled")

CancelRun(count) ==
    /\ LeaveExecutor(count)
    /\ Finish(IF outer = "expiring" /\ count - 1 <= 0
              THEN "ambiguous" ELSE "cancelled")

----------------------------------------------------------------------------
(* The model answers.  Its timeout is left first; the loop then ends, or   *)
(* takes the tool call as far as the tool's first await.                   *)
Final ==
    /\ pc = "model" /\ ~thrown
    /\ inner' = Exit(inner)
    /\ LeaveExecutor(Left(inner, cancelling))
    /\ \E text \in {"some", "empty"} : AnswerRun(text)
    /\ UNCHANGED <<setup, loop, base, thrown, ghosts>>

ModelFails ==
    /\ pc = "model" /\ ~thrown
    /\ inner' = Exit(inner)
    /\ FailRun("model_error", Left(inner, cancelling))
    /\ UNCHANGED <<setup, loop, base, thrown, ghosts>>

ArgumentError == [valid |-> "none", invalid |-> "invalid_arguments",
                  validator_bug |-> "validator_bug"]

RefusalOfRepeats(c) ==  \* mutant: repeated ids are not refused
    IF step = MaxSteps THEN "step_limit"
    ELSE IF c.tool = "unknown" THEN "unknown_tool"
    ELSE ArgumentError[c.arguments]

Refusal(c) ==
    IF step = MaxSteps THEN "step_limit"
    ELSE IF c.tool = "unknown" THEN "unknown_tool"
    ELSE IF c.id \in seen THEN "duplicate_call"
    ELSE ArgumentError[c.arguments]

RefuseTool ==
    /\ pc = "model" /\ ~thrown
    /\ inner' = Exit(inner)
    /\ \E c \in Calls :
          /\ Refusal(c) # "none"
          /\ FailRun(Refusal(c), Left(inner, cancelling))
    /\ UNCHANGED <<setup, loop, base, thrown, ghosts>>

InvokeTool ==
    /\ pc = "model" /\ ~thrown
    /\ inner' = Exit(inner)
    /\ cancelling' = Left(inner, cancelling)
    /\ \E c \in Calls :
          /\ Refusal(c) = "none"
          /\ call' = c
          /\ seen' = seen \cup {c.id}
          /\ invoked' = Append(invoked, c.id)
    /\ pc' = "tool"
    /\ UNCHANGED <<setup, step, context, outer, base, thrown, ghosts, outcome>>

----------------------------------------------------------------------------
(* The tool ends.  A result joins the context and the model is asked again.*)
ToolReturns ==
    /\ pc = "tool" /\ ~thrown
    /\ context' = Append(context, call.id)
    /\ AskModel(cancelling)
    /\ UNCHANGED <<setup, call, seen, invoked, outer, cancelling, thrown, ghosts,
                   outcome>>

ToolFails ==  \* it raises, or returns something that is not a string
    /\ pc = "tool" /\ ~thrown
    /\ FailRun("tool_error", cancelling)
    /\ UNCHANGED <<setup, loop, inner, base, thrown, ghosts>>

----------------------------------------------------------------------------
(* CancelledError leaves the awaited operation.  The inner timeout turns   *)
(* it into ModelTimeout if every other request to cancel is older than it; *)
(* otherwise the error goes on to the executor's timeout and beyond.       *)
CancelledInModel ==
    /\ pc = "model" /\ thrown
    /\ thrown' = FALSE
    /\ inner' = Exit(inner)
    /\ LET count == Left(inner, cancelling) IN
       IF inner = "expiring" /\ count <= base
       THEN FailRun("model_error", count)
       ELSE CancelRun(count)
    /\ UNCHANGED <<setup, loop, base, ghosts>>

CancelledInTool ==
    /\ pc = "tool" /\ thrown
    /\ thrown' = FALSE
    /\ CancelRun(cancelling)
    /\ UNCHANGED <<setup, loop, inner, base, ghosts>>

Swallow ==
    /\ pc \in {"model", "tool"} /\ thrown
    /\ thrown' = FALSE
    /\ swallowed' = TRUE
    /\ UNCHANGED <<setup, pc, loop, outer, inner, base, cancelling, stops, outcome>>

(* task.cancel(), by either timeout's handle or by the caller.             *)
Cancel ==
    /\ pc \in {"model", "tool"}
    /\ cancelling' = cancelling + 1
    /\ thrown' = TRUE

DeadlineExpires ==
    /\ outer = "entered"
    /\ outer' = "expiring"
    /\ Cancel
    /\ UNCHANGED <<setup, pc, loop, inner, base, ghosts, outcome>>

ModelTimesOut ==
    /\ inner = "entered" /\ pc = "model"
    /\ inner' = "expiring"
    /\ Cancel
    /\ UNCHANGED <<setup, pc, loop, outer, base, ghosts, outcome>>

CallerCancels ==
    /\ stops < MaxStops
    /\ stops' = stops + 1
    /\ Cancel
    /\ UNCHANGED <<setup, pc, loop, outer, inner, base, swallowed, outcome>>

Run ==
    \/ Reject \/ Start
    \/ Final \/ ModelFails \/ RefuseTool \/ InvokeTool
    \/ ToolReturns \/ ToolFails
    \/ CancelledInModel \/ CancelledInTool

Next == Run \/ Swallow \/ DeadlineExpires \/ ModelTimesOut \/ CallerCancels

(* The run starts, its deadline expires in time, and an operation that is  *)
(* cancelled ends, unless it swallows the cancellation.  Nothing obliges a *)
(* transport or a tool to answer.                                          *)
Fairness ==
    /\ WF_vars(Reject \/ Start)
    /\ WF_vars(DeadlineExpires)
    /\ WF_vars(CancelledInModel \/ CancelledInTool)

Spec == Init /\ [][Next]_vars
FairSpec == Spec /\ Fairness

----------------------------------------------------------------------------
(* Every variable has its type (module_01_model_vs_agent).                 *)
TimeoutStates == {"none", "entered", "expiring", "expired", "exited"}

TypeOK ==
    /\ setup \in Setups
    /\ pc \in {"start", "model", "tool", "done"}
    /\ step \in 0..MaxSteps
    /\ call \in Calls \cup {NoCall}
    /\ context \in Seq(CallIds)
    /\ seen \subseteq CallIds
    /\ invoked \in Seq(CallIds)
    /\ outer \in TimeoutStates /\ inner \in TimeoutStates
    /\ base \in Nat /\ cancelling \in Nat
    /\ thrown \in BOOLEAN
    /\ stops \in 0..MaxStops
    /\ swallowed \in BOOLEAN
    /\ outcome \in [kind : Kinds \cup {"none"}, tool_calls : Nat]

(* A tool runs at most once per id, only when a model call is left that    *)
(* can see its result, and a response rests on a context that shows the    *)
(* result of every tool that ran (agent_loop.py:59-151).                   *)
ToolsRunOnceAndAreSeen ==
    /\ \A i, j \in DOMAIN invoked : i # j => invoked[i] # invoked[j]
    /\ pc = "tool" => step < MaxSteps
    /\ outcome.kind \in {"response", "invariant"} => context = invoked
    /\ outcome.kind # "none" => Len(invoked) - outcome.tool_calls \in {0, 1}

(* An answer that comes after the deadline is never a success, even if the *)
(* operation swallowed the cancellation and answered as if in time         *)
(* (distributed_executor.py:118-134).                                      *)
LateAnswerIsAmbiguous ==
    outer = "expired" => outcome.kind \notin {"response", "invariant"}

(* Where no operation swallowed a CancelledError, the caller can tell the  *)
(* three cancellations apart: its own is raised as such, the deadline's is *)
(* AmbiguousCompletion, the model timeout's is a failed step; and without  *)
(* a cancellation of its own it never sees CancelledError.                 *)
(* (distributed_executor.py:84-134, model_client.py:47-76).                *)
CancellationsToldApart ==
    pc = "done" =>
        /\ outcome.kind = "cancelled" => stops > 0
        /\ ~swallowed => /\ stops > 0 => outcome.kind = "cancelled"
                         /\ stops = 0 /\ outer = "expired"
                               => outcome.kind = "ambiguous"

(* Workflow.run implements OneAttempt: at most one attempt, none refused   *)
(* after an effect, no effect twice, beyond the budget or after the end,   *)
(* and an ending that tells success, failure, doubt and cancellation apart *)
(* (workflow.py:38-88, distributed_executor.py:47-134,                     *)
(* agent_loop.py:49-158).                                                  *)
Caller == INSTANCE OneAttempt WITH
    reliable <- ~setup.lose_ack,
    started <- step > 0,
    effects <- invoked,
    late <- outer \in {"expiring", "expired"},
    asked <- stops > 0

ImplementsOneAttempt == Caller!Spec

(* A run with a deadline ends, though the model and the tools may hang,    *)
(* unless one of them swallows its cancellation                            *)
(* (distributed_executor.py:118-134).                                      *)
Termination == setup.deadline # "none" => <>(pc = "done" \/ swallowed)

(* README.md:79-82 of the lesson: a deadline that expires after the start  *)
(* gives AmbiguousCompletion, because an effect may already have happened. *)
DeadlineIsAmbiguous ==
    pc = "done" /\ outer = "expired" /\ stops = 0 => outcome.kind = "ambiguous"
=============================================================================
