------------------------- MODULE AgentRuntimeProofs -------------------------
(***************************************************************************)
(* Theorems about AgentRuntime for every step budget, set of call ids and  *)
(* number of cancellations.                                                *)
(***************************************************************************)
EXTENDS AgentRuntime, TLAPS

----------------------------------------------------------------------------
(* The inductive invariant, by topic.                                      *)
One(b) == IF b THEN 1 ELSE 0

(* Every request to cancel the task is the caller's or belongs to a        *)
(* timeout that has not been left; one that was not swallowed is on its    *)
(* way.                                                                    *)
CountInv ==
    /\ cancelling = stops + One(outer = "expiring") + One(inner = "expiring")
    /\ inner = "expiring" => pc = "model"
    /\ outer = "expiring" => pc \in {"model", "tool"}
    /\ outer = "expired" => pc = "done"
    /\ pc = "start" => /\ outer = "none" /\ inner = "none" /\ stops = 0
                       /\ ~thrown /\ ~swallowed /\ step = 0
    /\ thrown => cancelling > 0 /\ pc \in {"model", "tool"}
    /\ ~swallowed /\ ~thrown /\ pc \in {"model", "tool"} => cancelling = 0
    /\ ~swallowed /\ pc = "model" => base = 0

(* At most the call being executed has run without being in the context.   *)
ToolInv ==
    /\ pc \in {"start", "model"} => invoked = context
    /\ pc = "tool" => /\ call \in Calls /\ step < MaxSteps
                      /\ invoked = Append(context, call.id)
    /\ \A i \in DOMAIN invoked : invoked[i] \in seen
    /\ \A i, j \in DOMAIN invoked : i # j => invoked[i] # invoked[j]
    /\ pc # "done" => outcome = NoOutcome
    /\ pc = "done" => /\ outcome.tool_calls = Len(context)
                      /\ Len(invoked) - Len(context) \in {0, 1}
    /\ outcome.kind \in {"response", "invariant"} => invoked = context

IInv == TypeOK /\ CountInv /\ ToolInv /\ LateAnswerIsAmbiguous
            /\ CancellationsToldApart

LEMMA Initially == Init => IInv
<1> SUFFICES ASSUME Init PROVE IInv
  OBVIOUS
<1>1. TypeOK
  <2>1. 0 \in 0..MaxSteps /\ 0 \in 0..MaxStops
    BY AgentAssumption
  <2>2. <<>> \in Seq(CallIds)
    OBVIOUS
  <2>3. NoOutcome \in [kind : Kinds \cup {"none"}, tool_calls : Nat]
    BY DEF NoOutcome
  <2> QED BY <2>1, <2>2, <2>3 DEF Init, TypeOK, TimeoutStates
<1>2. CountInv
  BY DEF Init, CountInv, One
<1>3. ToolInv
  BY DEF Init, ToolInv, NoOutcome
<1>4. LateAnswerIsAmbiguous /\ CancellationsToldApart
  BY DEF Init, LateAnswerIsAmbiguous, CancellationsToldApart
<1> QED BY <1>1, <1>2, <1>3, <1>4 DEF IInv

(* A refused call is named, and only then refused.                         *)
LEMMA RefusalIsNamed ==
    ASSUME NEW c \in Calls
    PROVE  /\ Refusal(c) \in Failures \cup {"none"}
           /\ Refusal(c) = "none" => step # MaxSteps /\ c.id \notin seen
BY DEF Refusal, ArgumentError, Failures, Calls

(* How the timeouts are left when CancelledError leaves the model client.   *)
LEMMA CancelledLeaves ==
    ASSUME TypeOK, CountInv, CancelledInModel
    PROVE  /\ pc = "model" /\ pc' = "done" /\ ~thrown'
           /\ UNCHANGED <<setup, step, call, context, seen, invoked, base, stops,
                          swallowed>>
           /\ outer' = Exit(outer) /\ inner' = Exit(inner)
           /\ cancelling' = stops
           /\ outcome'.kind = IF inner = "expiring" /\ Left(inner, cancelling) <= base
                              THEN "model_error"
                              ELSE IF outer = "expiring" /\ stops <= 0
                                   THEN "ambiguous" ELSE "cancelled"
           /\ outcome'.tool_calls = Len(context)
<1>1. /\ stops \in Int /\ base \in Int /\ cancelling \in Int
      /\ cancelling = stops + One(outer = "expiring") + One(inner = "expiring")
  BY DEF TypeOK, CountInv
<1>2. Left(outer, Left(inner, cancelling)) = stops
  BY <1>1 DEF Left, One
<1>3. outer = "expiring" => Left(inner, cancelling) - 1 = stops
  BY <1>2 DEF Left
<1>4. CASE inner = "expiring" /\ Left(inner, cancelling) <= base
  BY <1>2, <1>4 DEF CancelledInModel, FailRun, LeaveExecutor, Finish, loop, ghosts
<1>5. CASE ~(inner = "expiring" /\ Left(inner, cancelling) <= base)
  BY <1>2, <1>3, <1>5
  DEF CancelledInModel, CancelRun, LeaveExecutor, Finish, loop, ghosts
<1> QED BY <1>4, <1>5

(* An answer that finds the executor's timeout expired.                    *)
LEMMA AnsweredLate ==
    ASSUME outer = "expiring", NEW text, AnswerRun(text)
    PROVE  outcome'.kind = "ambiguous"
BY DEF AnswerRun, Finish

LEMMA TypeStep == IInv /\ [Next]_vars => TypeOK'
<1> SUFFICES ASSUME IInv, [Next]_vars PROVE TypeOK'
  OBVIOUS
<1> USE AgentAssumption
    DEF IInv, TypeOK, CountInv, One, TimeoutStates, loop, ghosts, Finish, Exit,
        Left, LeaveExecutor, FailRun, AskModel, Cancel
<1>k. {"invalid_request", "unavailable", "deadline_exceeded", "model_error",
       "tool_error", "response", "invariant", "ambiguous", "cancelled"}
         \cup Failures \subseteq Kinds
  BY DEF Kinds, Failures, Rejections
<1>l. Len(context) \in Nat
  OBVIOUS
<1>1. CASE Reject
  BY <1>1, <1>k, <1>l DEF Reject
<1>2. CASE Start
  BY <1>2 DEF Start
<1>3. CASE Final
  <2>1. outcome' \in [kind : Kinds \cup {"none"}, tool_calls : Nat] /\ pc' = "done"
    <3>1. PICK text \in {"some", "empty"} : AnswerRun(text)
      BY <1>3 DEF Final
    <3> QED BY <3>1, <1>k, <1>l DEF AnswerRun
  <2>2. /\ UNCHANGED <<setup, step, call, context, seen, invoked, base, thrown, stops,
                       swallowed>>
        /\ outer' = Exit(outer) /\ inner' = Exit(inner)
    BY <1>3 DEF Final
  <2>3. cancelling' \in Nat
    BY <1>3 DEF Final
  <2> QED BY <2>1, <2>2, <2>3
<1>4. CASE ModelFails
  BY <1>4, <1>k, <1>l DEF ModelFails
<1>5. CASE RefuseTool
  BY <1>5, <1>k, <1>l, RefusalIsNamed DEF RefuseTool
<1>6. CASE InvokeTool
  <2>1. PICK c \in Calls : /\ call' = c /\ seen' = seen \cup {c.id}
                           /\ invoked' = Append(invoked, c.id)
    BY <1>6 DEF InvokeTool
  <2>2. c.id \in CallIds
    BY DEF Calls
  <2> QED BY <1>6, <2>1, <2>2 DEF InvokeTool
<1>7. CASE ToolReturns
  <2>1. call.id \in CallIds /\ step < MaxSteps
    BY <1>7 DEF ToolReturns, ToolInv, Calls
  <2> QED BY <1>7, <2>1 DEF ToolReturns
<1>8. CASE ToolFails
  BY <1>8, <1>k, <1>l DEF ToolFails
<1>9. CASE CancelledInModel
  <2>1. /\ UNCHANGED <<setup, step, call, context, seen, invoked, base, stops, swallowed>>
        /\ pc' = "done" /\ thrown' = FALSE /\ inner' = Exit(inner)
    BY <1>9 DEF CancelledInModel, CancelRun
  <2>2. outer' = Exit(outer) /\ cancelling' \in Nat
    BY <1>9 DEF CancelledInModel, CancelRun
  <2>3. outcome' \in [kind : Kinds \cup {"none"}, tool_calls : Nat]
    BY <1>9, <1>k, <1>l DEF CancelledInModel, CancelRun
  <2> QED BY <2>1, <2>2, <2>3
<1>10. CASE CancelledInTool
  <2>1. /\ UNCHANGED <<setup, step, call, context, seen, invoked, inner, base, stops,
                       swallowed>>
        /\ pc' = "done" /\ thrown' = FALSE
    BY <1>10 DEF CancelledInTool, CancelRun
  <2>2. outer' = Exit(outer) /\ cancelling' \in Nat
    BY <1>10 DEF CancelledInTool, CancelRun
  <2>3. outcome' \in [kind : Kinds \cup {"none"}, tool_calls : Nat]
    BY <1>10, <1>k, <1>l DEF CancelledInTool, CancelRun
  <2> QED BY <2>1, <2>2, <2>3
<1>11. CASE Swallow
  BY <1>11 DEF Swallow
<1>12. CASE DeadlineExpires
  BY <1>12 DEF DeadlineExpires
<1>13. CASE ModelTimesOut
  BY <1>13 DEF ModelTimesOut
<1>14. CASE CallerCancels
  BY <1>14 DEF CallerCancels
<1>15. CASE UNCHANGED vars
  BY <1>15 DEF vars
<1> QED
  BY <1>1, <1>2, <1>3, <1>4, <1>5, <1>6, <1>7, <1>8, <1>9, <1>10, <1>11, <1>12,
     <1>13, <1>14, <1>15 DEF Next, Run

LEMMA CountStep == IInv /\ [Next]_vars => CountInv'
<1> SUFFICES ASSUME IInv, [Next]_vars PROVE CountInv'
  OBVIOUS
<1> USE DEF IInv, TypeOK, CountInv, One, TimeoutStates, loop, ghosts, Finish, Exit,
        Left, LeaveExecutor, FailRun, AskModel, Cancel
<1>1. CASE Reject
  BY <1>1 DEF Reject
<1>2. CASE Start
  BY <1>2 DEF Start
<1>3. CASE Final
  BY <1>3 DEF Final, AnswerRun
<1>4. CASE ModelFails
  BY <1>4 DEF ModelFails
<1>5. CASE RefuseTool
  BY <1>5 DEF RefuseTool
<1>6. CASE InvokeTool
  BY <1>6 DEF InvokeTool
<1>7. CASE ToolReturns
  BY <1>7 DEF ToolReturns
<1>8. CASE ToolFails
  BY <1>8 DEF ToolFails
<1>9. CASE CancelledInModel
  BY <1>9, CancelledLeaves
<1>10. CASE CancelledInTool
  BY <1>10 DEF CancelledInTool, CancelRun
<1>11. CASE Swallow
  BY <1>11 DEF Swallow
<1>12. CASE DeadlineExpires
  BY <1>12 DEF DeadlineExpires
<1>13. CASE ModelTimesOut
  BY <1>13 DEF ModelTimesOut
<1>14. CASE CallerCancels
  BY <1>14 DEF CallerCancels
<1>15. CASE UNCHANGED vars
  BY <1>15 DEF vars
<1> QED
  BY <1>1, <1>2, <1>3, <1>4, <1>5, <1>6, <1>7, <1>8, <1>9, <1>10, <1>11, <1>12,
     <1>13, <1>14, <1>15 DEF Next, Run

LEMMA ToolStep == IInv /\ [Next]_vars => ToolInv'
<1> SUFFICES ASSUME IInv, [Next]_vars PROVE ToolInv'
  OBVIOUS
<1> USE DEF IInv, TypeOK, ToolInv, CountInv, loop, ghosts, Finish, LeaveExecutor,
        FailRun, AskModel, Cancel, NoOutcome
<1>1. CASE Reject
  BY <1>1 DEF Reject
<1>2. CASE Start
  BY <1>2 DEF Start
<1>3. CASE Final
  BY <1>3 DEF Final, AnswerRun
<1>4. CASE ModelFails
  BY <1>4 DEF ModelFails
<1>5. CASE RefuseTool
  <2>1. PICK c \in Calls : FailRun(Refusal(c), Left(inner, cancelling))
    BY <1>5 DEF RefuseTool
  <2>2. outcome'.kind \notin {"response", "invariant"}
    BY <2>1, RefusalIsNamed DEF RefuseTool, Failures
  <2> QED BY <1>5, <2>1, <2>2 DEF RefuseTool
<1>6. CASE InvokeTool
  <2>1. PICK c \in Calls : /\ Refusal(c) = "none"
                           /\ call' = c /\ seen' = seen \cup {c.id}
                           /\ invoked' = Append(invoked, c.id)
    BY <1>6 DEF InvokeTool
  <2>a. step # MaxSteps /\ c.id \notin seen
    BY <2>1, RefusalIsNamed
  <2>b. c.id \in CallIds
    BY DEF Calls
  <2>2. c.id \in CallIds /\ c.id \notin seen /\ step < MaxSteps
    BY <2>a, <2>b, AgentAssumption
  <2>3. \A i \in DOMAIN invoked' : invoked'[i] \in seen'
    BY <2>1, <2>2
  <2>4. \A i, j \in DOMAIN invoked' : i # j => invoked'[i] # invoked'[j]
    BY <2>1, <2>2
  <2> QED BY <1>6, <2>1, <2>2, <2>3, <2>4 DEF InvokeTool
<1>7. CASE ToolReturns
  BY <1>7 DEF ToolReturns
<1>8. CASE ToolFails
  <2>1. call.id \in CallIds
    BY <1>8 DEF ToolFails, Calls
  <2> QED BY <1>8, <2>1 DEF ToolFails
<1>9. CASE CancelledInModel
  BY <1>9 DEF CancelledInModel, CancelRun
<1>10. CASE CancelledInTool
  <2>1. call.id \in CallIds
    BY <1>10 DEF CancelledInTool, Calls
  <2> QED BY <1>10, <2>1 DEF CancelledInTool, CancelRun
<1>11. CASE Swallow
  BY <1>11 DEF Swallow
<1>12. CASE DeadlineExpires
  BY <1>12 DEF DeadlineExpires
<1>13. CASE ModelTimesOut
  BY <1>13 DEF ModelTimesOut
<1>14. CASE CallerCancels
  BY <1>14 DEF CallerCancels
<1>15. CASE UNCHANGED vars
  BY <1>15 DEF vars
<1> QED
  BY <1>1, <1>2, <1>3, <1>4, <1>5, <1>6, <1>7, <1>8, <1>9, <1>10, <1>11, <1>12,
     <1>13, <1>14, <1>15 DEF Next, Run

LEMMA OutcomeStep ==
    IInv /\ [Next]_vars => LateAnswerIsAmbiguous' /\ CancellationsToldApart'
<1> SUFFICES ASSUME IInv, [Next]_vars
             PROVE  LateAnswerIsAmbiguous' /\ CancellationsToldApart'
  OBVIOUS
<1> USE DEF IInv, TypeOK, CountInv, One, TimeoutStates, LateAnswerIsAmbiguous,
        CancellationsToldApart, loop, ghosts, Finish, Exit, Left, LeaveExecutor,
        FailRun, AskModel, Cancel
<1>1. CASE Reject
  BY <1>1 DEF Reject
<1>2. CASE Start
  BY <1>2 DEF Start
<1>3. CASE Final
  <2>1. /\ pc = "model" /\ ~thrown /\ UNCHANGED <<stops, swallowed>>
        /\ outer' = Exit(outer) /\ pc' = "done"
    BY <1>3 DEF Final, AnswerRun
  <2>2. outcome'.kind \in {"response", "invariant", "ambiguous"}
    BY <1>3 DEF Final, AnswerRun
  <2>3. outer = "expiring" => outcome'.kind = "ambiguous"
    BY <1>3, AnsweredLate DEF Final
  <2>4. ~swallowed => outer # "expiring" /\ stops = 0
    BY <2>1
  <2>5. outer' = "expired" => outer = "expiring"
    BY <2>1
  <2> QED BY <2>1, <2>2, <2>3, <2>4, <2>5
<1>4. CASE ModelFails
  BY <1>4 DEF ModelFails
<1>5. CASE RefuseTool
  <2>1. PICK c \in Calls : FailRun(Refusal(c), Left(inner, cancelling))
    BY <1>5 DEF RefuseTool
  <2>2. outcome'.kind \notin {"response", "invariant", "cancelled"}
    BY <2>1, RefusalIsNamed, <1>5 DEF RefuseTool, Failures
  <2> QED BY <1>5, <2>1, <2>2 DEF RefuseTool
<1>6. CASE InvokeTool
  BY <1>6 DEF InvokeTool
<1>7. CASE ToolReturns
  BY <1>7 DEF ToolReturns
<1>8. CASE ToolFails
  BY <1>8 DEF ToolFails
<1>9. CASE CancelledInModel
  <2>1. inner = "expiring" /\ ~swallowed /\ Left(inner, cancelling) <= base
          => stops = 0 /\ outer # "expiring"
    BY <1>9, CancelledLeaves
  <2>2. outer' = "expired" => outer = "expiring"
    BY <1>9, CancelledLeaves
  <2>3. outcome'.kind \in {"model_error", "ambiguous", "cancelled"}
    BY <1>9, CancelledLeaves
  <2>4. outcome'.kind = "cancelled" => stops > 0
    <3>1. CASE outer = "expiring"
      BY <1>9, CancelledLeaves, <3>1
    <3>2. CASE outer # "expiring" /\ inner # "expiring"
      <4>1. thrown
        BY <1>9 DEF CancelledInModel
      <4> QED BY <3>2, <4>1
    <3>3. CASE outer # "expiring" /\ inner = "expiring"
      <4>1. Left(inner, cancelling) = stops
        BY <3>3
      <4> QED BY <1>9, CancelledLeaves, <3>3, <4>1
    <3> QED BY <3>1, <3>2, <3>3
  <2>5. ~swallowed /\ stops > 0 => outcome'.kind = "cancelled"
    BY <1>9, CancelledLeaves, <2>1
  <2>6. ~swallowed /\ stops = 0 /\ outer = "expiring" => outcome'.kind = "ambiguous"
    BY <1>9, CancelledLeaves, <2>1
  <2>7. stops' = stops /\ swallowed' = swallowed
    BY <1>9, CancelledLeaves
  <2> QED BY <2>2, <2>3, <2>4, <2>5, <2>6, <2>7
<1>10. CASE CancelledInTool
  BY <1>10 DEF CancelledInTool, CancelRun
<1>11. CASE Swallow
  BY <1>11 DEF Swallow
<1>12. CASE DeadlineExpires
  BY <1>12 DEF DeadlineExpires
<1>13. CASE ModelTimesOut
  BY <1>13 DEF ModelTimesOut
<1>14. CASE CallerCancels
  BY <1>14 DEF CallerCancels
<1>15. CASE UNCHANGED vars
  BY <1>15 DEF vars
<1> QED
  BY <1>1, <1>2, <1>3, <1>4, <1>5, <1>6, <1>7, <1>8, <1>9, <1>10, <1>11, <1>12,
     <1>13, <1>14, <1>15 DEF Next, Run

----------------------------------------------------------------------------
LEMMA AgentInvariance == Spec => []IInv
<1>1. IInv /\ [Next]_vars => IInv'
  BY TypeStep, CountStep, ToolStep, OutcomeStep DEF IInv
<1> QED BY Initially, <1>1, PTL DEF Spec

(* Every variable keeps its type; in particular the loop never asks the    *)
(* model more than MaxSteps times.                                         *)
THEOREM AgentTypes == Spec => []TypeOK
<1>1. IInv => TypeOK
  BY DEF IInv
<1> QED BY <1>1, AgentInvariance, PTL

(* Whatever ids the model gives its calls, no id runs a tool twice, and a  *)
(* response rests on the result of every tool that ran                     *)
(* (agent_loop.py:59-151).                                                 *)
THEOREM ToolsAreRunOnceAndSeen == Spec => []ToolsRunOnceAndAreSeen
<1>1. IInv => ToolsRunOnceAndAreSeen
  BY DEF IInv, ToolInv, CountInv, TypeOK, ToolsRunOnceAndAreSeen, NoOutcome
<1> QED BY <1>1, AgentInvariance, PTL

(* An answer after the deadline is never a success                         *)
(* (distributed_executor.py:118-134).                                      *)
THEOREM LateAnswersAreAmbiguous == Spec => []LateAnswerIsAmbiguous
<1>1. IInv => LateAnswerIsAmbiguous
  BY DEF IInv
<1> QED BY <1>1, AgentInvariance, PTL

(* The caller can tell its own cancellation, the deadline's and the model  *)
(* timeout's apart, in whatever order they come                            *)
(* (distributed_executor.py:84-134, model_client.py:47-76).                *)
THEOREM CancellationsAreToldApart == Spec => []CancellationsToldApart
<1>1. IInv => CancellationsToldApart
  BY DEF IInv
<1> QED BY <1>1, AgentInvariance, PTL

(* The task is handed back with no request to cancel but the caller's:     *)
(* both timeouts have taken back their own, wherever an error left them    *)
(* (distributed_executor.py:124-134, model_client.py:75-76).               *)
THEOREM CancellationsBalance == Spec => [](pc = "done" => cancelling = stops)
<1>1. IInv => (pc = "done" => cancelling = stops)
  BY DEF IInv, CountInv, TypeOK, One
<1> QED BY <1>1, AgentInvariance, PTL

----------------------------------------------------------------------------
(* The step counter is the number of results in the context and the call   *)
(* of the model that follows them.                                         *)
BudgetInv ==
    /\ pc = "start" => step = 0 /\ context = <<>>
    /\ pc \in {"model", "tool"} => step = Len(context) + 1
    /\ step = 0 => outer \notin {"expiring", "expired"} /\ stops = 0

LEMMA BudgetStep == IInv /\ BudgetInv /\ [Next]_vars => BudgetInv'
<1> SUFFICES ASSUME IInv, BudgetInv, [Next]_vars PROVE BudgetInv'
  OBVIOUS
<1> USE DEF IInv, TypeOK, BudgetInv, CountInv, loop, ghosts, Finish, Exit,
        LeaveExecutor, FailRun, AskModel, Cancel
<1>1. CASE Reject
  BY <1>1 DEF Reject
<1>2. CASE Start
  BY <1>2 DEF Start
<1>3. CASE Final
  <2>1. /\ pc = "model" /\ pc' = "done" /\ UNCHANGED <<step, context, stops>>
        /\ outer' = Exit(outer)
    BY <1>3 DEF Final, AnswerRun
  <2> QED BY <2>1
<1>4. CASE ModelFails \/ RefuseTool \/ ToolFails
  BY <1>4 DEF ModelFails, RefuseTool, ToolFails
<1>5. CASE InvokeTool
  BY <1>5 DEF InvokeTool
<1>6. CASE ToolReturns
  <2>1. Len(Append(context, call.id)) = Len(context) + 1 /\ pc = "tool"
    BY <1>6 DEF ToolReturns
  <2> QED BY <1>6, <2>1 DEF ToolReturns
<1>7. CASE CancelledInModel
  <2>1. /\ pc = "model" /\ pc' = "done" /\ UNCHANGED <<step, context, stops>>
        /\ outer' = Exit(outer)
    BY <1>7 DEF CancelledInModel, CancelRun
  <2> QED BY <2>1
<1>8. CASE CancelledInTool
  BY <1>8 DEF CancelledInTool, CancelRun
<1>9. CASE Swallow \/ DeadlineExpires \/ ModelTimesOut \/ CallerCancels
  BY <1>9 DEF Swallow, DeadlineExpires, ModelTimesOut, CallerCancels
<1>10. CASE UNCHANGED vars
  BY <1>10 DEF vars
<1> QED
  BY <1>1, <1>2, <1>3, <1>4, <1>5, <1>6, <1>7, <1>8, <1>9, <1>10 DEF Next, Run

(* An ending of the run is an ending of the attempt.                       *)
LEMMA EndingsMatch ==
    ASSUME IInv, BudgetInv, pc \in {"model", "tool"}, UNCHANGED invoked,
           UNCHANGED setup, UNCHANGED step, UNCHANGED stops,
           outer' = Exit(outer), NEW kind, NEW kinds, kind \in kinds,
           outcome' = [kind |-> kind, tool_calls |-> Len(context)]
    PROVE  /\ Caller!Running /\ step > 0
           /\ Caller!End(kinds, 1)
           /\ pc = "model" => Caller!End(kinds, 0)
<1>1. outcome = NoOutcome /\ step > 0
  BY DEF IInv, ToolInv, BudgetInv, TypeOK
<1>2. /\ Len(context) \in 0..Len(invoked) /\ Len(invoked) <= Len(context) + 1
      /\ pc = "model" => Len(invoked) <= Len(context) + 0
  <2>1. CASE pc = "model"
    BY <2>1 DEF IInv, ToolInv, TypeOK
  <2>2. CASE pc = "tool"
    <3>1. call.id \in CallIds
      BY <2>2 DEF IInv, ToolInv, Calls
    <3>2. Len(invoked) = Len(context) + 1
      BY <2>2, <3>1 DEF IInv, ToolInv, TypeOK
    <3> QED BY <2>2, <3>2 DEF IInv, TypeOK
  <2> QED BY <2>1, <2>2
<1>3. UNCHANGED <<~setup.lose_ack, step > 0, invoked,
                  outer \in {"expiring", "expired"}, stops > 0>>
  BY DEF Exit
<1> QED BY <1>1, <1>2, <1>3 DEF Caller!Running, Caller!End

(* AgentRuntime implements OneAttempt: at most one attempt, no effect      *)
(* twice, beyond the budget or after the end, and an ending that tells     *)
(* success, failure, doubt and cancellation apart (workflow.py:38-88,      *)
(* distributed_executor.py:47-134, agent_loop.py:49-158).                  *)
THEOREM AgentRefinement == Spec => ImplementsOneAttempt
<1>1. Init => Caller!Init /\ BudgetInv
  BY DEF Init, Setups, BudgetInv, Caller!Init, Caller!Running
<1>2. ASSUME IInv, BudgetInv, IInv', [Next]_vars PROVE [Caller!Next]_(Caller!vars)
  <2> USE DEF Caller!vars, Caller!Next
  <2>1. CASE UNCHANGED vars
    BY <2>1 DEF vars
  <2>2. CASE Reject
    <3>1. /\ outcome = NoOutcome /\ ~(step > 0) /\ Len(invoked) = 0 /\ Len(context) = 0
      BY <1>2, <2>2 DEF Reject, IInv, BudgetInv, ToolInv, TypeOK
    <3>2. PICK kind \in Rejections : outcome' = [kind |-> kind, tool_calls |-> Len(context)]
      BY <2>2 DEF Reject, Finish, Rejections
    <3>3. UNCHANGED <<setup, step, invoked, outer, stops>>
      BY <2>2 DEF Reject, loop, ghosts
    <3> QED BY <3>1, <3>2, <3>3 DEF Caller!Reject, Caller!End, Caller!Running
  <2>3. CASE Start
    <3>1. /\ outcome = NoOutcome /\ ~(step > 0) /\ step' > 0
          /\ outer \notin {"expiring", "expired"}
      BY <1>2, <2>3 DEF Start, AskModel, IInv, BudgetInv, CountInv, ToolInv, TypeOK
    <3>2. /\ UNCHANGED <<setup, invoked, stops, outcome>>
          /\ outer' \notin {"expiring", "expired"}
      BY <2>3 DEF Start, ghosts
    <3> QED BY <3>1, <3>2 DEF Caller!Start, Caller!Running
  <2>4. CASE InvokeTool
    <3>1. PICK c \in Calls : Refusal(c) = "none" /\ invoked' = Append(invoked, c.id)
      BY <2>4 DEF InvokeTool
    <3>2. /\ outcome = NoOutcome /\ invoked = context /\ step = Len(context) + 1
          /\ step \in 0..MaxSteps /\ \A i \in DOMAIN invoked : invoked[i] \in seen
      BY <1>2, <2>4 DEF InvokeTool, IInv, ToolInv, BudgetInv, TypeOK
    <3>3. step # MaxSteps /\ c.id \notin seen /\ c.id \in CallIds
      BY <3>1, RefusalIsNamed DEF Calls
    <3>4. step > 0 /\ Len(invoked) + 1 < MaxSteps
      BY <1>2, <3>2, <3>3, AgentAssumption DEF IInv, TypeOK
    <3>5. UNCHANGED <<setup, step, outer, stops, outcome>>
      BY <2>4 DEF InvokeTool, ghosts
    <3> QED BY <3>1, <3>2, <3>3, <3>4, <3>5 DEF Caller!TakeEffect, Caller!Running
  <2>5. CASE DeadlineExpires
    <3>1. /\ outcome = NoOutcome /\ step > 0 /\ outer' = "expiring"
          /\ UNCHANGED <<setup, step, invoked, stops, outcome>>
      BY <1>2, <2>5 DEF DeadlineExpires, Cancel, loop, ghosts, IInv, ToolInv,
         BudgetInv, TypeOK
    <3> QED BY <3>1 DEF Caller!Expire, Caller!Running
  <2>6. CASE CallerCancels
    <3>1. /\ outcome = NoOutcome /\ step > 0 /\ stops' > 0
          /\ UNCHANGED <<setup, step, invoked, outer, outcome>>
      BY <1>2, <2>6 DEF CallerCancels, Cancel, loop, IInv, ToolInv, BudgetInv, TypeOK
    <3> QED BY <3>1 DEF Caller!Ask, Caller!Running
  <2>7. CASE ToolReturns
    <3>1. step > 0 /\ step' > 0
      BY <1>2, <2>7 DEF ToolReturns, AskModel, IInv, BudgetInv, TypeOK
    <3> QED BY <2>7, <3>1 DEF ToolReturns, ghosts
  <2>8. CASE Swallow \/ ModelTimesOut
    BY <2>8 DEF Swallow, ModelTimesOut, Cancel, loop, ghosts
  <2>9. CASE Final
    <3>1. PICK text \in {"some", "empty"} : AnswerRun(text)
      BY <2>9 DEF Final
    <3>2. /\ pc = "model" /\ UNCHANGED <<setup, step, invoked, stops>>
          /\ outer' = Exit(outer)
      BY <2>9 DEF Final, LeaveExecutor, loop, ghosts
    <3> DEFINE kind == outcome'.kind
    <3>3. outcome' = [kind |-> kind, tool_calls |-> Len(context)]
      BY <3>1 DEF AnswerRun, Finish
    <3>4. CASE outer = "expiring" \/ setup.lose_ack
      <4>1. kind \in {"ambiguous"}
        BY <3>1, <3>4 DEF AnswerRun, Finish
      <4> HIDE DEF kind
      <4>2. Caller!End({"ambiguous"}, 1) /\ step > 0
        BY <1>2, <3>2, <3>3, <4>1, EndingsMatch
      <4> QED BY <3>4, <4>2 DEF Caller!BeUnsure
    <3>5. CASE outer # "expiring" /\ ~setup.lose_ack
      <4>1. kind \in {"response", "invariant"}
        BY <3>1, <3>5 DEF AnswerRun, Finish
      <4>2. outer # "expired"
        BY <1>2, <3>2 DEF IInv, CountInv
      <4> HIDE DEF kind
      <4>3. Caller!End({"response", "invariant"}, 0) /\ step > 0
        BY <1>2, <3>2, <3>3, <4>1, EndingsMatch
      <4> QED BY <3>5, <4>2, <4>3 DEF Caller!Answer
    <3> QED BY <3>4, <3>5
  <2>10. CASE ModelFails \/ RefuseTool \/ ToolFails
    <3>1. /\ pc \in {"model", "tool"} /\ UNCHANGED <<setup, step, invoked, stops>>
          /\ outer' = Exit(outer)
      BY <2>10 DEF ModelFails, RefuseTool, ToolFails, FailRun, LeaveExecutor, loop,
         ghosts
    <3>2. PICK kind \in Failures :
              outcome' = [kind |-> kind, tool_calls |-> Len(context)]
      <4>1. CASE ModelFails
        BY <4>1 DEF ModelFails, FailRun, Finish, Failures
      <4>2. CASE ToolFails
        BY <4>2 DEF ToolFails, FailRun, Finish, Failures
      <4>3. CASE RefuseTool
        BY <4>3, RefusalIsNamed DEF RefuseTool, FailRun, Finish
      <4> QED BY <2>10, <4>1, <4>2, <4>3
    <3>3. Caller!End(Failures, 1) /\ step > 0
      BY <1>2, <3>1, <3>2, EndingsMatch
    <3> QED BY <3>3 DEF Caller!Fail
  <2>11. CASE CancelledInModel \/ CancelledInTool
    <3>1. /\ pc \in {"model", "tool"} /\ pc' = "done"
          /\ UNCHANGED <<setup, step, invoked, stops>>
          /\ outer' = Exit(outer)
      BY <2>11 DEF CancelledInModel, CancelledInTool, FailRun, CancelRun, Finish,
         LeaveExecutor, loop, ghosts
    <3>2. PICK kind \in {"model_error", "ambiguous", "cancelled"} :
              /\ outcome' = [kind |-> kind, tool_calls |-> Len(context)]
              /\ kind = "ambiguous" => outer = "expiring"
      BY <2>11 DEF CancelledInModel, CancelledInTool, FailRun, CancelRun, Finish
    <3>3. CASE kind = "model_error"
      <4>1. kind \in Failures
        BY <3>3 DEF Failures
      <4>2. Caller!End(Failures, 1) /\ step > 0
        BY <1>2, <3>1, <3>2, <4>1, EndingsMatch
      <4> QED BY <4>2 DEF Caller!Fail
    <3>4. CASE kind = "ambiguous"
      <4>1. Caller!End({"ambiguous"}, 1) /\ step > 0
        BY <1>2, <3>1, <3>2, <3>4, EndingsMatch
      <4> QED BY <3>2, <3>4, <4>1 DEF Caller!BeUnsure
    <3>5. CASE kind = "cancelled"
      <4>1. Caller!End({"cancelled"}, 1) /\ step > 0
        BY <1>2, <3>1, <3>2, <3>5, EndingsMatch
      <4>2. stops > 0
        BY <1>2, <3>1, <3>2, <3>5 DEF IInv, CancellationsToldApart
      <4> QED BY <4>1, <4>2 DEF Caller!Stop
    <3> QED BY <3>2, <3>3, <3>4, <3>5
  <2> QED
    BY <1>2, <2>1, <2>2, <2>3, <2>4, <2>5, <2>6, <2>7, <2>8, <2>9, <2>10, <2>11
    DEF Next, Run
<1> QED
  BY <1>1, <1>2, BudgetStep, AgentInvariance, PTL
  DEF Spec, Caller!Spec, ImplementsOneAttempt

----------------------------------------------------------------------------
(* Every step of a run uses up some of a bounded supply: steps of the      *)
(* budget, points of the task, timeouts to expire and cancellations.       *)
PointsLeft == CASE pc = "start" -> 3 [] pc = "model" -> 2 [] pc = "tool" -> 1
                [] OTHER -> 0
Slot(timeout) == IF timeout = "entered" THEN 2 ELSE 0
Slots == Slot(outer) + Slot(inner)
Thrown == IF thrown THEN 1 ELSE 0

StepsLeft == MaxSteps - step
StopsLeft == MaxStops - stops

Weight(a, b, p, s, t) == 6 * a + 2 * b + p + s + t
Fuel == Weight(StepsLeft, StopsLeft, PointsLeft, Slots, Thrown)

LEMMA Supplies ==
    ASSUME TypeOK
    PROVE  /\ StepsLeft \in Nat /\ StopsLeft \in Nat
           /\ PointsLeft \in 0..3 /\ Slots \in 0..4 /\ Thrown \in 0..1
BY AgentAssumption DEF TypeOK, PointsLeft, Slots, Slot, Thrown, StepsLeft, StopsLeft

(* What each kind of step uses up outweighs what it brings.                *)
Uses(a, b, p, s, t, c, d, q, r, u) ==
    \/ c = a - 1 /\ d = b /\ q <= p + 1 /\ u = t
    \/ c = a /\ d = b /\ q < p /\ r <= s /\ u <= t
    \/ c = a /\ d = b /\ q = p /\ r = s /\ u < t
    \/ c = a /\ d = b /\ q = p /\ r = s - 2
    \/ c = a /\ d = b - 1 /\ q = p /\ r = s

LEMMA Less ==
    ASSUME NEW a \in Nat, NEW b \in Nat, NEW p \in 0..3, NEW s \in 0..4, NEW t \in 0..1,
           NEW c \in Nat, NEW d \in Nat, NEW q \in 0..3, NEW r \in 0..4, NEW u \in 0..1,
           Uses(a, b, p, s, t, c, d, q, r, u)
    PROVE  /\ Weight(c, d, q, r, u) \in Nat
           /\ Weight(c, d, q, r, u) < Weight(a, b, p, s, t)
<1> DEFINE A == 6 * a
           B == 2 * b
<1>1. A \in Nat /\ B \in Nat
  OBVIOUS
<1>2. 6 * c \in Nat /\ 2 * d \in Nat
  OBVIOUS
<1>3. c = a - 1 => 6 * c = A - 6
  OBVIOUS
<1>4. d = b - 1 => 2 * d = B - 2
  OBVIOUS
<1> QED BY <1>1, <1>2, <1>3, <1>4 DEF Uses, Weight

(* A run cannot go on for ever: it takes at most as many steps as it has   *)
(* fuel, however the model, the tools, the timeouts and the caller take    *)
(* turns.  What remains is that it might stop short of its end             *)
(* (agent_loop.py:59-160, distributed_executor.py:118-134).                *)
THEOREM RunsAreFinite == Spec => [][Fuel' \in Nat /\ Fuel' < Fuel]_vars
<1>1. ASSUME TypeOK, TypeOK', Next PROVE Fuel' \in Nat /\ Fuel' < Fuel
  <2>1. /\ StepsLeft \in Nat /\ StopsLeft \in Nat
        /\ PointsLeft \in 0..3 /\ Slots \in 0..4 /\ Thrown \in 0..1
    BY <1>1, Supplies
  <2>2. /\ StepsLeft' \in Nat /\ StopsLeft' \in Nat
        /\ PointsLeft' \in 0..3 /\ Slots' \in 0..4 /\ Thrown' \in 0..1
    <3>1. step' \in 0..MaxSteps /\ stops' \in 0..MaxStops
      BY <1>1 DEF TypeOK
    <3>2. StepsLeft' \in Nat /\ StopsLeft' \in Nat
      <4>1. \A n \in Nat : \A k \in 0..n : n - k \in Nat
        OBVIOUS
      <4>2. MaxSteps - step' \in Nat /\ MaxStops - stops' \in Nat
        BY <3>1, <4>1, AgentAssumption
      <4> QED BY <4>2 DEF StepsLeft, StopsLeft
    <3>3. PointsLeft' \in 0..3 /\ Slots' \in 0..4 /\ Thrown' \in 0..1
      BY DEF PointsLeft, Slots, Slot, Thrown
    <3> QED BY <3>2, <3>3
  <2> DEFINE Used == Uses(StepsLeft, StopsLeft, PointsLeft, Slots, Thrown,
                          StepsLeft', StopsLeft', PointsLeft', Slots', Thrown')
  <2>3. ASSUME Used PROVE Fuel' \in Nat /\ Fuel' < Fuel
    <3>1. Fuel' = Weight(StepsLeft', StopsLeft', PointsLeft', Slots', Thrown')
      BY DEF Fuel, Weight
    <3> QED BY <2>1, <2>2, <2>3, <3>1, Less DEF Fuel
  <2>4. CASE Reject
    <3>1. /\ UNCHANGED <<StepsLeft, StopsLeft, Slots, Thrown>>
          /\ PointsLeft' < PointsLeft
      BY <2>4 DEF Reject, Finish, loop, ghosts, PointsLeft, Slots, Thrown,
         StepsLeft, StopsLeft
    <3> QED BY <2>3, <3>1, <2>1 DEF Uses
  <2>5. CASE Start \/ ToolReturns
    <3>1. /\ StepsLeft' = StepsLeft - 1 /\ UNCHANGED <<StopsLeft, Thrown>>
          /\ PointsLeft' <= PointsLeft + 1
      BY <1>1, <2>5, AgentAssumption DEF Start, ToolReturns, AskModel, ghosts,
         PointsLeft, Thrown, StepsLeft, StopsLeft, TypeOK
    <3> QED BY <2>3, <3>1 DEF Uses
  <2>6. CASE \/ Final \/ ModelFails \/ RefuseTool \/ InvokeTool \/ ToolFails
             \/ CancelledInModel \/ CancelledInTool
    <3>1. /\ UNCHANGED <<StepsLeft, StopsLeft>>
          /\ PointsLeft' < PointsLeft
          /\ Thrown' <= Thrown
      BY <1>1, <2>6 DEF Final, AnswerRun, ModelFails, RefuseTool, InvokeTool,
         ToolFails, CancelledInModel, CancelledInTool, CancelRun, FailRun, Finish,
         loop, ghosts, Thrown, PointsLeft, StepsLeft, StopsLeft, TypeOK
    <3>2. /\ outer' \in {outer, Exit(outer)}
          /\ inner' \in {inner, Exit(inner)}
      BY <2>6 DEF Final, ModelFails, RefuseTool, InvokeTool, ToolFails,
         CancelledInModel, CancelledInTool, CancelRun, FailRun, LeaveExecutor
    <3>3. Slots' <= Slots
      BY <3>2 DEF Slots, Slot, Exit
    <3> QED BY <2>3, <3>1, <3>3 DEF Uses
  <2>7. CASE Swallow
    <3>1. Thrown' < Thrown /\ UNCHANGED <<PointsLeft, StepsLeft, Slots, StopsLeft>>
      BY <2>7 DEF Swallow, loop, Thrown, PointsLeft, Slots, StepsLeft, StopsLeft
    <3> QED BY <2>3, <3>1 DEF Uses
  <2>8. CASE DeadlineExpires \/ ModelTimesOut
    <3>1. Slots' = Slots - 2 /\ UNCHANGED <<PointsLeft, StepsLeft, StopsLeft>>
      BY <2>8 DEF DeadlineExpires, ModelTimesOut, loop, ghosts, Slots, Slot,
         PointsLeft, StepsLeft, StopsLeft
    <3> QED BY <2>3, <3>1 DEF Uses
  <2>9. CASE CallerCancels
    <3>1. StopsLeft' = StopsLeft - 1 /\ UNCHANGED <<PointsLeft, StepsLeft, Slots>>
      BY <1>1, <2>9, AgentAssumption DEF CallerCancels, loop, PointsLeft, Slots,
         StepsLeft, StopsLeft, TypeOK
    <3> QED BY <2>3, <3>1 DEF Uses
  <2> QED
    BY <1>1, <2>4, <2>5, <2>6, <2>7, <2>8, <2>9 DEF Next, Run
<1>2. TypeOK /\ TypeOK' /\ [Next]_vars => [Fuel' \in Nat /\ Fuel' < Fuel]_vars
  BY <1>1
<1> QED BY <1>2, AgentTypes, PTL DEF Spec
=============================================================================
