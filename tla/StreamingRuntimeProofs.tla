----------------------- MODULE StreamingRuntimeProofs -----------------------
(***************************************************************************)
(* Theorems about StreamingRuntime for every deadline, attempt limit,      *)
(* retry delay and number of events and cancellations.                     *)
(***************************************************************************)
EXTENDS StreamingRuntime, TLAPS

----------------------------------------------------------------------------
(* The inductive invariant, by topic.                                      *)

Closing == pc \in {"close", "close_abort", "close_settle"}
Reading == pc \in {"pull", "race", "settle"}

(* A child runs only while the caller's task waits for it, and the timer   *)
(* tells which race is still open.                                         *)
ChildrenInv ==
    /\ reader = "running" => pc \in {"race", "abort"}
    /\ closer = "running" => pc \in {"close", "close_abort"}
    /\ TimerLive => pc \in {"race", "abort", "settle"} \/ Closing
    /\ pc = "race" => timer \in {"armed", "fired"}
    /\ pc = "settle" => timer \in {"cancelling", "stopped"}
    /\ pc = "race" => reader \in {"running"} \cup ReadResults
    /\ pc = "settle" => reader \in ReadResults
    /\ pc = "close" => closer \in {"running", "closed"} \cup SourceErrors
    /\ pc = "close_settle" => closer \in {"closed"} \cup SourceErrors
    /\ Closable /\ sourceOpen => Reading \/ pc = "abort"

(* Which attempt is open, and that nothing was accepted before it.         *)
AttemptInv ==
    /\ \/ opened = attempt
       \/ /\ opened = attempt - 1
          /\ \/ pc \in {"start", "done"}
             \/ pc = "leave" /\ pending = "cancelled"
    /\ pc = "start" => opened = attempt - 1
    /\ pc = "backoff" => attempt < MaxAttempts
    /\ opened > 0 /\ pc = "start" => now >= retryAt
    /\ delivered = accepted
    /\ pc \in {"start", "decide", "backoff"} => accepted = 0
    /\ opened = 0 => accepted = 0 /\ pc \in {"start", "leave", "done"}
    /\ ~committed => accepted <= MaxEvents
    /\ pc \in {"race", "settle"} /\ reader = "event" => accepted < MaxEvents
    /\ pc \in {"race", "settle"} /\ reader = "terminal" => accepted > 0

(* What is in flight at each point.                                        *)
PendingInv ==
    /\ Reading => pending \in {"none", "rate_limited"}
    /\ pc = "start" => pending = IF opened = 0 THEN "none" ELSE "rate_limited"
    /\ pc \in {"decide", "backoff"} => pending = "rate_limited"
    /\ pc = "abort" => pending \in {"timeout", "cancelled"}
    /\ Closing \/ pc = "leave" => pending # "none"
    /\ committed => Closing \/ pc \in {"leave", "done"}
    /\ pending = "commit" => committed
    /\ committed => pending \in {"commit", "cancelled"}
    /\ cleanup # "none" => committed \/ pending = "reject"

(* A cancellation in force is in flight, or met a stream that was already  *)
(* committed or rejected.                                                  *)
CancelInv ==
    /\ heard <= stops
    /\ heard > 0 => pc = "abort" \/ Closing \/ pc \in {"leave", "done"}
    /\ heard > 0 /\ ~committed /\ pending # "reject" => pending = "cancelled"
    /\ pending = "cancelled" => heard > 0
    /\ committed /\ heard > 0 => pc \in {"close_abort", "leave", "done"}
    /\ committed /\ heard = 0 => cleanup # "cancelled" /\ pending = "commit"
    /\ committed /\ heard = 1 => cleanup = "cancelled" /\ pending = "commit"

(* The outcome is set once, by what was in flight.                         *)
OutcomeInv ==
    /\ pc # "done" => outcome = NoOutcome
    /\ pc = "done" =>
        /\ outcome.prefix = accepted
        /\ outcome.kind # "none"
        /\ (outcome.kind = "response") <=> (pending = "commit")
        /\ (outcome.kind = "cancelled") <=> (pending \in {"cancelled", "withdrawn"})
        /\ pending = "reject" => outcome.kind = "protocol"
        /\ outcome.kind \in ClientErrors => accepted = 0
        /\ outcome.kind = "interrupted" => accepted > 0 \/ pending = "interrupted"
        /\ outcome.kind = "protocol" /\ accepted > 0
              => pending \in {"reject", "misreported"}

IInv == TypeOK /\ ChildrenInv /\ AttemptInv /\ PendingInv /\ CancelInv /\ OutcomeInv

Others == ChildrenInv /\ AttemptInv /\ PendingInv /\ CancelInv /\ OutcomeInv

----------------------------------------------------------------------------
(* Every step keeps the inductive invariant.                               *)
LEMMA InductiveStep == IInv /\ [Next]_vars => IInv'
<1> SUFFICES ASSUME IInv, [Next]_vars PROVE IInv'
  OBVIOUS
<1> USE ConstantsAssumption
    DEF IInv, TypeOK, Closing, Reading, Points, Awaits, ReadResults,
        PlainErrors, SourceErrors, StreamErrors, ClientErrors, Carried, Kinds,
        NoOutcome, Result, Finish,
        BeginClose, Replace, Mask, TimerLive, CancelTimer, children, counts,
        cancels
<1>1. CASE ExpireBeforeStream
  BY <1>1 DEF ExpireBeforeStream, ChildrenInv, AttemptInv, PendingInv,
      CancelInv, OutcomeInv
<1>2. CASE OpenStream
  <2>1. CASE pc' = "pull"
    BY <1>2, <2>1 DEF OpenStream, ChildrenInv, AttemptInv, PendingInv,
        CancelInv, OutcomeInv
  <2>2. CASE pc' = "leave"
    BY <1>2, <2>2 DEF OpenStream, ChildrenInv, AttemptInv, PendingInv,
        CancelInv, OutcomeInv
  <2> QED BY <1>2, <2>1, <2>2 DEF OpenStream
<1>3. CASE GiveUpRetrying
  BY <1>3 DEF GiveUpRetrying, ChildrenInv, AttemptInv, PendingInv, CancelInv,
      OutcomeInv
<1>4. CASE PlanRetry
  BY <1>4 DEF PlanRetry, ChildrenInv, AttemptInv, PendingInv, CancelInv,
      OutcomeInv
<1>5. CASE EndBackoff
  BY <1>5 DEF EndBackoff, ChildrenInv, AttemptInv, PendingInv, CancelInv,
      OutcomeInv
<1>6. CASE StartRead
  BY <1>6 DEF StartRead, ChildrenInv, AttemptInv, PendingInv, CancelInv,
      OutcomeInv
<1>7. CASE ExpireBeforeRead
  <2>1. CASE Closable
    <3>1. TypeOK'
      <4>1. sourceOpen' \in BOOLEAN
        BY <1>7, <2>1, Zenon DEF ExpireBeforeRead
      <4> QED
        BY <1>7, <2>1, <4>1 DEF ExpireBeforeRead, AttemptInv
    <3>2. Others'
      BY <1>7, <2>1 DEF Others, ExpireBeforeRead, ChildrenInv, AttemptInv,
          PendingInv, CancelInv, OutcomeInv
    <3> QED BY <3>1, <3>2 DEF Others
  <2>2. CASE ~Closable
    <3>1. TypeOK'
      BY <1>7, <2>2 DEF ExpireBeforeRead, AttemptInv
    <3>2. Others'
      BY <1>7, <2>2 DEF Others, ExpireBeforeRead, ChildrenInv, AttemptInv,
          PendingInv, CancelInv, OutcomeInv
    <3> QED BY <3>1, <3>2 DEF Others
  <2> QED BY <2>1, <2>2
<1>8. CASE LoseRace
  BY <1>8 DEF LoseRace, ChildrenInv, AttemptInv, PendingInv, CancelInv,
      OutcomeInv
<1>9. CASE WinRace
  BY <1>9 DEF WinRace, ChildrenInv, AttemptInv, PendingInv, CancelInv,
      OutcomeInv
<1>10. CASE EndAbort
  <2>1. CASE Closable
    <3>1. TypeOK'
      <4>1. sourceOpen' \in BOOLEAN
        BY <1>10, <2>1, Zenon DEF EndAbort
      <4> QED
        BY <1>10, <2>1, <4>1 DEF EndAbort, PendingInv, AttemptInv
    <3>2. Others'
      BY <1>10, <2>1 DEF Others, EndAbort, ChildrenInv, AttemptInv,
          PendingInv, CancelInv, OutcomeInv
    <3> QED BY <3>1, <3>2 DEF Others
  <2>2. CASE ~Closable
    <3>1. TypeOK'
      BY <1>10, <2>2 DEF EndAbort, PendingInv, AttemptInv
    <3>2. Others'
      BY <1>10, <2>2 DEF Others, EndAbort, ChildrenInv, AttemptInv,
          PendingInv, CancelInv, OutcomeInv
    <3> QED BY <3>1, <3>2 DEF Others
  <2> QED BY <2>1, <2>2
<1>11. CASE AcceptEvent
  BY <1>11 DEF AcceptEvent, ChildrenInv, AttemptInv, PendingInv, CancelInv,
      OutcomeInv
<1>12. CASE Commit
  <2>1. CASE Closable
    <3>1. TypeOK'
      <4>1. sourceOpen' \in BOOLEAN
        BY <1>12, <2>1, Zenon DEF Commit
      <4> QED
        BY <1>12, <2>1, <4>1 DEF Commit, AttemptInv, PendingInv
    <3>2. Others'
      BY <1>12, <2>1 DEF Others, Commit, ChildrenInv, AttemptInv, PendingInv,
          CancelInv, OutcomeInv
    <3> QED BY <3>1, <3>2 DEF Others
  <2>2. CASE ~Closable
    <3>1. TypeOK'
      BY <1>12, <2>2 DEF Commit, AttemptInv, PendingInv
    <3>2. Others'
      BY <1>12, <2>2 DEF Others, Commit, ChildrenInv, AttemptInv, PendingInv,
          CancelInv, OutcomeInv
    <3> QED BY <3>1, <3>2 DEF Others
  <2> QED BY <2>1, <2>2
<1>13. CASE StopReading
  <2>1. CASE Closable
    <3>1. TypeOK'
      <4>1. sourceOpen' \in BOOLEAN
        BY <1>13, <2>1, Zenon DEF StopReading
      <4> QED
        BY <1>13, <2>1, <4>1 DEF StopReading, ChildrenInv, AttemptInv
    <3>2. Others'
      BY <1>13, <2>1 DEF Others, StopReading, ChildrenInv, AttemptInv,
          PendingInv, CancelInv, OutcomeInv
    <3> QED BY <3>1, <3>2 DEF Others
  <2>2. CASE ~Closable
    <3>1. TypeOK'
      BY <1>13, <2>2 DEF StopReading, ChildrenInv, AttemptInv
    <3>2. Others'
      BY <1>13, <2>2 DEF Others, StopReading, ChildrenInv, AttemptInv,
          PendingInv, CancelInv, OutcomeInv
    <3> QED BY <3>1, <3>2 DEF Others
  <2> QED BY <2>1, <2>2
<1>14. CASE CloseExpires
  BY <1>14 DEF CloseExpires, ChildrenInv, AttemptInv, PendingInv, CancelInv,
      OutcomeInv
<1>15. CASE CloseReturns
  BY <1>15 DEF CloseReturns, ChildrenInv, AttemptInv, PendingInv, CancelInv,
      OutcomeInv
<1>16. CASE EndCloseAbort
  BY <1>16 DEF EndCloseAbort, ChildrenInv, AttemptInv, PendingInv, CancelInv,
      OutcomeInv
<1>17. CASE EndCloseSettle
  BY <1>17 DEF EndCloseSettle, ChildrenInv, AttemptInv, PendingInv, CancelInv,
      OutcomeInv
<1>18. CASE Leave
  BY <1>18 DEF Leave, Leaving, ChildrenInv, AttemptInv, PendingInv, CancelInv,
      OutcomeInv
<1>19. CASE CallerCancels
  BY <1>19 DEF CallerCancels, CancelWhileReading, CancelWhileClosing,
      CancelWhileWaiting, ChildrenInv, AttemptInv, PendingInv, CancelInv,
      OutcomeInv
<1>20. CASE SourceAnswers
  BY <1>20 DEF SourceAnswers, ChildrenInv, AttemptInv, PendingInv, CancelInv,
      OutcomeInv
<1>21. CASE SourceCloses
  BY <1>21 DEF SourceCloses, ChildrenInv, AttemptInv, PendingInv, CancelInv,
      OutcomeInv
<1>22. CASE ReaderStops
  BY <1>22 DEF ReaderStops, ChildrenInv, AttemptInv, PendingInv, CancelInv,
      OutcomeInv
<1>23. CASE CloserStops
  BY <1>23 DEF CloserStops, ChildrenInv, AttemptInv, PendingInv, CancelInv,
      OutcomeInv
<1>24. CASE TimerFires
  BY <1>24 DEF TimerFires, ChildrenInv, AttemptInv, PendingInv, CancelInv,
      OutcomeInv
<1>25. CASE TimerStops
  BY <1>25 DEF TimerStops, ChildrenInv, AttemptInv, PendingInv, CancelInv,
      OutcomeInv
<1>26. CASE Tick
  BY <1>26 DEF Tick, ChildrenInv, AttemptInv, PendingInv, CancelInv,
      OutcomeInv
<1>27. CASE UNCHANGED vars
  BY <1>27 DEF vars, ChildrenInv, AttemptInv, PendingInv, CancelInv,
      OutcomeInv
<1> QED BY <1>1, <1>2, <1>3, <1>4, <1>5, <1>6, <1>7, <1>8, <1>9, <1>10, <1>11,
    <1>12, <1>13, <1>14, <1>15, <1>16, <1>17, <1>18, <1>19, <1>20, <1>21,
    <1>22, <1>23, <1>24, <1>25, <1>26, <1>27 DEF Next, Collect, Environment

LEMMA InitiallyInv == Init => IInv
<1> SUFFICES ASSUME Init PROVE IInv
  OBVIOUS
<1> USE ConstantsAssumption
    DEF Init, Closing, Reading, Points, Awaits, ReadResults, PlainErrors,
        SourceErrors, StreamErrors, ClientErrors, Carried, Kinds, NoOutcome, TimerLive
<1>1. TypeOK
  <2>1. sourceOpen \in BOOLEAN /\ committed \in BOOLEAN
    BY Zenon
  <2> QED BY <2>1 DEF TypeOK
<1>2. ChildrenInv /\ AttemptInv
  BY DEF ChildrenInv, AttemptInv
<1>3. PendingInv /\ CancelInv /\ OutcomeInv
  BY DEF PendingInv, CancelInv, OutcomeInv
<1> QED BY <1>1, <1>2, <1>3 DEF IInv

(* The strengthening holds in every reachable state.                       *)
THEOREM Invariance == Spec => []IInv
  BY InitiallyInv, InductiveStep, PTL DEF Spec

----------------------------------------------------------------------------
(* Every variable keeps its type: in particular no attempt is numbered     *)
(* beyond RateLimitRetryPolicy.max_attempts.                               *)
THEOREM TypeCorrectness == Spec => []TypeOK
<1>1. IInv => TypeOK
  BY DEF IInv
<1> QED BY <1>1, Invariance, PTL

(* No event of an earlier attempt is ever part of what the caller is given.*)
THEOREM NeverRetriedAfterEvent == Spec => []NoRetryAfterEvent
<1>1. IInv => NoRetryAfterEvent
  BY DEF IInv, AttemptInv, NoRetryAfterEvent
<1> QED BY <1>1, Invariance, PTL

(* No child task outlives the await that owns it, and a source is never    *)
(* read and closed at the same time.                                       *)
THEOREM ChildrenAreSettled == Spec => []ChildrenSettled
<1>1. IInv => ChildrenSettled
  BY DEF IInv, ChildrenInv, ChildrenSettled, Closing
<1> QED BY <1>1, Invariance, PTL

(* No source is left open when the operation waits, retries or ends.       *)
THEOREM SourcesAreReleased == Spec => []SourceReleased
<1>1. IInv => SourceReleased
  BY DEF IInv, ChildrenInv, SourceReleased, Reading
<1> QED BY <1>1, Invariance, PTL

(* A cancellation whose cleanup did not fail ends as CancelledError.       *)
THEOREM CancellationIsHeard == Spec => []CancellationHeard
<1>1. IInv => CancellationHeard
  BY DEF IInv, CancelInv, OutcomeInv, CancellationHeard
<1> QED BY <1>1, Invariance, PTL

(* A validated response survives its cleanup and one cancellation.         *)
THEOREM CommitSurvivesCleanup == Spec => []CommitSurvives
<1>1. IInv => CommitSurvives
  BY DEF IInv, TypeOK, CancelInv, OutcomeInv, CommitSurvives
<1> QED BY <1>1, Invariance, PTL

(* What the caller is told about the accepted events is what happened.     *)
THEOREM PrefixIsReported == Spec => []PrefixReported
<1>1. IInv => PrefixReported
  BY DEF IInv, PendingInv, OutcomeInv, PrefixReported
<1> QED BY <1>1, Invariance, PTL

----------------------------------------------------------------------------
(* An event is accepted only from a read that beat the deadline.           *)
THEOREM DeadlineAlwaysWinsTie == Spec => DeadlineWinsTie
<1>1. IInv /\ [Next]_vars => [delivered' > delivered => timer = "stopped"]_vars
  <2> SUFFICES ASSUME IInv, Next, delivered' > delivered
               PROVE  timer = "stopped"
    BY DEF vars
  <2>1. AcceptEvent \/ Commit
    BY DEF IInv, TypeOK, Next, Collect, Environment, counts, ExpireBeforeStream,
           OpenStream, GiveUpRetrying, PlanRetry, EndBackoff, StartRead,
           ExpireBeforeRead, LoseRace, WinRace, EndAbort, StopReading,
           CloseExpires, CloseReturns, EndCloseAbort, EndCloseSettle, Leave,
           CallerCancels, SourceAnswers, SourceCloses, ReaderStops,
           CloserStops, TimerFires, TimerStops, Tick
  <2> QED BY <2>1 DEF AcceptEvent, Commit, IInv, ChildrenInv, TimerLive
<1> QED BY <1>1, Invariance, PTL DEF Spec, DeadlineWinsTie

(* An attempt is opened in time, for a caller whose cancellation is not in *)
(* force, and a further one only after an early 429 and its delay.         *)
THEOREM AttemptsAreJustified == Spec => AttemptJustified
<1> DEFINE Justified ==
      /\ now < Deadline /\ heard = 0
      /\ opened > 0 => /\ pending = "rate_limited" /\ delivered = 0
                       /\ now >= retryAt
<1>1. IInv /\ [Next]_vars => [opened' > opened => Justified]_vars
  <2> SUFFICES ASSUME IInv, Next, opened' > opened
               PROVE  Justified
    BY DEF vars
  <2>1. OpenStream
    BY DEF IInv, TypeOK, Next, Collect, Environment, counts, ExpireBeforeStream,
           GiveUpRetrying, PlanRetry, EndBackoff, StartRead, AcceptEvent,
           Commit, ExpireBeforeRead, LoseRace, WinRace, EndAbort, StopReading,
           CloseExpires, CloseReturns, EndCloseAbort, EndCloseSettle, Leave,
           CallerCancels, SourceAnswers, SourceCloses, ReaderStops,
           CloserStops, TimerFires, TimerStops, Tick
  <2> QED BY <2>1 DEF OpenStream, IInv, TypeOK, AttemptInv, PendingInv,
                      CancelInv, Closing
<1> QED BY <1>1, Invariance, PTL DEF Spec, AttemptJustified

----------------------------------------------------------------------------
(* The operation the caller was promised is implemented on every path:     *)
(* most steps of the runtime are invisible at that level, the others open, *)
(* accept, reject, cancel, let a cleanup failure replace a cancellation,   *)
(* or finish.                                                              *)
THEOREM Refinement == Spec => ImplementsOperation
<1> USE DEF Operation!vars, Operation!Running, Operation!NoOutcome, NoOutcome,
            counts, children, cancels
<1>1. Init => Operation!Init
  BY DEF Init, Operation!Init, Fault, Claims
<1>2. ASSUME IInv, [Next]_vars
      PROVE  Operation!Next \/ UNCHANGED Operation!vars
  <2> USE DEF IInv, TypeOK, Closing, Reading, PlainErrors, SourceErrors,
              StreamErrors, Claims, Fault
  <2>1. CASE StartRead
    BY <1>2, <2>1 DEF StartRead, PendingInv
  <2>2. CASE ExpireBeforeRead
    BY <1>2, <2>2 DEF ExpireBeforeRead, BeginClose, PendingInv
  <2>3. CASE LoseRace
    BY <1>2, <2>3 DEF LoseRace, PendingInv, ChildrenInv
  <2>4. CASE WinRace
    BY <1>2, <2>4 DEF WinRace
  <2>5. CASE EndAbort
    BY <1>2, <2>5 DEF EndAbort, BeginClose, PendingInv
  <2>6. CASE CloseReturns
    BY <1>2, <2>6 DEF CloseReturns
  <2>7. CASE EndCloseAbort
    BY <1>2, <2>7 DEF EndCloseAbort
  <2>8. CASE SourceAnswers
    BY <1>2, <2>8 DEF SourceAnswers
  <2>9. CASE SourceCloses
    BY <1>2, <2>9 DEF SourceCloses
  <2>10. CASE ReaderStops
    BY <1>2, <2>10 DEF ReaderStops
  <2>11. CASE CloserStops
    BY <1>2, <2>11 DEF CloserStops
  <2>12. CASE TimerFires
    BY <1>2, <2>12 DEF TimerFires
  <2>13. CASE TimerStops
    BY <1>2, <2>13 DEF TimerStops
  <2>14. CASE Tick
    BY <1>2, <2>14 DEF Tick
  <2>15. CASE OpenStream
    <3>1. heard = 0 /\ delivered = 0 /\ ~committed /\ attempt <= MaxAttempts
          /\ opened = attempt - 1 /\ outcome = NoOutcome
      BY <1>2, <2>15 DEF OpenStream, AttemptInv, PendingInv, CancelInv, OutcomeInv
    <3>2. /\ pending # "reject" /\ pending' # "reject"
          /\ Fault = "none" /\ Fault' \in {"none", "withdrawn", "claimed"}
      BY <1>2, <2>15 DEF OpenStream, PendingInv
    <3>3. (pending' = "reject") = (pending = "reject")
      BY <3>2, Zenon
    <3>4. /\ UNCHANGED <<delivered, committed, heard, outcome>>
          /\ opened' = opened + 1
          /\ opened < MaxAttempts
      <4>1. UNCHANGED <<delivered, committed, heard, outcome>>
            /\ opened' = opened + 1
        BY <2>15, Zenon DEF OpenStream
      <4> QED BY <1>2, <3>1, <4>1, ConstantsAssumption
    <3> HIDE DEF IInv, TypeOK, Fault
    <3>5. Operation!Open
      BY <3>1, <3>2, <3>3, <3>4, Zenon DEF Operation!Open
    <3> QED BY <3>5, Zenon DEF Operation!Next
  <2>16. CASE AcceptEvent
    <3>1. committed' \in BOOLEAN
      BY <1>2, <2>16, Zenon DEF AcceptEvent
    <3>2. opened > 0 /\ heard = 0 /\ ~committed /\ pending # "reject"
          /\ Fault = "none" /\ Fault' = Fault
      BY <1>2, <2>16 DEF AcceptEvent, AttemptInv, PendingInv, CancelInv
    <3> HIDE DEF Fault
    <3> QED
      BY <1>2, <2>16, <3>1, <3>2
         DEF AcceptEvent, Operation!Accept, Operation!Next, OutcomeInv
  <2>17. CASE Commit
    <3>1. committed' \in BOOLEAN
      BY <1>2, <2>17, Zenon DEF Commit
    <3>2. opened > 0 /\ heard = 0 /\ ~committed /\ pending # "reject"
          /\ Fault = "none"
      BY <1>2, <2>17 DEF Commit, AttemptInv, PendingInv, CancelInv
    <3>3. delivered > 0 /\ pending' # "reject" /\ Fault' = "none"
      BY <1>2, <2>17 DEF Commit, BeginClose, AttemptInv
    <3>4. (pending' = "reject") = (pending = "reject")
      BY <3>2, <3>3, Zenon
    <3>5. UNCHANGED <<opened, heard, outcome>> /\ delivered' = delivered + 1
          /\ outcome = NoOutcome
      BY <1>2, <2>17 DEF Commit, OutcomeInv
    <3> HIDE DEF IInv, TypeOK, Fault
    <3>6. Operation!Accept
      BY <3>1, <3>2, <3>3, <3>4, <3>5, Zenon DEF Operation!Accept
    <3> QED BY <3>6, Zenon DEF Operation!Next
  <2>18. CASE StopReading
    <3>1. /\ UNCHANGED <<opened, delivered, committed, heard, outcome>>
          /\ opened > 0 /\ heard = 0 /\ ~committed /\ outcome = NoOutcome
          /\ pending # "reject" /\ Fault = "none"
      BY <1>2, <2>18 DEF StopReading, BeginClose, AttemptInv, PendingInv,
             CancelInv, OutcomeInv
    <3>2. pending' \in {"reject", "eof"} \cup SourceErrors
      BY <1>2, <2>18 DEF StopReading, BeginClose, ReadResults, ChildrenInv
    <3>3. CASE pending' = "reject"
      <4>1. Fault' = "none"
        BY <3>3
      <4> HIDE DEF Fault, IInv, TypeOK
      <4> QED BY <3>1, <3>3, <4>1 DEF Operation!Reject, Operation!Next
    <3>4. CASE pending' # "reject"
      <4>1. Fault' \in {"none", "withdrawn", "interrupted", "misreported"}
        BY <3>2, <3>4
      <4> HIDE DEF Fault, IInv, TypeOK
      <4> QED BY <3>1, <3>4, <4>1 DEF Operation!Fail, Operation!Next
    <3> QED BY <3>3, <3>4
  <2>19. CASE CallerCancels
    <3>1. /\ UNCHANGED <<opened, delivered, committed, outcome>>
          /\ heard' = heard + 1 /\ outcome = NoOutcome
      BY <1>2, <2>19 DEF CallerCancels, CancelWhileReading, CancelWhileClosing,
             CancelWhileWaiting, OutcomeInv
    <3>2. Fault' = "none" /\ ((pending' = "reject") <=> (pending = "reject"))
      BY <1>2, <2>19 DEF CallerCancels, CancelWhileReading, CancelWhileClosing,
             CancelWhileWaiting, Replace, PendingInv
    <3>3. (pending' = "reject") = (pending = "reject")
      BY <3>2, Zenon
    <3> HIDE DEF Fault, IInv, TypeOK
    <3> QED BY <3>1, <3>2, <3>3 DEF Operation!Cancel, Operation!Next
  <2>20. CASE CloseExpires \/ EndCloseSettle
    <3>1. /\ UNCHANGED <<opened, delivered, committed, outcome>>
          /\ opened > 0 /\ outcome = NoOutcome
      BY <1>2, <2>20 DEF CloseExpires, EndCloseSettle, AttemptInv, OutcomeInv
    <3>2. CASE UNCHANGED <<pending, heard>>
      BY <3>1, <3>2
    <3>3. CASE ~UNCHANGED <<pending, heard>>
      <4>1. pending \notin {"commit", "reject"}
        BY <1>2, <2>20, <3>3 DEF CloseExpires, EndCloseSettle, Replace, Mask
      <4>2. ~committed /\ pending' \in {"timeout"} \cup SourceErrors
        BY <1>2, <2>20, <3>3, <4>1 DEF CloseExpires, EndCloseSettle, Replace,
               ChildrenInv, PendingInv, CancelInv
      <4>3. heard' = 0
        BY <1>2, <2>20, <3>3, <4>1, <4>2 DEF CloseExpires, EndCloseSettle, Mask,
               CancelInv
      <4>4. Fault' \in {"none", "withdrawn", "interrupted", "misreported"}
        BY <4>2
      <4>5. (pending' = "reject") = (pending = "reject")
        BY <4>1, <4>2, Zenon
      <4> HIDE DEF Fault, IInv, TypeOK
      <4> QED BY <3>1, <4>1, <4>2, <4>3, <4>4, <4>5
              DEF Operation!Fail, Operation!Next
    <3> QED BY <3>2, <3>3
  <2>22. CASE ExpireBeforeStream
    BY <1>2, <2>22 DEF ExpireBeforeStream, Finish, Result, Operation!Finish,
           Operation!Ending, Operation!Next, AttemptInv, PendingInv,
           CancelInv, OutcomeInv
  <2>23. CASE GiveUpRetrying
    BY <1>2, <2>23 DEF GiveUpRetrying, Finish, Result, Operation!Finish,
           Operation!Ending, Operation!Next, AttemptInv, PendingInv,
           CancelInv, OutcomeInv
  <2>24. CASE PlanRetry
    BY <1>2, <2>24 DEF PlanRetry, Finish, Result, Operation!Finish,
           Operation!Ending, Operation!Next, AttemptInv, PendingInv,
           CancelInv, OutcomeInv
  <2>25. CASE EndBackoff
    BY <1>2, <2>25 DEF EndBackoff, Finish, Result, Operation!Finish,
           Operation!Ending, Operation!Next, AttemptInv, PendingInv,
           CancelInv, OutcomeInv
  <2>26. CASE Leave
    <3>1. /\ UNCHANGED <<opened, delivered, committed, heard, pending>>
          /\ delivered = accepted /\ outcome = NoOutcome /\ pending \in Carried
      BY <1>2, <2>26 DEF Leave, AttemptInv, PendingInv, OutcomeInv, Carried
    <3>2. CASE UNCHANGED outcome
      BY <3>1, <3>2
    <3>3. CASE ~UNCHANGED outcome
      <4>1. outcome' = Leaving /\ ~(pending = "rate_limited" /\ accepted = 0)
        BY <2>26, <3>3 DEF Leave, Finish
      <4>2. outcome'.prefix = delivered
        BY <3>1, <4>1 DEF Leaving, Result
      <4>3. outcome'.kind \in Operation!Ending
        <5>1. CASE committed
          <6>1. \/ pending = "commit" /\ outcome'.kind = "response"
                \/ pending = "cancelled" /\ outcome'.kind = "cancelled"
            BY <1>2, <3>1, <4>1, <5>1 DEF Leaving, Result, ClientErrors, PendingInv
          <6>2. pending = "cancelled" => heard > 1
            BY <1>2, <5>1 DEF CancelInv
          <6> HIDE DEF Fault, IInv, TypeOK
          <6> QED BY <5>1, <6>1, <6>2 DEF Operation!Ending
        <5>2. CASE ~committed /\ pending \in {"reject", "cancelled", "withdrawn"}
          <6>1. outcome'.kind = IF pending = "reject" THEN "protocol"
                                                     ELSE "cancelled"
            BY <3>1, <4>1, <5>2 DEF Leaving, Result, ClientErrors
          <6>2. pending = "cancelled" => heard > 0
            BY <1>2 DEF CancelInv
          <6>3. pending = "withdrawn" => heard = 0 /\ Fault = "withdrawn"
            BY <1>2, <2>26, <5>2 DEF CancelInv, Leave
          <6> HIDE DEF Fault, IInv, TypeOK
          <6> QED BY <5>2, <6>1, <6>2, <6>3
                  DEF Operation!Ending, Operation!EndOf
        <5>3. CASE ~committed /\ pending \in {"interrupted", "misreported", "claimed"}
          BY <1>2, <2>26, <3>1, <4>1, <5>3
             DEF Leaving, Result, Operation!Ending, Operation!EndOf, PendingInv,
                 CancelInv, ClientErrors
        <5>4. CASE ~committed /\ pending \in {"commit", "eof", "timeout"}
                                             \cup PlainErrors
          BY <1>2, <2>26, <3>1, <4>1, <5>4
             DEF Leaving, Result, Operation!Ending, PendingInv, CancelInv,
                 ClientErrors
        <5> QED BY <3>1, <5>1, <5>2, <5>3, <5>4 DEF Carried
      <4>4. Fault' = Fault /\ (pending' = "reject") = (pending = "reject")
        BY <3>1
      <4>5. /\ Operation!Running
            /\ [kind |-> outcome.kind, prefix |-> outcome.prefix]' =
                  [kind |-> outcome'.kind, prefix |-> delivered]
        BY <3>1, <4>2
      <4> HIDE DEF Fault, IInv, TypeOK
      <4> QED BY <3>1, <4>3, <4>4, <4>5 DEF Operation!Finish, Operation!Next
    <3> QED BY <3>2, <3>3
  <2>27. CASE UNCHANGED vars
    BY <1>2, <2>27 DEF vars
  <2> QED BY <1>2, <2>1, <2>2, <2>3, <2>4, <2>5, <2>6, <2>7, <2>8, <2>9,
         <2>10, <2>11, <2>12, <2>13, <2>14, <2>15, <2>16, <2>17, <2>18, <2>19,
         <2>20, <2>22, <2>23, <2>24, <2>25, <2>26, <2>27 DEF Next,
         Collect, Environment
<1> QED BY <1>1, <1>2, Invariance, PTL
          DEF Spec, ImplementsOperation, Operation!Spec
=============================================================================
