-------------------------- MODULE StreamingRuntime --------------------------
(***************************************************************************)
(* One call of StreamingRuntime.collect (module_01_streaming_cancellation) *)
(* together with the collect_stream it awaits (module_01_provider_contract)*)
(* The operation runs in the caller's asyncio task and, at every suspension*)
(* point, beside up to two child tasks: one that reads from or closes the  *)
(* source, and one that waits for the absolute deadline.  The environment  *)
(* is the source (it may answer, fail, hang, and take its time to honour a *)
(* cancellation), the clock, and the caller, who may cancel at any await.  *)
(* Statements between two awaits run in one turn of the event loop; only   *)
(* the clock may move between them.                                        *)
(***************************************************************************)
EXTENDS Integers

CONSTANTS
    Deadline,       \* Deadline.at
    MaxAttempts,    \* RateLimitRetryPolicy.max_attempts
    FallbackDelay,  \* RateLimitRetryPolicy.fallback_delay_s
    RetryHints,     \* the Retry-After values a 429 may carry
    NoHint,         \* a 429 without Retry-After
    Closable,       \* whether the source has an aclose method
    MaxEvents,      \* bound: events the source offers in one attempt
    MaxStops,       \* bound: how often the caller cancels
    Horizon         \* bound: the last instant of the clock

ASSUME ConstantsAssumption ==
    /\ Deadline \in Nat
    /\ MaxAttempts \in Nat \ {0}
    /\ FallbackDelay \in Nat
    /\ RetryHints \subseteq Nat
    /\ NoHint \notin Nat
    /\ Closable \in BOOLEAN
    /\ MaxEvents \in Nat
    /\ MaxStops \in Nat
    /\ Horizon \in Nat
    /\ Deadline < Horizon

VARIABLES
    now,        \* time.now()
    pc,         \* where the caller's task is, see Points
    attempt,    \* attempt_number
    opened,     \* calls of client.stream so far
    sourceOpen, \* a source was obtained and its aclose not yet invoked
    reader,     \* event_task: idle, running, stopped, or its result
    timer,      \* deadline_task: idle, armed, cancelling, fired, stopped
    closer,     \* close_task: idle, running, stopped, or its result
    pending,    \* the exception or the request the closing generator carries
    accepted,   \* len(events) of the current attempt
    delivered,  \* ghost: events accepted over the whole operation
    committed,  \* terminal is not None
    stops,      \* ghost: cancellations delivered to the task
    heard,      \* ghost: those of them no cleanup failure has replaced
    cleanup,    \* cleanup_error, or the note added to a failure
    retryAt,    \* retry_at
    outcome     \* what collect returns or raises

vars == <<now, pc, attempt, opened, sourceOpen, reader, timer, closer, pending,
          accepted, delivered, committed, stops, heard, cleanup, retryAt,
          outcome>>

children == <<reader, timer, closer>>
counts == <<attempt, opened, accepted, delivered, committed>>
cancels == <<stops, heard>>

----------------------------------------------------------------------------
(* Points of the caller's task.  It is suspended at Awaits and, before its *)
(* first turn, at "start"; at the other points it is running.              *)
Awaits == {"race", "abort", "settle", "close", "close_abort", "close_settle",
           "backoff"}
Points == Awaits \cup {"start", "pull", "leave", "decide", "done"}

(* What a source, its aclose or client.stream may raise.  Besides errors   *)
(* of their own: withdrawn is a CancelledError although nobody cancelled;  *)
(* interrupted and misreported are a ModelStreamInterrupted with exactly   *)
(* the accepted events and with others; claimed is one that client.stream  *)
(* raises, which nobody compares.                                          *)
ClientErrors == {"rate_limited", "client_error", "timeout"}
PlainErrors == {"rate_limited", "client_error", "raw_error"}
SourceErrors == PlainErrors \cup {"withdrawn", "interrupted", "misreported"}
StreamErrors == PlainErrors \cup {"withdrawn", "claimed"}
Claims == {"withdrawn", "interrupted", "misreported", "claimed"}
ReadResults == {"event", "terminal", "invalid", "eof"} \cup SourceErrors
Carried == {"commit", "reject", "eof", "cancelled", "timeout"}
           \cup SourceErrors \cup StreamErrors
Kinds == {"response", "cancelled", "timeout", "rate_limited", "client_error",
          "raw_error", "protocol", "interrupted", "claimed"}

NoOutcome == [kind |-> "none", cause |-> "none", prefix |-> 0]
Result(kind, cause) == [kind |-> kind, cause |-> cause, prefix |-> accepted]

TimerLive == timer \in {"armed", "cancelling"}

(* task.cancel() on a child: a child that is already done is left alone.   *)
CancelTimer == timer' = IF timer = "armed" THEN "cancelling" ELSE timer

DelayFor(hint) ==
    IF hint = NoHint THEN FallbackDelay * 2^(attempt - 1) ELSE hint

----------------------------------------------------------------------------
Init ==
    /\ now \in 0..Deadline
    /\ pc = "start"
    /\ attempt = 1
    /\ opened = 0
    /\ sourceOpen = FALSE
    /\ reader = "idle" /\ timer = "idle" /\ closer = "idle"
    /\ pending = "none"
    /\ accepted = 0
    /\ delivered = 0
    /\ committed = FALSE
    /\ stops = 0
    /\ heard = 0
    /\ cleanup = "none"
    /\ retryAt = 0
    /\ outcome = NoOutcome

Finish(result) ==
    /\ pc' = "done"
    /\ outcome' = result

(* The generator's finally clause: it starts aclose beside a fresh wait    *)
(* for the same deadline, or is done at once if there is nothing to close. *)
BeginClose(what) ==
    /\ pending' = what
    /\ IF Closable
       THEN /\ pc' = "close"
            /\ sourceOpen' = FALSE
            /\ closer' = "running"
            /\ timer' = "armed"
       ELSE /\ pc' = "leave"
            /\ UNCHANGED <<sourceOpen, closer, timer>>

----------------------------------------------------------------------------
(* The retry loop of collect.                                              *)
ExpireBeforeStream ==
    /\ pc = "start"
    /\ now >= Deadline
    /\ Finish(Result("timeout", "before_stream"))
    /\ UNCHANGED <<now, counts, sourceOpen, children, pending, cancels, cleanup,
                   retryAt>>

OpenStream ==
    /\ pc = "start"
    /\ now < Deadline
    /\ opened' = opened + 1
    /\ accepted' = 0
    /\ \/ /\ pc' = "pull"
          /\ sourceOpen' = TRUE
          /\ UNCHANGED pending
       \/ \E e \in StreamErrors :  \* client.stream itself raises
             /\ pc' = "leave"
             /\ pending' = e
             /\ UNCHANGED sourceOpen
    /\ UNCHANGED <<now, attempt, children, delivered, committed, cancels, cleanup,
                   retryAt, outcome>>

GiveUpRetrying ==
    /\ pc = "decide"
    /\ attempt >= MaxAttempts
    /\ Finish(Result("rate_limited", "none"))
    /\ UNCHANGED <<now, counts, sourceOpen, children, pending, cancels, cleanup,
                   retryAt>>

PlanRetry ==
    /\ pc = "decide"
    /\ attempt < MaxAttempts
    /\ \E hint \in RetryHints \cup {NoHint} :
          \/ /\ now + DelayFor(hint) >= Deadline
             /\ Finish(Result("timeout", "retry_wait"))
             /\ UNCHANGED retryAt
          \/ /\ retryAt' = now + DelayFor(hint)
             /\ retryAt' \in 0..Deadline - 1
             /\ pc' = "backoff"
             /\ UNCHANGED outcome
    /\ UNCHANGED <<now, counts, sourceOpen, children, pending, cancels, cleanup>>

EndBackoffAtOnce ==  \* mutant: the wait for retry_at is not awaited
    /\ pc = "backoff"
    /\ attempt' = attempt + 1
    /\ pc' = "start"
    /\ UNCHANGED <<now, opened, sourceOpen, children, pending, accepted,
                   delivered, committed, cancels, cleanup, retryAt, outcome>>

EndBackoff ==
    /\ pc = "backoff"
    /\ now >= retryAt
    /\ \/ /\ now >= Deadline
          /\ Finish(Result("timeout", "retry_wait"))
          /\ UNCHANGED attempt
       \/ /\ now < Deadline
          /\ attempt' = attempt + 1
          /\ pc' = "start"
          /\ UNCHANGED outcome
    /\ UNCHANGED <<now, opened, sourceOpen, children, pending, accepted,
                   delivered, committed, cancels, cleanup, retryAt>>

----------------------------------------------------------------------------
(* One read: event_task races deadline_task.                               *)
StartRead ==
    /\ pc = "pull"
    /\ now < Deadline
    /\ pc' = "race"
    /\ reader' = "running"
    /\ timer' = "armed"
    /\ UNCHANGED <<now, counts, sourceOpen, closer, pending, cancels, cleanup,
                   retryAt, outcome>>

ExpireBeforeRead ==
    /\ pc = "pull"
    /\ now >= Deadline
    /\ BeginClose("timeout")
    /\ UNCHANGED <<now, counts, reader, cancels, cleanup, retryAt, outcome>>

(* The reader wakes and finds the deadline among the finished tasks: the   *)
(* deadline wins, whatever the source has answered.                        *)
LoseRace ==
    /\ pc = "race"
    /\ timer = "fired"
    /\ pc' = "abort"
    /\ pending' = "timeout"
    /\ UNCHANGED <<now, counts, sourceOpen, children, cancels, cleanup, retryAt,
                   outcome>>

WinRaceFirst ==  \* mutant: the event is looked for before the deadline
    /\ pc = "race"
    /\ reader # "running"
    /\ pc' = "settle"
    /\ CancelTimer
    /\ UNCHANGED <<now, counts, sourceOpen, reader, closer, pending, cancels,
                   cleanup, retryAt, outcome>>

WinRace ==
    /\ pc = "race"
    /\ timer # "fired"
    /\ reader # "running"
    /\ pc' = "settle"
    /\ CancelTimer
    /\ UNCHANGED <<now, counts, sourceOpen, reader, closer, pending, cancels,
                   cleanup, retryAt, outcome>>

EndAbortAtOnce ==  \* mutant: the cancelled children are not awaited
    /\ pc = "abort"
    /\ BeginClose(pending)
    /\ UNCHANGED <<now, counts, reader, cancels, cleanup, retryAt, outcome>>

(* Both children have ended: the timeout or the cancellation goes on to    *)
(* the generator's finally clause.                                         *)
EndAbort ==
    /\ pc = "abort"
    /\ reader # "running"
    /\ ~TimerLive
    /\ BeginClose(pending)
    /\ UNCHANGED <<now, counts, reader, cancels, cleanup, retryAt, outcome>>

(* The event reaches _collect_stream, which validates it before it counts. *)
AcceptEvent ==
    /\ pc = "settle"
    /\ ~TimerLive
    /\ reader = "event"
    /\ accepted' = accepted + 1
    /\ delivered' = delivered + 1
    /\ pc' = "pull"
    /\ UNCHANGED <<now, attempt, opened, sourceOpen, children, pending,
                   committed, cancels, cleanup, retryAt, outcome>>

Commit ==
    /\ pc = "settle"
    /\ ~TimerLive
    /\ reader = "terminal"
    /\ accepted' = accepted + 1
    /\ delivered' = delivered + 1
    /\ committed' = TRUE
    /\ BeginClose("commit")
    /\ UNCHANGED <<now, attempt, opened, reader, cancels, cleanup, retryAt,
                   outcome>>

StopReadingUnclosed ==  \* mutant: the generator has no finally clause
    /\ pc = "settle"
    /\ ~TimerLive
    /\ reader \notin {"event", "terminal"}
    /\ pending' = IF reader = "invalid" THEN "reject" ELSE reader
    /\ pc' = "leave"
    /\ UNCHANGED <<now, counts, sourceOpen, children, cancels, cleanup, retryAt,
                   outcome>>

(* A lifecycle violation, the end of the source, or its failure.           *)
StopReading ==
    /\ pc = "settle"
    /\ ~TimerLive
    /\ reader \notin {"event", "terminal"}
    /\ BeginClose(IF reader = "invalid" THEN "reject" ELSE reader)
    /\ UNCHANGED <<now, counts, reader, cancels, cleanup, retryAt, outcome>>

----------------------------------------------------------------------------
(* Closing: close_task races deadline_task, and close_task wins a tie.     *)
(* What goes wrong meanwhile replaces the exception in flight, unless the  *)
(* collector closes a stream it has committed or rejected.                 *)
Replace(problem) ==
    IF pending \in {"commit", "reject"}
    THEN cleanup' = problem /\ UNCHANGED pending
    ELSE pending' = problem /\ UNCHANGED cleanup

(* A cancellation in flight is forgotten when a cleanup failure replaces it. *)
Mask == heard' = IF pending = "cancelled" THEN 0 ELSE heard

CloseExpiresNever ==  \* mutant: aclose is awaited without the deadline
    FALSE /\ UNCHANGED vars

CloseExpires ==
    /\ pc = "close"
    /\ closer = "running"
    /\ timer = "fired"
    /\ pc' = "close_abort"
    /\ Replace("timeout")
    /\ Mask
    /\ UNCHANGED <<now, counts, sourceOpen, children, stops, retryAt, outcome>>

CloseReturns ==
    /\ pc = "close"
    /\ closer # "running"
    /\ pc' = "close_settle"
    /\ CancelTimer
    /\ UNCHANGED <<now, counts, sourceOpen, reader, closer, pending, cancels,
                   cleanup, retryAt, outcome>>

EndCloseAbort ==
    /\ pc = "close_abort"
    /\ closer # "running"
    /\ ~TimerLive
    /\ pc' = "leave"
    /\ UNCHANGED <<now, counts, sourceOpen, children, pending, cancels, cleanup,
                   retryAt, outcome>>

EndCloseSettle ==
    /\ pc = "close_settle"
    /\ ~TimerLive
    /\ pc' = "leave"
    /\ IF closer = "closed" THEN UNCHANGED <<pending, cleanup, heard>>
       ELSE Replace(closer) /\ Mask
    /\ UNCHANGED <<now, counts, sourceOpen, children, stops, retryAt, outcome>>

LeavingUnchecked ==  \* mutant: an interruption is passed on as the source wrote it
    CASE pending = "commit" -> Result("response", "none")
      [] pending = "reject" -> Result("protocol", "none")
      [] pending \in {"cancelled", "withdrawn"} -> Result("cancelled", "none")
      [] pending = "eof" /\ accepted > 0 -> Result("interrupted", "protocol")
      [] pending = "eof" /\ accepted = 0 -> Result("protocol", "none")
      [] pending \in ClientErrors /\ accepted > 0 ->
            Result("interrupted", pending)
      [] pending = "timeout" /\ accepted = 0 -> Result("timeout", "stream_read")
      [] pending = "misreported" -> Result("interrupted", "none")
      [] OTHER -> Result(pending, "none")

(* The exception leaves collect_stream.  Client errors after an accepted   *)
(* event become ModelStreamInterrupted; an interruption the source raises  *)
(* itself is checked against the accepted events and passed on or replaced *)
(* by a bare protocol error; a bare 429 reaches the retry decision.        *)
Leaving ==
    CASE pending = "commit" -> Result("response", "none")
      [] pending \in {"reject", "misreported"} -> Result("protocol", "none")
      [] pending \in {"cancelled", "withdrawn"} -> Result("cancelled", "none")
      [] pending = "eof" /\ accepted > 0 -> Result("interrupted", "protocol")
      [] pending = "eof" /\ accepted = 0 -> Result("protocol", "none")
      [] pending \in ClientErrors /\ accepted > 0 ->
            Result("interrupted", pending)
      [] pending = "timeout" /\ accepted = 0 -> Result("timeout", "stream_read")
      [] OTHER -> Result(pending, "none")

Leave ==
    /\ pc = "leave"
    /\ IF pending = "rate_limited" /\ accepted = 0
       THEN pc' = "decide" /\ UNCHANGED outcome
       ELSE Finish(Leaving)
    /\ UNCHANGED <<now, counts, sourceOpen, children, pending, cancels, cleanup,
                   retryAt>>

----------------------------------------------------------------------------
CancelAfterDeadline ==  \* mutant: a read already timed out stays a timeout
    /\ pc \in {"race", "abort", "settle"}
    /\ pc' = "abort"
    /\ pending' = IF timer = "fired" THEN "timeout" ELSE "cancelled"
    /\ CancelTimer
    /\ UNCHANGED <<reader, closer, cleanup, outcome>>

(* The caller cancels: CancelledError is raised at the current await.      *)
CancelWhileReading ==
    /\ pc \in {"race", "abort", "settle"}
    /\ pc' = "abort"
    /\ pending' = "cancelled"
    /\ CancelTimer
    /\ UNCHANGED <<reader, closer, cleanup, outcome>>

(* After the commit point the first cancellation becomes cleanup_error and *)
(* the collector waits for the close task again; a second one interrupts   *)
(* that wait.  When a rejected stream is closed the failure is re-raised   *)
(* and the cancellation is only a note on it.                              *)
CancelWhileClosing ==
    /\ pc \in {"close", "close_abort", "close_settle"}
    /\ pc' = "close_abort"
    /\ CancelTimer
    /\ IF committed /\ cleanup = "cancelled"
       THEN pending' = "cancelled" /\ UNCHANGED cleanup
       ELSE Replace("cancelled")
    /\ UNCHANGED <<reader, closer, outcome>>

CancelWhileWaiting ==
    /\ \/ pc = "backoff"
       \/ pc = "start" /\ attempt = 1
    /\ pc' = "leave"
    /\ pending' = "cancelled"
    /\ UNCHANGED <<children, cleanup, outcome>>

CallerCancels ==
    /\ stops < MaxStops
    /\ stops' = stops + 1
    /\ heard' = heard + 1
    /\ CancelWhileReading \/ CancelWhileClosing \/ CancelWhileWaiting
    /\ UNCHANGED <<now, counts, sourceOpen, retryAt>>

----------------------------------------------------------------------------
(* The environment.  A source answers only while it is awaited; a child    *)
(* that has been cancelled ends in its own time.                           *)
SourceAnswers ==
    /\ pc = "race"
    /\ reader = "running"
    /\ reader' \in { r \in ReadResults :
                        /\ r = "event" => accepted < MaxEvents
                        /\ r = "terminal" => accepted > 0 }
    /\ UNCHANGED <<now, pc, counts, sourceOpen, timer, closer, pending, cancels,
                   cleanup, retryAt, outcome>>

ReaderStops ==
    /\ pc = "abort"
    /\ reader = "running"
    /\ reader' = "stopped"
    /\ UNCHANGED <<now, pc, counts, sourceOpen, timer, closer, pending, cancels,
                   cleanup, retryAt, outcome>>

SourceCloses ==
    /\ pc = "close"
    /\ closer = "running"
    /\ closer' \in {"closed"} \cup SourceErrors
    /\ UNCHANGED <<now, pc, counts, sourceOpen, reader, timer, pending, cancels,
                   cleanup, retryAt, outcome>>

CloserStops ==
    /\ pc = "close_abort"
    /\ closer = "running"
    /\ closer' = "stopped"
    /\ UNCHANGED <<now, pc, counts, sourceOpen, reader, timer, pending, cancels,
                   cleanup, retryAt, outcome>>

TimerFires ==
    /\ timer = "armed"
    /\ now >= Deadline
    /\ timer' = "fired"
    /\ UNCHANGED <<now, pc, counts, sourceOpen, reader, closer, pending, cancels,
                   cleanup, retryAt, outcome>>

TimerStops ==
    /\ timer = "cancelling"
    /\ timer' = "stopped"
    /\ UNCHANGED <<now, pc, counts, sourceOpen, reader, closer, pending, cancels,
                   cleanup, retryAt, outcome>>

Tick ==
    /\ pc # "done"
    /\ now < Horizon
    /\ now' = now + 1
    /\ UNCHANGED <<pc, counts, sourceOpen, children, pending, cancels, cleanup,
                   retryAt, outcome>>

Collect ==
    \/ ExpireBeforeStream \/ OpenStream
    \/ GiveUpRetrying \/ PlanRetry \/ EndBackoff
    \/ StartRead \/ ExpireBeforeRead
    \/ LoseRace \/ WinRace \/ EndAbort
    \/ AcceptEvent \/ Commit \/ StopReading
    \/ CloseExpires \/ CloseReturns \/ EndCloseAbort \/ EndCloseSettle
    \/ Leave

Environment ==
    \/ CallerCancels
    \/ SourceAnswers \/ SourceCloses
    \/ ReaderStops \/ CloserStops
    \/ TimerFires \/ TimerStops
    \/ Tick

Next == Collect \/ Environment

(* The event loop runs whatever is ready, timers fire once due, and a      *)
(* cancelled child ends.  Nothing obliges the source to answer or to close,*)
(* nor the caller to cancel.                                               *)
Fairness ==
    /\ WF_vars(Collect)
    /\ WF_vars(ReaderStops)
    /\ WF_vars(CloserStops)
    /\ WF_vars(TimerFires)
    /\ WF_vars(TimerStops)
    /\ WF_vars(Tick)

Spec == Init /\ [][Next]_vars
FairSpec == Spec /\ Fairness

----------------------------------------------------------------------------
(* Every variable has its type (module_01_streaming_cancellation).         *)
TypeOK ==
    /\ now \in 0..Horizon
    /\ pc \in Points
    /\ attempt \in 1..MaxAttempts
    /\ opened \in 0..MaxAttempts
    /\ sourceOpen \in BOOLEAN
    /\ reader \in {"idle", "running", "stopped"} \cup ReadResults
    /\ timer \in {"idle", "armed", "cancelling", "fired", "stopped"}
    /\ closer \in {"idle", "running", "stopped", "closed"} \cup SourceErrors
    /\ pending \in Carried \cup {"none"}
    /\ accepted \in 0..MaxEvents + 1
    /\ delivered \in Nat
    /\ committed \in BOOLEAN
    /\ stops \in 0..MaxStops
    /\ heard \in 0..MaxStops
    /\ cleanup \in {"none", "cancelled", "timeout"} \cup SourceErrors
    /\ retryAt \in Nat
    /\ outcome \in [kind : Kinds \cup {"none"},
                    cause : ClientErrors \cup {"none", "protocol", "stream_read",
                                              "before_stream", "retry_wait"},
                    prefix : 0..MaxEvents + 1]

(* All events the caller's result can be built from come from the current  *)
(* attempt: an attempt that has delivered an event is never retried, on    *)
(* whatever path its failure and its cleanup take (execution.py:137-156    *)
(* with stream_assembly.py:217-220).                                       *)
NoRetryAfterEvent == opened > 0 => delivered = accepted

(* Child tasks never outlive the await that owns them: the source is never *)
(* read and closed at once, and whenever the operation waits for a retry,  *)
(* opens a stream or has ended, nothing it started is still running        *)
(* (execution.py:200-256).                                                 *)
ChildrenSettled ==
    /\ ~(reader = "running" /\ closer = "running")
    /\ pc \in {"start", "pull", "leave", "decide", "backoff", "done"}
          => reader # "running" /\ closer # "running" /\ ~TimerLive

(* A closable source has been told to close before the next attempt, the   *)
(* wait for it, or the return to the caller (execution.py:178-185).        *)
SourceReleased ==
    Closable /\ pc \in {"start", "leave", "decide", "backoff", "done"}
        => ~sourceOpen

(* A cancellation ends the operation as CancelledError, whatever else      *)
(* happened at the same time, unless the response had been committed, the  *)
(* stream already rejected, or the cleanup it caused failed in its turn    *)
(* (execution.py:206-208, 254-261; stream_assembly.py:262-276).            *)
CancellationHeard ==
    pc = "done" /\ heard > 0 /\ ~committed /\ pending # "reject"
        => outcome.kind = "cancelled"

(* A validated terminal response is what the caller gets, whatever the     *)
(* deadline, the source's aclose and one cancellation do while the source  *)
(* is closed (stream_assembly.py:237-259).                                 *)
CommitSurvives ==
    pc = "done" /\ committed /\ heard <= 1 => outcome.kind = "response"

(* A response, an interruption and a plain failure are told apart by what  *)
(* was accepted: a client error never hides an accepted prefix, and an     *)
(* interruption reports an empty one only if the source raised it before   *)
(* its first event (stream_assembly.py:189-220).                           *)
PrefixReported ==
    pc = "done" =>
        /\ outcome.kind \in ClientErrors => outcome.prefix = 0
        /\ outcome.kind = "interrupted" =>
              outcome.prefix > 0 \/ pending = "interrupted"
        /\ outcome.kind = "response" => committed
        /\ outcome.prefix = accepted

(* An event counts only if its own read beat the deadline: when both have  *)
(* finished by the time the reader wakes, the event is dropped             *)
(* (execution.py:209-216).                                                 *)
DeadlineWinsTie == [][delivered' > delivered => timer = "stopped"]_vars

(* An attempt is opened only in time and for a caller who has not          *)
(* cancelled, and a further one only after a 429 that preceded every event *)
(* and after the delay that followed it (execution.py:116-156).            *)
AttemptJustified ==
    [][opened' > opened =>
        /\ now < Deadline /\ heard = 0
        /\ opened > 0 => /\ pending = "rate_limited" /\ delivered = 0
                         /\ now >= retryAt]_vars

(* The operation ends even if the source never answers, never closes and   *)
(* nobody cancels: one absolute deadline bounds reads, waits and cleanup   *)
(* (execution.py:116-156, 188-261).                                        *)
Termination == <>(pc = "done")

(* What the source claims, if a claim of its own is in flight.              *)
Fault == IF pending \in Claims THEN pending ELSE "none"

Operation == INSTANCE ModelOperation WITH
    attempts <- opened,
    prefix <- delivered,
    stops <- heard,
    rejected <- pending = "reject",
    fault <- Fault,
    outcome <- [kind |-> outcome.kind, prefix |-> outcome.prefix]

(* Every step of the runtime is a step the caller was promised, or none.   *)
ImplementsOperation == Operation!Spec

(* README.md:14-15 of the lesson: a cancelled operation closes its source  *)
(* and starts no new attempt.                                              *)
NoAttemptAfterCancel == [][opened' > opened => stops = 0]_vars

(* README.md:81-83 of the lesson: a cancellation during cleanup after a    *)
(* validated ResponseCompleted does not cancel the finished response.      *)
CommittedResponseReturned ==
    pc = "done" /\ committed => outcome.kind = "response"
=============================================================================
