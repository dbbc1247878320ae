-------------------------- MODULE FallbackExecutor --------------------------
(***************************************************************************)
(* One call of FallbackExecutor.complete (capability-fallback lesson).     *)
(* The executor plans a route, lets the route's client race the absolute   *)
(* deadline, and tries another route only after a failure that carries     *)
(* evidence of having had no effect.  The client runs in a child task of   *)
(* its own: it may answer, fail, hang, ignore a cancellation for a while,  *)
(* and its provider may take the request up at any moment it runs.         *)
(***************************************************************************)
EXTENDS Capabilities, SchemaKeywords

CONSTANTS
    Routes,     \* route_id of every registry entry, in their sorting order
    Priority,   \* ModelRoute.priority
    Profile,    \* ModelRoute.profile
    Requests,   \* what a caller may ask for: requirements and template
    NoRoute,    \* no route has been planned
    MaxStops    \* bound: how often the caller cancels

(* The template of a request carries one schema for the answer, or none,   *)
(* and one for the arguments of each of its tools.                         *)
Arguments(req) == { req.arguments[t] : t \in DOMAIN req.arguments }
Carried(req) == req.answer \cup Arguments(req)

ASSUME FallbackAssumption ==
    /\ Routes \subseteq Nat
    /\ NoRoute \notin Routes
    /\ Priority \in [Routes -> Nat]
    /\ \A req \in Requests :
          /\ ValidRequirements(req)
          /\ \A schema \in Carried(req) : IsSchema(schema)
    /\ MaxStops \in Nat

VARIABLES
    request,    \* the RoutingRequest
    late,       \* clock.now() >= deadline.at
    pc,         \* where the executor's task is, see Points
    route,      \* plan.selected
    excluded,   \* the routes not to be planned again
    attempts,   \* the RouteAttemptRecords
    client,     \* completion_task: idle, created, running, ended or cancelled
    timer,      \* deadline_task: idle, armed, cancelling, fired, stopped
    ending,     \* what the executor raises once its children have ended
    generated,  \* ghost: the routes whose provider has taken the request up
    stops,      \* ghost: cancellations delivered to the task
    outcome     \* what complete returns or raises

vars == <<request, late, pc, route, excluded, attempts, client, timer, ending,
          generated, stops, outcome>>

plan == <<route, excluded, attempts>>

Awaits == {"wait", "abort", "settle"}
Points == Awaits \cup {"begin", "check", "planned", "done"}
Results == {"answer", "foreign", "failure", "effect_free"}
ClientLive == client \in {"created", "running", "dropped", "unwinding"}
TimerLive == timer \in {"armed", "cancelling"}

NoOutcome == [kind |-> "none", route |-> NoRoute]
Kinds == {"response", "no_route", "timeout", "cancelled", "failed", "protocol",
          "refused"}

Finish(kind, r) ==
    /\ pc' = "done"
    /\ outcome' = [kind |-> kind, route |-> r]

(* PriorityRanking: lower priority first, ties by route_id.                *)
Before(r, s) ==
    \/ Priority[r] < Priority[s]
    \/ Priority[r] = Priority[s] /\ r < s

Suitable == { r \in Routes : Compatible(Profile[r], request) }
Candidates == Suitable \ excluded

BelieveEvidence(reason, observed, trace) ==  \* mutant: does not look at the cause
    reason = "before_attempt" => ~observed

(* EffectFreeEvidence and EffectFreeRouteFailure refuse a claim that       *)
(* contradicts itself or the provider's trace in the failure.              *)
EvidenceAccepted(reason, observed, trace) ==
    /\ reason = "before_attempt" => ~observed /\ ~trace
    /\ trace => observed

(* _validate_schema_declaration: what a schema uses has been declared.     *)
Declared(schema, need) ==
    /\ schema.dialect \in SupportedDialects
    /\ need.dialects = {schema.dialect}
    /\ CollectedKeywords(schema) \subseteq need.keywords

(* RoutingRequest refuses requirements that say less than the template.    *)
Accepted(req) ==
    /\ DOMAIN req.arguments = req.tools
    /\ IF req.answer = {}
       THEN req.schema.mode = "text"
       ELSE /\ req.schema.mode \in {"json", "strict"}
            /\ \A schema \in req.answer : Declared(schema, req.schema)
    /\ \A schema \in Arguments(req), need \in req.toolSchemas :
          Declared(schema, need)

Init ==
    /\ request \in { req \in Requests : Accepted(req) }
    /\ late \in BOOLEAN
    /\ pc = "begin"
    /\ route = NoRoute
    /\ excluded = {}
    /\ attempts = <<>>
    /\ client = "idle" /\ timer = "idle"
    /\ ending = "none"
    /\ generated = {}
    /\ stops = 0
    /\ outcome = NoOutcome

----------------------------------------------------------------------------
(* The loop of complete.                                                   *)
Begin ==
    /\ pc = "begin"
    /\ \/ /\ request.stream = "complete"
          /\ pc' = "check"
          /\ UNCHANGED outcome
       \/ /\ request.stream # "complete"
          /\ Finish("refused", NoRoute)
    /\ UNCHANGED <<request, late, plan, client, timer, ending, generated, stops>>

(* _raise_if_expired, before and after planning.                           *)
Expire ==
    /\ pc \in {"check", "planned"}
    /\ late
    /\ Finish("timeout", NoRoute)
    /\ UNCHANGED <<request, late, plan, client, timer, ending, generated, stops>>

PlanWorst ==  \* mutant: the priorities are sorted the other way round
    /\ pc = "check"
    /\ ~late
    /\ \E r \in Candidates :
          /\ \A s \in Candidates \ {r} : Before(s, r)
          /\ route' = r
    /\ pc' = "planned"
    /\ UNCHANGED <<request, late, excluded, attempts, client, timer, ending,
                   generated, stops, outcome>>

Plan ==
    /\ pc = "check"
    /\ ~late
    /\ \E r \in Candidates :
          /\ \A s \in Candidates \ {r} : Before(r, s)
          /\ route' = r
    /\ pc' = "planned"
    /\ UNCHANGED <<request, late, excluded, attempts, client, timer, ending,
                   generated, stops, outcome>>

GiveUp ==
    /\ pc = "check"
    /\ ~late
    /\ Candidates = {}
    /\ Finish("no_route", NoRoute)
    /\ UNCHANGED <<request, late, plan, client, timer, ending, generated, stops>>

StartAttemptUnbounded ==  \* mutant: leaves the deadline to the client
    /\ pc = "planned"
    /\ ~late
    /\ client' = "created"
    /\ pc' = "wait"
    /\ UNCHANGED <<request, late, plan, timer, ending, generated, stops, outcome>>

StartAttempt ==
    /\ pc = "planned"
    /\ ~late
    /\ client' = "created"
    /\ timer' = "armed"
    /\ pc' = "wait"
    /\ UNCHANGED <<request, late, plan, ending, generated, stops, outcome>>

----------------------------------------------------------------------------
(* _complete_before_deadline: completion_task races deadline_task.         *)

(* task.cancel(): before its first turn a task is dropped, afterwards it   *)
(* sees CancelledError at its next await, and when done nothing happens.   *)
CancelClient ==
    client' = CASE client = "created" -> "dropped"
                [] client = "running" -> "unwinding"
                [] OTHER -> client

CancelTimer == timer' = IF timer = "armed" THEN "cancelling" ELSE timer

LoseRace ==
    /\ pc = "wait"
    /\ timer = "fired"
    /\ ending' = "timeout"
    /\ pc' = "abort"
    /\ CancelClient
    /\ UNCHANGED <<request, late, plan, timer, generated, stops, outcome>>

WinRaceAnyway ==  \* mutant: looks at completion_task first
    /\ pc = "wait"
    /\ client \in Results
    /\ CancelTimer
    /\ pc' = "settle"
    /\ UNCHANGED <<request, late, plan, client, ending, generated, stops, outcome>>

WinRace ==
    /\ pc = "wait"
    /\ client \in Results
    /\ timer # "fired"
    /\ CancelTimer
    /\ pc' = "settle"
    /\ UNCHANGED <<request, late, plan, client, ending, generated, stops, outcome>>

EndAbortAtOnce ==  \* mutant: the cancelled children are not gathered
    /\ pc = "abort"
    /\ Finish(ending, NoRoute)
    /\ UNCHANGED <<request, late, plan, client, timer, ending, generated, stops>>

EndAbort ==
    /\ pc = "abort"
    /\ ~ClientLive /\ ~TimerLive
    /\ Finish(ending, NoRoute)
    /\ UNCHANGED <<request, late, plan, client, timer, ending, generated, stops>>

Settled ==
    /\ pc = "settle"
    /\ ~TimerLive

Record(ended) == attempts' = Append(attempts, [route |-> route, ended |-> ended])

FallBack ==
    /\ Settled
    /\ client = "effect_free"
    /\ Record("effect_free_failure")
    /\ excluded' = excluded \cup {route}
    /\ pc' = "check"
    /\ UNCHANGED <<request, late, route, client, timer, ending, generated, stops,
                   outcome>>

Return ==
    /\ Settled
    /\ client = "answer"
    /\ Record("succeeded")
    /\ Finish("response", route)
    /\ UNCHANGED <<request, late, route, excluded, client, timer, ending,
                   generated, stops>>

(* _validate_route_response refuses an answer that names another request,  *)
(* provider or model; every other failure passes through.                  *)
Raise ==
    /\ Settled
    /\ \/ client = "foreign" /\ Finish("protocol", NoRoute)
       \/ client = "failure" /\ Finish("failed", NoRoute)
    /\ UNCHANGED <<request, late, plan, client, timer, ending, generated, stops>>

CallerCancelsUnheard ==  \* mutant: gather swallows it once the race is won
    /\ stops < MaxStops
    /\ pc \in Awaits
    /\ stops' = stops + 1
    /\ IF pc = "settle"
       THEN UNCHANGED <<pc, ending, client, timer>>
       ELSE pc' = "abort" /\ ending' = "cancelled" /\ CancelClient /\ CancelTimer
    /\ UNCHANGED <<request, late, plan, generated, outcome>>

(* A cancellation while either gather is pending cancels its children      *)
(* again and is raised when they have ended.                               *)
CallerCancels ==
    /\ stops < MaxStops
    /\ pc \in Awaits
    /\ stops' = stops + 1
    /\ pc' = "abort"
    /\ ending' = "cancelled"
    /\ CancelClient
    /\ CancelTimer
    /\ UNCHANGED <<request, late, plan, generated, outcome>>

----------------------------------------------------------------------------
(* The environment: the client of the planned route, its provider, the     *)
(* clock and the timer.                                                    *)
ClientStarts ==
    /\ client = "created"
    /\ client' = "running"
    /\ UNCHANGED <<request, late, pc, plan, timer, ending, generated, stops, outcome>>

ProviderGenerates ==
    /\ client \in {"running", "unwinding"}
    /\ generated' = generated \cup {route}
    /\ UNCHANGED <<request, late, pc, plan, client, timer, ending, stops, outcome>>

ClientAnswers ==
    /\ client \in {"running", "unwinding"}
    /\ route \in generated
    /\ client' \in {"answer", "foreign"}
    /\ UNCHANGED <<request, late, pc, plan, timer, ending, generated, stops, outcome>>

ClientFails ==
    /\ client \in {"running", "unwinding"}
    /\ client' = "failure"
    /\ UNCHANGED <<request, late, pc, plan, timer, ending, generated, stops, outcome>>

(* A client that claims there was no effect.  It may be careless about a   *)
(* provider that has left its trace in the failure; it is right about one  *)
(* that has not.                                                           *)
ClientClaims ==
    /\ client \in {"running", "unwinding"}
    /\ \E observed, trace \in BOOLEAN,
          reason \in {"before_attempt", "no_server_effect", "reconciled_absent"} :
          /\ route \in generated
                => trace /\ (reason = "before_attempt" \/ ~observed)
          /\ client' = IF EvidenceAccepted(reason, observed, trace)
                       THEN "effect_free" ELSE "failure"
    /\ UNCHANGED <<request, late, pc, plan, timer, ending, generated, stops, outcome>>

ClientStops ==
    /\ client \in {"dropped", "unwinding"}
    /\ client' = "stopped"
    /\ UNCHANGED <<request, late, pc, plan, timer, ending, generated, stops, outcome>>

TimerFires ==
    /\ timer = "armed"
    /\ late
    /\ timer' = "fired"
    /\ UNCHANGED <<request, late, pc, plan, client, ending, generated, stops, outcome>>

TimerStops ==
    /\ timer = "cancelling"
    /\ timer' = "stopped"
    /\ UNCHANGED <<request, late, pc, plan, client, ending, generated, stops, outcome>>

DeadlinePasses ==
    /\ pc # "done"
    /\ ~late
    /\ late' = TRUE
    /\ UNCHANGED <<request, pc, plan, client, timer, ending, generated, stops,
                   outcome>>

Complete ==
    \/ Begin \/ Expire \/ Plan \/ GiveUp \/ StartAttempt
    \/ LoseRace \/ WinRace \/ EndAbort
    \/ FallBack \/ Return \/ Raise

Environment ==
    \/ CallerCancels
    \/ ClientStarts \/ ProviderGenerates
    \/ ClientAnswers \/ ClientFails \/ ClientClaims \/ ClientStops
    \/ TimerFires \/ TimerStops
    \/ DeadlinePasses

Next == Complete \/ Environment

(* The event loop runs what is ready, time passes, timers fire, and a      *)
(* cancelled client ends; nothing obliges it to answer before.             *)
Fairness ==
    /\ WF_vars(Complete)
    /\ WF_vars(ClientStops)
    /\ WF_vars(TimerFires)
    /\ WF_vars(TimerStops)
    /\ WF_vars(DeadlinePasses)

Spec == Init /\ [][Next]_vars
FairSpec == Spec /\ Fairness

----------------------------------------------------------------------------
(* Every variable has its type (module_01_capability_fallback).            *)
TypeOK ==
    /\ request \in Requests
    /\ late \in BOOLEAN
    /\ pc \in Points
    /\ route \in Routes \cup {NoRoute}
    /\ excluded \subseteq Routes
    /\ attempts \in Seq([route : Routes,
                         ended : {"effect_free_failure", "succeeded"}])
    /\ client \in {"idle", "created", "running", "dropped", "unwinding", "stopped"}
                      \cup Results
    /\ timer \in {"idle", "armed", "cancelling", "fired", "stopped"}
    /\ ending \in {"none", "timeout", "cancelled"}
    /\ generated \subseteq Routes
    /\ stops \in 0..MaxStops
    /\ outcome \in [kind : Kinds \cup {"none"}, route : Routes \cup {NoRoute}]
    /\ pc = "done" <=> outcome.kind \in Kinds

(* A provider that has taken the request up is never fallen back from: no  *)
(* route in the attempt log as effect-free has generated anything, even    *)
(* when its client overlooked the provider's trace in the failure          *)
(* (routing.py:393-428, 581-593).                                 *)
FallbacksAreEffectFree == excluded \cap generated = {}

(* No request reaches a model that lacks anything the request needs, where *)
(* the needs are compared as a whole and not gap by gap                    *)
(* (routing.py:316-333, capabilities.py:332-486).                          *)
OnlySuitableRoutes == \A r \in generated : Suits(Profile[r], request)

(* Every schema that reaches a provider is in a dialect, and has no        *)
(* collected keyword, beyond what its profile lists (routing.py:82-190).   *)
SchemasDeclared ==
    \A r \in generated : \A schema \in Carried(request) :
        /\ schema.dialect \in Profile[r].dialects
        /\ CollectedKeywords(schema) \subseteq Profile[r].keywords

(* No provider is sent a schema in a dialect or with a keyword it has not  *)
(* been verified to understand, however deep the keyword is nested         *)
(* (routing.py:82-228, capabilities.py:379-429).                           *)
SchemasUnderstood ==
    \A r \in generated : \A schema \in Carried(request) :
        /\ schema.dialect \in Profile[r].dialects
        /\ UsedKeywords(schema) \subseteq Profile[r].keywords

(* A route gets its turn only after every suitable route ranked before it  *)
(* has failed without effect; when the call ends without a route, all of   *)
(* them have, each in one attempt (routing.py:556-593).                    *)
BestUntriedFirst ==
    LET tried == { attempts[i].route : i \in DOMAIN attempts } IN
    /\ route # NoRoute
          => \A s \in Suitable : Before(s, route) => s \in excluded
    /\ outcome.kind = "no_route" => Suitable \subseteq tried
    /\ \A i, j \in DOMAIN attempts :
          i < j => Before(attempts[i].route, attempts[j].route)

(* Neither child task outlives the attempt it belongs to: while a route is *)
(* being planned or once the call has ended, no client of an earlier       *)
(* attempt can still reach its provider (routing.py:633-662).              *)
ChildrenSettled == pc \notin Awaits => ~ClientLive /\ ~TimerLive

(* A cancellation is what the caller sees, whatever the client and the     *)
(* timer had already done when it came (routing.py:642-655).               *)
CancellationHeard == pc = "done" /\ stops > 0 => outcome.kind = "cancelled"

(* A result counts, and another route is tried, only if the deadline had   *)
(* not fired when the executor looked, even if the result was there as     *)
(* well (routing.py:646-655).                                              *)
DeadlineWinsTie == [][attempts' # attempts => timer = "stopped"]_vars

(* A client that neither answers nor fails cannot hold the call past its   *)
(* deadline, if it ends when cancelled (routing.py:633-651).               *)
Termination == <>(pc = "done")

Caller == INSTANCE SingleGeneration WITH
    suitable <- Suitable, NoOutcome <- NoOutcome

(* At most one provider takes the request up, it is a suitable one, only   *)
(* its answer is returned, and nobody takes it up once the call has ended. *)
ImplementsSingleGeneration == Caller!Spec
=============================================================================
