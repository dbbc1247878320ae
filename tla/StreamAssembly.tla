--------------------------- MODULE StreamAssembly ---------------------------
(***************************************************************************)
(* collect_stream reading one scripted stream: each event is compared with *)
(* what the earlier ones left in the collector's dictionaries, until the   *)
(* terminal response has been found to agree with them.  The scripted      *)
(* client compares the first and the last event with the request before it *)
(* lets them out.  How reads, cleanup and the clock interleave is          *)
(* StreamingRuntime's subject.                                             *)
(***************************************************************************)
EXTENDS StreamEvents

CONSTANTS
    Requests,  \* the requests a caller may make
    Events,    \* the events a source may send
    MaxEvents  \* bound: length of a stream

ASSUME AssemblyAssumption == Requests \subseteq Request /\ Events \subseteq Event

VARIABLES
    request,        \* the request the stream was opened for
    events,         \* the events accepted so far
    started,        \* the first of them
    text_parts,     \* letters received per open or completed text output
    tool_parts,     \* call id, name and letters received per tool output
    outputs,        \* completed outputs
    reported_usage, \* the usage event seen
    refused,        \* ghost: the event that ended the stream as unlawful
    outcome         \* how the collection ended

parts == <<text_parts, tool_parts, outputs, reported_usage>>
vars == <<request, events, started, text_parts, tool_parts, outputs, reported_usage,
          refused, outcome>>

NoStart == [kind |-> "none"]
NoEvent == [kind |-> "none"]
Failures == {"protocol_error", "client_error", "interrupted", "cancelled", "error"}

(* A dictionary with one more entry, or another value for it.              *)
With(f, i, value) == [j \in DOMAIN f \cup {i} |-> IF j = i THEN value ELSE f[j]]

Add(text, letter) == IF letter = Blank THEN text ELSE Append(text, letter)

Init ==
    /\ request \in Requests
    /\ events = <<>>
    /\ started = NoStart
    /\ text_parts = <<>> /\ tool_parts = <<>> /\ outputs = <<>>
    /\ reported_usage = None
    /\ refused = NoEvent
    /\ outcome = "none"

----------------------------------------------------------------------------
(* ScriptedModelClient._validate_stream_event.                             *)
Emits(e) ==
    /\ e.kind = "started" => e.request_id = request.request_id
    /\ e.kind = "terminal" => Answers(request, e.response)

(* What every event must satisfy.                                          *)
InSequence(e) ==
    /\ e.in_order
    /\ IF started = NoStart THEN e.kind = "started" ELSE e.provider = started.provider

TextFits(e) == e.index \notin DOMAIN outputs \cup DOMAIN tool_parts

(* The tool call a delta belongs to: the one its output began with.        *)
Current(e) ==
    IF e.index \in DOMAIN tool_parts THEN tool_parts[e.index]
    ELSE [call_id |-> e.call_id, name |-> e.name, text |-> <<>>]

ToolFitsStrictly(e) ==  \* mutant: a missing call id counts as another id
    /\ e.index \notin DOMAIN outputs \cup DOMAIN text_parts
    /\ Current(e).name = e.name
    /\ Current(e).call_id = e.call_id

ToolFits(e) ==
    /\ e.index \notin DOMAIN outputs \cup DOMAIN text_parts
    /\ Current(e).name = e.name
    /\ Current(e).call_id = e.call_id \/ None \in {Current(e).call_id, e.call_id}

OutputFits(e) ==
    /\ e.index \notin DOMAIN outputs
    /\ e.payload \in {None, e.provider}
    /\ e.index \in DOMAIN text_parts =>
          IsText(e.output) /\ e.output.text = text_parts[e.index]
    /\ e.index \in DOMAIN tool_parts =>
          /\ e.output.type = "tool"
          /\ tool_parts[e.index].name = e.output.name
          /\ tool_parts[e.index].call_id \in {None, e.output.call_id}
          /\ e.output.text = tool_parts[e.index].text

UsageFits(e) == reported_usage = None /\ e.payload \in {None, e.provider}

(* _validate_terminal.                                                     *)
TerminalFits(response) ==
    /\ response.request_id = started.request_id
    /\ started.response_id \in {None, response.response_id}
    /\ started.model \in {None, response.model}
    /\ response.provider = started.provider
    /\ DOMAIN text_parts \cup DOMAIN tool_parts \subseteq DOMAIN outputs
    /\ DOMAIN outputs = 0..(Len(response.outputs) - 1)
    /\ \A n \in DOMAIN response.outputs : outputs[n - 1] = response.outputs[n]
    /\ reported_usage \in {None, response.usage}

Fits(e) ==
    /\ InSequence(e)
    /\ e.kind = "started" => started = NoStart
    /\ e.kind = "text" => TextFits(e)
    /\ e.kind = "tool" => ToolFits(e)
    /\ e.kind = "completed" => OutputFits(e)
    /\ e.kind = "usage" => UsageFits(e)
    /\ e.kind = "terminal" => TerminalFits(e.response)

----------------------------------------------------------------------------
(* The next event, accepted.                                               *)
Accept(e) ==
    /\ Emits(e) /\ Fits(e)
    /\ events' = Append(events, e)
    /\ UNCHANGED <<request, refused>>

AcceptStart(e) ==
    /\ e.kind = "started" /\ Accept(e)
    /\ started' = e
    /\ UNCHANGED <<parts, outcome>>

AcceptText(e) ==
    /\ e.kind = "text" /\ Accept(e)
    /\ LET text == IF e.index \in DOMAIN text_parts THEN text_parts[e.index] ELSE <<>>
       IN text_parts' = With(text_parts, e.index, Add(text, e.letter))
    /\ UNCHANGED <<started, tool_parts, outputs, reported_usage, outcome>>

AcceptToolFirstId(e) ==  \* mutant: a call id that comes late is not kept
    /\ e.kind = "tool" /\ Accept(e)
    /\ tool_parts' = With(tool_parts, e.index,
          [Current(e) EXCEPT !.text = Add(@, e.letter)])
    /\ UNCHANGED <<started, text_parts, outputs, reported_usage, outcome>>

(* A call id that comes late is kept.                                      *)
AcceptTool(e) ==
    /\ e.kind = "tool" /\ Accept(e)
    /\ tool_parts' = With(tool_parts, e.index,
          [Current(e) EXCEPT
              !.call_id = IF @ = None THEN e.call_id ELSE @,
              !.text = Add(@, e.letter)])
    /\ UNCHANGED <<started, text_parts, outputs, reported_usage, outcome>>

AcceptOutput(e) ==
    /\ e.kind = "completed" /\ Accept(e)
    /\ outputs' = With(outputs, e.index, e.output)
    /\ UNCHANGED <<started, text_parts, tool_parts, reported_usage, outcome>>

AcceptUsage(e) ==
    /\ e.kind = "usage" /\ Accept(e)
    /\ reported_usage' = e.usage
    /\ UNCHANGED <<started, text_parts, tool_parts, outputs, outcome>>

AcceptUnknown(e) ==
    /\ e.kind = "unknown" /\ Accept(e)
    /\ UNCHANGED <<started, parts, outcome>>

AcceptTerminal(e) ==
    /\ e.kind = "terminal" /\ Accept(e)
    /\ outcome' = "response"
    /\ UNCHANGED <<started, parts>>

----------------------------------------------------------------------------
(* The next event, refused.  The collector's own complaint leaves as it    *)
(* is; the client's interrupts the stream if anything was let out before.  *)
Interruption(kind) == IF events = <<>> THEN kind ELSE "interrupted"

Refuse(e) ==
    /\ Emits(e) => ~Fits(e)
    /\ refused' = e
    /\ outcome' = IF Emits(e) THEN "protocol_error" ELSE Interruption("protocol_error")
    /\ UNCHANGED <<request, events, started, parts>>

(* The stream stops without a terminal event: it ends, fails, or is        *)
(* cancelled, or another client reports an interruption of its own, which  *)
(* must name the accepted events.                                          *)
Break ==
    /\ outcome' \in {Interruption("protocol_error"), Interruption("client_error"),
                     "interrupted", "protocol_error", "cancelled", "error"}
    /\ UNCHANGED <<request, events, started, parts, refused>>

Next ==
    /\ outcome = "none"
    /\ \/ Break
       \/ \E e \in Events : Refuse(e)
       \/ /\ Len(events) < MaxEvents
          /\ \E e \in Events :
                \/ AcceptStart(e) \/ AcceptText(e) \/ AcceptTool(e)
                \/ AcceptOutput(e) \/ AcceptUsage(e) \/ AcceptUnknown(e)
                \/ AcceptTerminal(e)

Spec == Init /\ [][Next]_vars

----------------------------------------------------------------------------
(* Every variable has its type (module_01_provider_contract).              *)
Accumulators == [call_id : Optional(Names), name : Names, text : Texts]

TypeOK ==
    /\ request \in Request
    /\ events \in Seq(Event)
    /\ started \in StartEvent \cup {NoStart}
    /\ \A i \in DOMAIN text_parts : i \in Nat /\ text_parts[i] \in Texts
    /\ \A i \in DOMAIN tool_parts : i \in Nat /\ tool_parts[i] \in Accumulators
    /\ \A i \in DOMAIN outputs : i \in Nat /\ outputs[i] \in Output
    /\ reported_usage \in Optional(Names)
    /\ refused \in Event \cup {NoEvent}
    /\ outcome \in {"none", "response"} \cup Failures

(* The accepted events are lawful together: pieces that fit one after the  *)
(* other never add up to a stream that contradicts itself, and a response  *)
(* is returned only if it repeats what was streamed                        *)
(* (stream_assembly.py:77-188, 277-385).                                   *)
AcceptedIsLawful ==
    /\ Lawful(request, events)
    /\ outcome = "response" => /\ events # <<>>
                               /\ events[Len(events)].kind = "terminal"

(* No stream is refused without cause: the event refused contradicts the   *)
(* events before it or the request (stream_assembly.py:82-179, 277-385,    *)
(* scripted_client.py:151-230).                                            *)
RefusedIsUnlawful == refused # NoEvent => ~Lawful(request, Append(events, refused))
=============================================================================
