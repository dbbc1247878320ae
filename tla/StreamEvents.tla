---------------------------- MODULE StreamEvents ----------------------------
(***************************************************************************)
(* The events of one streamed model response and, independently of the     *)
(* code that checks them one by one, what makes a whole sequence of them   *)
(* lawful.  A delta carries one letter of the output's text, or Blank for  *)
(* an empty delta; the text of an output is the sequence of its letters.   *)
(***************************************************************************)
EXTENDS Integers, Sequences, FiniteSets

CONSTANTS
    Providers,  \* provider names
    Names,      \* identifiers: requests, responses, models, calls and tools
    Letters,    \* the letters texts are made of
    Schemas,    \* schema ids
    Validated,  \* structured outputs that the schema validator accepts
    None,       \* a missing optional value
    Blank       \* the letter of an empty delta

ASSUME EventsAssumption ==
    /\ None \notin Providers \cup Names \cup Schemas \cup Seq(Letters)
    /\ Blank \notin Letters

Texts == Seq(Letters)
Optional(S) == S \cup {None}

Output ==
    [type : {"text"}, text : Texts]
        \cup [type : {"structured"}, text : Texts, schema : Schemas]
        \cup [type : {"tool"}, call_id : Optional(Names), name : Names,
              text : Optional(Texts)]
        \cup [type : {"refusal", "unknown"}]

IsText(out) == out.type \in {"text", "structured"}

(* ModelResponse, and what its constructor insists on.                     *)
Outcomes == {"completed", "tool_requested", "refused", "truncated", "blocked",
             "incomplete"}

Consistent(outcome, outs) ==
    /\ outcome = "tool_requested" <=> \E k \in DOMAIN outs : outs[k].type = "tool"
    /\ outcome = "refused" <=> \E k \in DOMAIN outs : outs[k].type = "refusal"
    /\ \A j, k \in DOMAIN outs :
          /\ outs[j].type = "tool" /\ outs[k].type = "tool"
          /\ outs[j].call_id = outs[k].call_id /\ outs[j].call_id # None
          => j = k

Response ==
    [request_id : Names, response_id : Optional(Names), model : Optional(Names),
     provider : Providers, outcome : Outcomes, outputs : Seq(Output),
     usage : Optional(Names)]

(* ModelEvent.  An event is in order if it carries the number of the place *)
(* it arrives at; payload is the provider of the raw data nested in an     *)
(* output or in a usage report.                                            *)
StartEvent == [kind : {"started"}, in_order : BOOLEAN, provider : Providers,
               request_id : Names, response_id : Optional(Names),
               model : Optional(Names)]
TextEvent == [kind : {"text"}, in_order : BOOLEAN, provider : Providers,
              index : Nat, letter : Letters \cup {Blank}]
ToolEvent == [kind : {"tool"}, in_order : BOOLEAN, provider : Providers,
              index : Nat, letter : Letters \cup {Blank},
              call_id : Optional(Names), name : Names]
OutputEvent == [kind : {"completed"}, in_order : BOOLEAN, provider : Providers,
                index : Nat, output : Output, payload : Optional(Providers)]
UsageEvent == [kind : {"usage"}, in_order : BOOLEAN, provider : Providers,
               usage : Names, payload : Optional(Providers)]
UnknownEvent == [kind : {"unknown"}, in_order : BOOLEAN, provider : Providers]
TerminalEvent == [kind : {"terminal"}, in_order : BOOLEAN, provider : Providers,
                  response : {r \in Response : Consistent(r.outcome, r.outputs)}]

Event == StartEvent \cup TextEvent \cup ToolEvent \cup OutputEvent
             \cup UsageEvent \cup UnknownEvent \cup TerminalEvent

(* A model request, as far as its answer has to agree with it.             *)
Request == [request_id : Names, schema : Optional(Schemas)]

Answers(request, response) ==
    LET structured == {k \in DOMAIN response.outputs :
                          response.outputs[k].type = "structured"}
    IN /\ response.request_id = request.request_id
       /\ structured = {} => request.schema = None \/ response.outcome # "completed"
       /\ \A k \in structured : /\ response.outputs[k].schema = request.schema
                                /\ response.outputs[k] \in Validated

----------------------------------------------------------------------------
(* Lawful sequences.                                                       *)
IsDelta(e) == e.kind \in {"text", "tool"}
HasIndex(e) == IsDelta(e) \/ e.kind = "completed"

Deltas(h, i) == {k \in DOMAIN h : IsDelta(h[k]) /\ h[k].index = i}
Completions(h, i) == {k \in DOMAIN h : h[k].kind = "completed" /\ h[k].index = i}

(* The letters of output i, in order, spell the text.                      *)
Lettered(h, i) == {k \in Deltas(h, i) : h[k].letter # Blank}
Before(S, k) == {j \in S : j <= k}

Spells(h, i, text) ==
    /\ Len(text) = Cardinality(Lettered(h, i))
    /\ \A k \in Lettered(h, i) :
          text[Cardinality(Before(Lettered(h, i), k))] = h[k].letter

(* The deltas of an output are of one kind and one tool call.              *)
Alike(d, e) ==
    /\ d.kind = e.kind
    /\ d.kind = "tool" => /\ d.name = e.name
                          /\ d.call_id = e.call_id \/ None \in {d.call_id, e.call_id}

(* An output agrees with a delta that announced it.                        *)
Announced(d, out) ==
    IF d.kind = "text" THEN IsText(out)
    ELSE /\ out.type = "tool" /\ out.name = d.name /\ out.text # None
         /\ d.call_id \in {None, out.call_id}

OutputLawful(h, i) ==
    /\ \A j, k \in Deltas(h, i) : Alike(h[j], h[k])
    /\ \A j, k \in Completions(h, i) : j = k
    /\ \A c \in Completions(h, i), k \in Deltas(h, i) :
          k < c /\ Announced(h[k], h[c].output) /\ Spells(h, i, h[c].output.text)

(* The terminal response repeats what was streamed, leaving no output open.*)
Closes(h, response) ==
    /\ response.provider = h[1].provider
    /\ response.request_id = h[1].request_id
    /\ h[1].response_id \in {None, response.response_id}
    /\ h[1].model \in {None, response.model}
    /\ \A n \in DOMAIN response.outputs : \E c \in Completions(h, n - 1) :
          h[c].output = response.outputs[n]
    /\ \A k \in DOMAIN h : /\ HasIndex(h[k]) => h[k].index < Len(response.outputs)
                           /\ h[k].kind = "usage" => h[k].usage = response.usage

Lawful(request, h) ==
    /\ \A k \in DOMAIN h :
          /\ h[k].in_order
          /\ h[k].provider = h[1].provider
          /\ h[k].kind = "started" <=> k = 1
          /\ h[k].kind = "started" => h[k].request_id = request.request_id
          /\ h[k].kind \in {"completed", "usage"}
                => h[k].payload \in {None, h[k].provider}
          /\ h[k].kind = "terminal"
                => /\ k = Len(h)
                   /\ Answers(request, h[k].response)
                   /\ Closes(h, h[k].response)
          /\ HasIndex(h[k]) => OutputLawful(h, h[k].index)
    /\ \A j, k \in DOMAIN h : h[j].kind = "usage" /\ h[k].kind = "usage" => j = k
=============================================================================
