------------------------ MODULE StreamAssemblyProofs ------------------------
(***************************************************************************)
(* Theorems about StreamAssembly, for any events and requests and streams  *)
(* of any length: the collector's checks, each of one event against the    *)
(* accumulators, accept exactly the sequences that are lawful as a whole.  *)
(***************************************************************************)
EXTENDS StreamAssembly, FiniteSetTheorems, SequenceTheorems, TLAPS

----------------------------------------------------------------------------
(* What an event carries.                                                  *)
LEMMA EventFields ==
    ASSUME NEW e \in Event
    PROVE  /\ e.kind \in {"started", "text", "tool", "completed", "usage", "unknown",
                          "terminal"}
           /\ e.kind = "started" => e \in StartEvent
           /\ HasIndex(e) => e.index \in Nat
           /\ IsDelta(e) => e.letter \in Letters \cup {Blank}
           /\ e.kind = "tool" => e.call_id \in Optional(Names) /\ e.name \in Names
           /\ e.kind = "completed" => e.output \in Output
           /\ e.kind = "usage" => e.usage \in Names
           /\ e.kind = "terminal" => e.response \in Response
<1> USE DEF HasIndex, IsDelta
<1>1. CASE e \in StartEvent
  BY <1>1 DEF StartEvent
<1>2. CASE e \in TextEvent
  BY <1>2 DEF TextEvent
<1>3. CASE e \in ToolEvent
  BY <1>3 DEF ToolEvent
<1>4. CASE e \in OutputEvent
  BY <1>4 DEF OutputEvent
<1>5. CASE e \in UsageEvent
  BY <1>5 DEF UsageEvent
<1>6. CASE e \in UnknownEvent
  BY <1>6 DEF UnknownEvent
<1>7. CASE e \in TerminalEvent
  BY <1>7 DEF TerminalEvent
<1> QED BY <1>1, <1>2, <1>3, <1>4, <1>5, <1>6, <1>7 DEF Event

LEMMA OutputFields ==
    ASSUME NEW out \in Output
    PROVE  /\ IsText(out) => out.text \in Texts
           /\ out.type = "tool" => /\ out.call_id \in Optional(Names)
                                   /\ out.text \in Optional(Texts)
           /\ out.type = "tool" => ~IsText(out)
BY DEF Output, IsText

----------------------------------------------------------------------------
(* How one more event changes what the history says of an output.          *)
LEMMA LongerHistory ==
    ASSUME NEW h \in Seq(Event), NEW e \in Event
    PROVE  /\ Len(Append(h, e)) = Len(h) + 1 /\ Len(h) \in Nat
           /\ DOMAIN h = 1..Len(h)
           /\ DOMAIN Append(h, e) = DOMAIN h \cup {Len(h) + 1}
           /\ \A k \in DOMAIN h : /\ Append(h, e)[k] = h[k] /\ h[k] \in Event
                                  /\ k \in Nat /\ k < Len(h) + 1
           /\ Append(h, e)[Len(h) + 1] = e
           /\ Len(h) + 1 \notin DOMAIN h
OBVIOUS

LEMMA OneMore ==
    ASSUME NEW h \in Seq(Event), NEW e \in Event, NEW i
    PROVE  LET n == Len(h) + 1  g == Append(h, e) IN
           /\ Deltas(g, i) = IF IsDelta(e) /\ e.index = i
                             THEN Deltas(h, i) \cup {n} ELSE Deltas(h, i)
           /\ Completions(g, i) = IF e.kind = "completed" /\ e.index = i
                                  THEN Completions(h, i) \cup {n} ELSE Completions(h, i)
           /\ Lettered(g, i) = IF IsDelta(e) /\ e.index = i /\ e.letter # Blank
                               THEN Lettered(h, i) \cup {n} ELSE Lettered(h, i)
<1> DEFINE n == Len(h) + 1  g == Append(h, e)
<1>1. /\ DOMAIN g = DOMAIN h \cup {n} /\ g[n] = e /\ n \notin DOMAIN h
      /\ \A k \in DOMAIN h : g[k] = h[k]
  BY LongerHistory
<1> HIDE DEF n, g
<1>2. Deltas(g, i) = IF IsDelta(e) /\ e.index = i
                     THEN Deltas(h, i) \cup {n} ELSE Deltas(h, i)
  BY <1>1 DEF Deltas
<1>3. Completions(g, i) = IF e.kind = "completed" /\ e.index = i
                          THEN Completions(h, i) \cup {n} ELSE Completions(h, i)
  BY <1>1 DEF Completions
<1>4. Lettered(g, i) = IF IsDelta(e) /\ e.index = i /\ e.letter # Blank
                       THEN Lettered(h, i) \cup {n} ELSE Lettered(h, i)
  BY <1>1, <1>2 DEF Lettered, Deltas
<1> QED BY <1>2, <1>3, <1>4 DEF n, g

LEMMA LetteredIsFinite ==
    ASSUME NEW h \in Seq(Event), NEW i
    PROVE  /\ IsFiniteSet(Lettered(h, i)) /\ Cardinality(Lettered(h, i)) \in Nat
           /\ Lettered(h, i) \subseteq DOMAIN h /\ Lettered(h, i) \subseteq Nat
<1>1. Lettered(h, i) \subseteq 1..Len(h)
  BY DEF Lettered, Deltas
<1>2. IsFiniteSet(1..Len(h))
  BY FS_Interval
<1> QED BY <1>1, <1>2, FS_Subset, FS_CardinalityType

(* The letters of an output have the ranks 1, 2, ... up to their number.   *)
Ranked(h, i) ==
    \A m \in 1..Cardinality(Lettered(h, i)) : \E k \in Lettered(h, i) :
        Cardinality(Before(Lettered(h, i), k)) = m

(* What one more letter does to ranks and texts.                           *)
LEMMA OneMoreLetter ==
    ASSUME NEW h \in Seq(Event), NEW e \in Event, NEW i
    PROVE  LET n == Len(h) + 1  g == Append(h, e)
               count == Cardinality(Lettered(h, i)) IN
           /\ \A k \in Lettered(h, i) :
                 Before(Lettered(g, i), k) = Before(Lettered(h, i), k)
           /\ n \in Lettered(g, i) =>
                 /\ Cardinality(Before(Lettered(g, i), n)) = count + 1
                 /\ Cardinality(Lettered(g, i)) = count + 1
                 /\ Lettered(g, i) = Lettered(h, i) \cup {n}
           /\ n \notin Lettered(g, i) => Lettered(g, i) = Lettered(h, i)
<1> DEFINE n == Len(h) + 1  g == Append(h, e)
           count == Cardinality(Lettered(h, i))
<1>1. /\ IsFiniteSet(Lettered(h, i)) /\ Lettered(h, i) \subseteq DOMAIN h
      /\ Lettered(h, i) \subseteq Nat
  BY LetteredIsFinite
<1>2. \A k \in DOMAIN h : k < n
  BY LongerHistory
<1>3. n \in Nat /\ n \notin DOMAIN h
  BY LongerHistory
<1>4. Lettered(g, i) \in {Lettered(h, i), Lettered(h, i) \cup {n}}
  BY OneMore
<1>5. \A k \in Lettered(h, i) : Before(Lettered(g, i), k) = Before(Lettered(h, i), k)
  <2> HIDE DEF n, g
  <2> QED BY <1>1, <1>2, <1>3, <1>4 DEF Before
<1>6. ASSUME n \in Lettered(g, i)
      PROVE  /\ Cardinality(Before(Lettered(g, i), n)) = count + 1
             /\ Cardinality(Lettered(g, i)) = count + 1
             /\ Lettered(g, i) = Lettered(h, i) \cup {n}
  <2> HIDE DEF n, g
  <2>1. Lettered(g, i) = Lettered(h, i) \cup {n}
    BY <1>4, <1>6, <1>3, <1>1
  <2>2. Before(Lettered(g, i), n) = Lettered(h, i) \cup {n}
    BY <2>1, <1>1, <1>2, <1>3 DEF Before
  <2>3. Cardinality(Lettered(h, i) \cup {n}) = count + 1
    BY <1>1, <1>3, FS_AddElement
  <2> QED BY <2>1, <2>2, <2>3
<1>7. n \notin Lettered(g, i) => Lettered(g, i) = Lettered(h, i)
  <2> HIDE DEF n, g
  <2> QED BY <1>4
<1> QED BY <1>5, <1>6, <1>7

LEMMA RankedStep ==
    ASSUME NEW h \in Seq(Event), NEW e \in Event, NEW i, Ranked(h, i)
    PROVE  Ranked(Append(h, e), i)
<1> DEFINE n == Len(h) + 1  g == Append(h, e)
           count == Cardinality(Lettered(h, i))
<1>0. count \in Nat
  BY LetteredIsFinite
<1>1. CASE n \notin Lettered(g, i)
  BY <1>1, OneMoreLetter DEF Ranked
<1>2. CASE n \in Lettered(g, i)
  <2>1. /\ Lettered(g, i) = Lettered(h, i) \cup {n}
        /\ Cardinality(Lettered(g, i)) = count + 1
        /\ Cardinality(Before(Lettered(g, i), n)) = count + 1
    BY <1>2, OneMoreLetter
  <2>2. \A k \in Lettered(h, i) :
           Before(Lettered(g, i), k) = Before(Lettered(h, i), k)
    BY OneMoreLetter
  <2> HIDE DEF n, g
  <2> SUFFICES ASSUME NEW m \in 1..(count + 1)
               PROVE  \E k \in Lettered(g, i) :
                          Cardinality(Before(Lettered(g, i), k)) = m
    BY <2>1 DEF Ranked, g
  <2>3. CASE m = count + 1
    BY <2>3, <2>1
  <2>4. CASE m \in 1..count
    BY <2>4, <2>1, <2>2 DEF Ranked
  <2> QED BY <2>3, <2>4, <1>0
<1> QED BY <1>1, <1>2

(* A history spells at most one text for an output, and an event that adds *)
(* no letter to the output leaves it as it is.                             *)
LEMMA SpelledOnce ==
    ASSUME NEW h \in Seq(Event), NEW i, Ranked(h, i),
           NEW s \in Texts, NEW t \in Texts, Spells(h, i, s), Spells(h, i, t)
    PROVE  s = t
<1>1. Len(s) = Len(t) /\ Len(s) = Cardinality(Lettered(h, i))
  BY DEF Spells
<1>2. \A m \in 1..Len(s) : s[m] = t[m]
  BY <1>1 DEF Spells, Ranked
<1> QED BY <1>1, <1>2, SeqEqual DEF Texts

LEMMA SpellsSame ==
    ASSUME NEW h \in Seq(Event), NEW e \in Event, NEW i, NEW t,
           ~(IsDelta(e) /\ e.index = i)
    PROVE  Spells(Append(h, e), i, t) <=> Spells(h, i, t)
<1>1. Lettered(Append(h, e), i) = Lettered(h, i)
  BY OneMore
<1>2. \A k \in Lettered(h, i) : Append(h, e)[k] = h[k]
  BY LetteredIsFinite, LongerHistory
<1> QED BY <1>1, <1>2 DEF Spells

LEMMA SpellsMore ==
    ASSUME NEW h \in Seq(Event), NEW e \in Event, NEW i, NEW t \in Texts,
           IsDelta(e), e.index = i, Spells(h, i, t)
    PROVE  Add(t, e.letter) \in Texts /\ Spells(Append(h, e), i, Add(t, e.letter))
<1> DEFINE n == Len(h) + 1  g == Append(h, e)  count == Cardinality(Lettered(h, i))
<1>1. Len(t) = count /\ count \in Nat
  BY LetteredIsFinite DEF Spells
<1>2. /\ \A k \in Lettered(h, i) :
            /\ Before(Lettered(g, i), k) = Before(Lettered(h, i), k)
            /\ g[k] = h[k]
      /\ g[n] = e
  BY OneMoreLetter, LetteredIsFinite, LongerHistory
<1>3. CASE e.letter = Blank
  <2>1. Lettered(g, i) = Lettered(h, i)
    BY <1>3, OneMore
  <2> QED BY <1>2, <1>3, <2>1 DEF Spells, Add
<1>4. CASE e.letter # Blank
  <2>1. n \in Lettered(g, i)
    BY <1>4, OneMore
  <2>2. /\ Lettered(g, i) = Lettered(h, i) \cup {n}
        /\ Cardinality(Lettered(g, i)) = count + 1
        /\ Cardinality(Before(Lettered(g, i), n)) = count + 1
    BY <2>1, OneMoreLetter
  <2>3. e.letter \in Letters
    BY <1>4, EventFields
  <2>4. /\ Append(t, e.letter) \in Texts /\ Len(Append(t, e.letter)) = count + 1
        /\ \A m \in 1..count : Append(t, e.letter)[m] = t[m]
        /\ Append(t, e.letter)[count + 1] = e.letter
    BY <2>3, <1>1 DEF Texts
  <2>5. \A k \in Lettered(h, i) : Cardinality(Before(Lettered(h, i), k)) \in 1..count
    <3> SUFFICES ASSUME NEW k \in Lettered(h, i)
                 PROVE  Cardinality(Before(Lettered(h, i), k)) \in 1..count
      OBVIOUS
    <3>1. IsFiniteSet(Lettered(h, i)) /\ k \in Nat
      BY LetteredIsFinite
    <3>2. Before(Lettered(h, i), k) \subseteq Lettered(h, i)
          /\ k \in Before(Lettered(h, i), k)
      BY <3>1 DEF Before
    <3>3. /\ IsFiniteSet(Before(Lettered(h, i), k))
          /\ Cardinality(Before(Lettered(h, i), k)) <= count
      BY <3>1, <3>2, FS_Subset
    <3>4. Cardinality(Before(Lettered(h, i), k)) # 0
      BY <3>2, <3>3, FS_EmptySet
    <3> QED BY <3>3, <3>4, <1>1, FS_CardinalityType
  <2> HIDE DEF n, g
  <2>6. \A k \in Lettered(g, i) :
          Append(t, e.letter)[Cardinality(Before(Lettered(g, i), k))] = g[k].letter
    <3> SUFFICES ASSUME NEW k \in Lettered(g, i)
                 PROVE  Append(t, e.letter)[Cardinality(Before(Lettered(g, i), k))]
                           = g[k].letter
      OBVIOUS
    <3>1. CASE k = n
      BY <3>1, <2>2, <2>4, <1>2
    <3>2. CASE k \in Lettered(h, i)
      BY <3>2, <2>4, <2>5, <1>2 DEF Spells
    <3> QED BY <3>1, <3>2, <2>2
  <2> QED BY <1>4, <2>2, <2>4, <2>6 DEF Spells, Add, g
<1> QED BY <1>3, <1>4

----------------------------------------------------------------------------
(* A lawful history that one more event leaves lawful.                     *)
Continues(h, e) ==
    LET g == Append(h, e) IN
    /\ e.in_order
    /\ e.provider = g[1].provider
    /\ e.kind = "started" <=> Len(h) = 0
    /\ e.kind = "started" => e.request_id = request.request_id
    /\ e.kind \in {"completed", "usage"} => e.payload \in {None, e.provider}
    /\ e.kind = "terminal" => Answers(request, e.response) /\ Closes(g, e.response)
    /\ HasIndex(e) => OutputLawful(g, e.index)
    /\ e.kind = "usage" => \A k \in DOMAIN h : h[k].kind # "usage"

Open(h) == \A k \in DOMAIN h : h[k].kind # "terminal"

LEMMA OtherOutputs ==
    ASSUME NEW h \in Seq(Event), NEW e \in Event, NEW i,
           ~(HasIndex(e) /\ e.index = i)
    PROVE  OutputLawful(Append(h, e), i) <=> OutputLawful(h, i)
<1> DEFINE g == Append(h, e)
<1>1. Deltas(g, i) = Deltas(h, i) /\ Completions(g, i) = Completions(h, i)
  BY OneMore DEF HasIndex
<1>2. \A k \in Deltas(h, i) \cup Completions(h, i) : g[k] = h[k]
  BY LongerHistory DEF Deltas, Completions
<1>3. \A t : Spells(g, i, t) <=> Spells(h, i, t)
  BY SpellsSame DEF HasIndex
<1> HIDE DEF g
<1>4. OutputLawful(g, i) <=> OutputLawful(h, i)
  BY <1>1, <1>2, <1>3 DEF OutputLawful
<1> QED BY <1>4 DEF g

LEMMA LawfulStepwise ==
    ASSUME NEW h \in Seq(Event), NEW e \in Event, Lawful(request, h), Open(h)
    PROVE  Lawful(request, Append(h, e)) <=> Continues(h, e)
<1> DEFINE n == Len(h) + 1  g == Append(h, e)
<1>1. /\ DOMAIN g = DOMAIN h \cup {n} /\ g[n] = e /\ n \notin DOMAIN h /\ n \in Nat
      /\ \A k \in DOMAIN h : g[k] = h[k] /\ k < n /\ k \in Nat /\ (k = 1 => n # 1)
      /\ Len(g) = n /\ (n = 1 <=> Len(h) = 0)
      /\ n # 1 => 1 \in DOMAIN h
  BY LongerHistory
<1>2. ASSUME Lawful(request, g) PROVE Continues(h, e)
  <2> HIDE DEF n, g
  <2> QED BY <1>1, <1>2 DEF Lawful, Continues, g
<1>3. ASSUME Continues(h, e) PROVE Lawful(request, g)
  <2>1. \A k \in DOMAIN h : HasIndex(h[k]) => OutputLawful(g, h[k].index)
    <3> SUFFICES ASSUME NEW k \in DOMAIN h, HasIndex(h[k])
                 PROVE  OutputLawful(g, h[k].index)
      OBVIOUS
    <3>1. OutputLawful(h, h[k].index)
      BY DEF Lawful
    <3>2. CASE HasIndex(e) /\ e.index = h[k].index
      BY <3>2, <1>3 DEF Continues
    <3>3. CASE ~(HasIndex(e) /\ e.index = h[k].index)
      BY <3>1, <3>3, OtherOutputs
    <3> QED BY <3>2, <3>3
  <2>2. /\ e.in_order
        /\ e.provider = g[1].provider
        /\ e.kind = "started" <=> n = 1
        /\ e.kind = "started" => e.request_id = request.request_id
        /\ e.kind \in {"completed", "usage"} => e.payload \in {None, e.provider}
        /\ e.kind = "terminal" => Answers(request, e.response) /\ Closes(g, e.response)
        /\ HasIndex(e) => OutputLawful(g, e.index)
        /\ e.kind = "usage" => \A k \in DOMAIN h : h[k].kind # "usage"
    BY <1>3, <1>1 DEF Continues
  <2> HIDE DEF n, g
  <2>3. ASSUME NEW k \in DOMAIN h
        PROVE  /\ g[k].in_order
               /\ g[k].provider = g[1].provider
               /\ g[k].kind = "started" <=> k = 1
               /\ g[k].kind = "started" => g[k].request_id = request.request_id
               /\ g[k].kind \in {"completed", "usage"}
                     => g[k].payload \in {None, g[k].provider}
               /\ g[k].kind # "terminal"
               /\ HasIndex(g[k]) => OutputLawful(g, g[k].index)
    <3>1. g[k] = h[k] /\ 1 \in DOMAIN h
      BY <1>1
    <3>2. g[1] = h[1]
      BY <1>1, <3>1
    <3> QED BY <2>1, <2>3, <3>1, <3>2 DEF Lawful, Open
  <2>4. \A j, k \in DOMAIN g : g[j].kind = "usage" /\ g[k].kind = "usage" => j = k
    BY <2>2, <1>1 DEF Lawful
  <2> QED BY <2>2, <2>3, <2>4, <1>1 DEF Lawful
<1> QED BY <1>2, <1>3

----------------------------------------------------------------------------
(* The collector's dictionaries say of the accepted events what its checks *)
(* need to know.                                                           *)
StartInv ==
    /\ events = <<>> <=> started = NoStart
    /\ events # <<>> => started = events[1]

Kind(kind) == {k \in DOMAIN events : events[k].kind = kind}

TextInv ==
    /\ DOMAIN text_parts = {events[k].index : k \in Kind("text")}
    /\ \A i \in DOMAIN text_parts : Spells(events, i, text_parts[i])

ToolInv ==
    /\ DOMAIN tool_parts = {events[k].index : k \in Kind("tool")}
    /\ \A i \in DOMAIN tool_parts :
          /\ Spells(events, i, tool_parts[i].text)
          /\ \A k \in Deltas(events, i) :
                /\ events[k].name = tool_parts[i].name
                /\ events[k].call_id \in {None, tool_parts[i].call_id}
          /\ tool_parts[i].call_id # None
                => \E k \in Deltas(events, i) :
                      events[k].call_id = tool_parts[i].call_id

OutputInv ==
    /\ DOMAIN outputs = {events[k].index : k \in Kind("completed")}
    /\ \A k \in Kind("completed") : outputs[events[k].index] = events[k].output

UsageInv ==
    /\ reported_usage = None <=> Kind("usage") = {}
    /\ \A k \in Kind("usage") : events[k].usage = reported_usage

RankInv == \A i \in Nat : Ranked(events, i)

Corresponds == StartInv /\ TextInv /\ ToolInv /\ OutputInv /\ UsageInv /\ RankInv

IInv == /\ TypeOK /\ Corresponds
        /\ Lawful(request, events)
        /\ outcome = "none" => Open(events)

(* The checks, event by event, are what a lawful continuation needs.       *)
LEMMA InSequenceContinues ==
    ASSUME TypeOK, StartInv, Lawful(request, events), NEW e \in Event
    PROVE  InSequence(e) /\ (e.kind = "started" => started = NoStart)
              <=> /\ e.in_order /\ e.provider = Append(events, e)[1].provider
                  /\ e.kind = "started" <=> Len(events) = 0
<1>1. CASE events = <<>>
  <2>1. Append(events, e)[1] = e /\ Len(events) = 0
    BY <1>1
  <2>2. e.in_order \in BOOLEAN
    BY DEF Event, StartEvent, TextEvent, ToolEvent, OutputEvent, UsageEvent,
           UnknownEvent, TerminalEvent
  <2> QED BY <1>1, <2>1, <2>2 DEF StartInv, InSequence
<1>2. CASE events # <<>>
  <2>1. events \in Seq(Event) /\ Len(events) # 0 /\ 1 \in DOMAIN events
    BY <1>2 DEF TypeOK
  <2>2. Append(events, e)[1] = started
    BY <1>2, <2>1, LongerHistory DEF StartInv
  <2>3. started # NoStart
    BY <1>2 DEF StartInv
  <2> QED BY <2>1, <2>2, <2>3 DEF InSequence
<1> QED BY <1>1, <1>2

LEMMA DeltasByKind ==
    ASSUME TypeOK, TextInv, ToolInv, OutputInv, NEW i
    PROVE  /\ i \in DOMAIN text_parts
                <=> \E k \in Deltas(events, i) : events[k].kind = "text"
           /\ i \in DOMAIN tool_parts
                <=> \E k \in Deltas(events, i) : events[k].kind = "tool"
           /\ i \in DOMAIN outputs <=> Completions(events, i) # {}
           /\ \A c \in Completions(events, i) : outputs[i] = events[c].output
<1>1. i \in DOMAIN text_parts
         <=> \E k \in Deltas(events, i) : events[k].kind = "text"
  BY DEF TextInv, Kind, Deltas, IsDelta
<1>2. i \in DOMAIN tool_parts
         <=> \E k \in Deltas(events, i) : events[k].kind = "tool"
  BY DEF ToolInv, Kind, Deltas, IsDelta
<1>3. i \in DOMAIN outputs <=> Completions(events, i) # {}
  BY DEF OutputInv, Kind, Completions
<1>4. \A c \in Completions(events, i) : outputs[i] = events[c].output
  BY DEF OutputInv, Kind, Completions
<1> QED BY <1>1, <1>2, <1>3, <1>4

(* What is lawful about an output holds of one nobody has spoken of.       *)
LEMMA OutputsAreLawful ==
    ASSUME Lawful(request, events), NEW i
    PROVE  OutputLawful(events, i)
<1>1. CASE Deltas(events, i) \cup Completions(events, i) = {}
  BY <1>1 DEF OutputLawful
<1>2. CASE Deltas(events, i) \cup Completions(events, i) # {}
  <2>1. PICK k \in DOMAIN events : HasIndex(events[k]) /\ events[k].index = i
    BY <1>2 DEF Deltas, Completions, HasIndex
  <2> QED BY <2>1 DEF Lawful
<1> QED BY <1>1, <1>2

LEMMA TextContinues ==
    ASSUME IInv, NEW e \in Event, e.kind = "text"
    PROVE  OutputLawful(Append(events, e), e.index) <=> TextFits(e)
<1> DEFINE n == Len(events) + 1  g == Append(events, e)  i == e.index
<1>1. events \in Seq(Event)
  BY DEF IInv, TypeOK
<1>2. /\ Deltas(g, i) = Deltas(events, i) \cup {n}
      /\ Completions(g, i) = Completions(events, i)
      /\ g[n] = e
      /\ \A k \in Deltas(events, i) \cup Completions(events, i) :
            g[k] = events[k] /\ k < n /\ k \in Nat /\ events[k] \in Event
  BY <1>1, OneMore, LongerHistory DEF IsDelta, Deltas, Completions
<1>3. OutputLawful(events, i)
  BY OutputsAreLawful DEF IInv
<1>4. /\ i \in DOMAIN tool_parts
            <=> \E k \in Deltas(events, i) : events[k].kind = "tool"
      /\ i \in DOMAIN outputs <=> Completions(events, i) # {}
  BY DeltasByKind DEF IInv, Corresponds
<1>5. \A k \in Deltas(events, i) : events[k].kind \in {"text", "tool"}
  BY DEF Deltas, IsDelta
<1>6. n \in Nat
  BY <1>1
<1> HIDE DEF n, g
<1>7. OutputLawful(g, i) => TextFits(e)
  BY <1>2, <1>4, <1>6 DEF OutputLawful, Alike, TextFits
<1>8. TextFits(e) => OutputLawful(g, i)
  BY <1>2, <1>3, <1>4, <1>5 DEF OutputLawful, Alike, TextFits
<1> QED BY <1>7, <1>8 DEF g

LEMMA ToolContinues ==
    ASSUME IInv, NEW e \in Event, e.kind = "tool"
    PROVE  OutputLawful(Append(events, e), e.index) <=> ToolFits(e)
<1> DEFINE n == Len(events) + 1  g == Append(events, e)  i == e.index
<1>1. events \in Seq(Event)
  BY DEF IInv, TypeOK
<1>2. /\ Deltas(g, i) = Deltas(events, i) \cup {n}
      /\ Completions(g, i) = Completions(events, i)
      /\ g[n] = e
      /\ \A k \in Deltas(events, i) \cup Completions(events, i) :
            g[k] = events[k] /\ k < n /\ k \in Nat /\ events[k] \in Event
  BY <1>1, OneMore, LongerHistory DEF IsDelta, Deltas, Completions
<1>3. OutputLawful(events, i)
  BY OutputsAreLawful DEF IInv
<1>4. /\ i \in DOMAIN text_parts
            <=> \E k \in Deltas(events, i) : events[k].kind = "text"
      /\ i \in DOMAIN tool_parts
            <=> \E k \in Deltas(events, i) : events[k].kind = "tool"
      /\ i \in DOMAIN outputs <=> Completions(events, i) # {}
  BY DeltasByKind DEF IInv, Corresponds
<1>5. \A k \in Deltas(events, i) : events[k].kind \in {"text", "tool"}
  BY DEF Deltas, IsDelta
<1>6. n \in Nat
  BY <1>1
<1>a. i \in DOMAIN tool_parts =>
        /\ \A k \in Deltas(events, i) :
              /\ events[k].name = tool_parts[i].name
              /\ events[k].call_id \in {None, tool_parts[i].call_id}
        /\ tool_parts[i].call_id # None
              => \E k \in Deltas(events, i) :
                    events[k].call_id = tool_parts[i].call_id
  BY DEF IInv, Corresponds, ToolInv
<1> HIDE DEF n, g
<1>7. OutputLawful(g, i) => ToolFits(e)
  <2> HAVE OutputLawful(g, i)
  <2>1. i \notin DOMAIN outputs \cup DOMAIN text_parts
    BY <1>2, <1>4, <1>6 DEF OutputLawful, Alike
  <2>2. \A k \in Deltas(events, i) :
           /\ events[k].name = e.name
           /\ events[k].call_id = e.call_id \/ None \in {events[k].call_id, e.call_id}
    BY <1>2 DEF OutputLawful, Alike
  <2>3. CASE i \in DOMAIN tool_parts
    BY <1>a, <2>1, <2>2, <2>3, <1>4 DEF ToolFits, Current
  <2>4. CASE i \notin DOMAIN tool_parts
    BY <2>1, <2>4 DEF ToolFits, Current
  <2> QED BY <2>3, <2>4
<1>8. ToolFits(e) => OutputLawful(g, i)
  <2> HAVE ToolFits(e)
  <2>1. Completions(g, i) = {} /\ \A k \in Deltas(events, i) : events[k].kind = "tool"
    BY <1>2, <1>4, <1>5 DEF ToolFits
  <2>2. \A k \in Deltas(events, i) :
           /\ events[k].name = e.name
           /\ events[k].call_id = e.call_id \/ None \in {events[k].call_id, e.call_id}
    BY <1>a, <1>4, <2>1 DEF ToolFits, Current
  <2>3. \A j, k \in Deltas(g, i) : Alike(g[j], g[k])
    BY <1>2, <1>3, <2>1, <2>2 DEF OutputLawful, Alike
  <2> QED BY <2>1, <2>3 DEF OutputLawful
<1> QED BY <1>7, <1>8 DEF g

LEMMA OutputContinues ==
    ASSUME IInv, NEW e \in Event, e.kind = "completed"
    PROVE  OutputLawful(Append(events, e), e.index) /\ e.payload \in {None, e.provider}
              <=> OutputFits(e)
<1> DEFINE n == Len(events) + 1  g == Append(events, e)  i == e.index
           out == e.output
<1>1. events \in Seq(Event) /\ out \in Output /\ i \in Nat
  BY EventFields DEF IInv, TypeOK, HasIndex
<1>2. /\ Deltas(g, i) = Deltas(events, i)
      /\ Completions(g, i) = Completions(events, i) \cup {n}
      /\ g[n] = e
      /\ \A k \in Deltas(events, i) \cup Completions(events, i) :
            g[k] = events[k] /\ k < n /\ k \in Nat /\ k # n
  BY <1>1, OneMore, LongerHistory DEF IsDelta, Deltas, Completions
<1>3. OutputLawful(events, i)
  BY OutputsAreLawful DEF IInv
<1>4. /\ i \in DOMAIN text_parts
            <=> \E k \in Deltas(events, i) : events[k].kind = "text"
      /\ i \in DOMAIN tool_parts
            <=> \E k \in Deltas(events, i) : events[k].kind = "tool"
      /\ i \in DOMAIN outputs <=> Completions(events, i) # {}
  BY DeltasByKind DEF IInv, Corresponds
<1>5. \A k \in Deltas(events, i) : events[k].kind \in {"text", "tool"}
  BY DEF Deltas, IsDelta
<1>6. \A t : Spells(g, i, t) <=> Spells(events, i, t)
  BY <1>1, SpellsSame DEF IsDelta
<1>7. \A s, t \in Texts : Spells(events, i, s) /\ Spells(events, i, t) => s = t
  BY <1>1, SpelledOnce DEF IInv, Corresponds, RankInv
<1>8. i \in DOMAIN text_parts =>
        text_parts[i] \in Texts /\ Spells(events, i, text_parts[i])
  BY DEF IInv, TypeOK, Corresponds, TextInv
<1>9. i \in DOMAIN tool_parts =>
        /\ tool_parts[i].text \in Texts /\ Spells(events, i, tool_parts[i].text)
        /\ \A k \in Deltas(events, i) :
              /\ events[k].name = tool_parts[i].name
              /\ events[k].call_id \in {None, tool_parts[i].call_id}
        /\ tool_parts[i].call_id # None
              => \E k \in Deltas(events, i) :
                    events[k].call_id = tool_parts[i].call_id
  BY DEF IInv, TypeOK, Accumulators, Corresponds, ToolInv
<1>10. None \notin Texts
  BY EventsAssumption DEF Texts
<1> DEFINE Agrees == \A k \in Deltas(events, i) :
                        Announced(events[k], out) /\ Spells(events, i, out.text)
<1>11. OutputLawful(g, i) <=> i \notin DOMAIN outputs /\ Agrees
  <2> HIDE DEF n, g, out
  <2>1. OutputLawful(g, i) => i \notin DOMAIN outputs /\ Agrees
    BY <1>2, <1>4, <1>6 DEF OutputLawful, out
  <2>2. i \notin DOMAIN outputs /\ Agrees => OutputLawful(g, i)
    BY <1>2, <1>3, <1>4, <1>6 DEF OutputLawful, out
  <2> QED BY <2>1, <2>2
<1> HIDE DEF n, g, out
<1>12. CASE i \notin DOMAIN text_parts \cup DOMAIN tool_parts
  <2>1. Deltas(events, i) = {}
    BY <1>4, <1>5, <1>12
  <2> QED BY <1>11, <1>12, <2>1 DEF OutputFits, g
<1>13. CASE i \in DOMAIN text_parts
  <2>1. /\ Deltas(events, i) # {} /\ i \notin DOMAIN tool_parts
        /\ \A k \in Deltas(events, i) : events[k].kind = "text"
    BY <1>3, <1>4, <1>5, <1>13 DEF OutputLawful, Alike
  <2>2. Agrees <=> IsText(out) /\ Spells(events, i, out.text)
    BY <2>1 DEF Announced
  <2>3. IsText(out) => out.text \in Texts
    BY <1>1, OutputFields
  <2>4. Agrees <=> IsText(out) /\ out.text = text_parts[i]
    BY <2>2, <2>3, <1>7, <1>8, <1>13
  <2> QED BY <1>11, <1>13, <2>1, <2>4 DEF OutputFits, g, out
<1>14. CASE i \in DOMAIN tool_parts
  <2>1. /\ Deltas(events, i) # {} /\ i \notin DOMAIN text_parts
        /\ \A k \in Deltas(events, i) : events[k].kind = "tool"
    BY <1>3, <1>4, <1>5, <1>14 DEF OutputLawful, Alike
  <2>2. Agrees <=> /\ \A k \in Deltas(events, i) : events[k].call_id \in {None, out.call_id}
                   /\ out.type = "tool" /\ out.name = tool_parts[i].name
                   /\ out.text # None /\ Spells(events, i, out.text)
    BY <2>1, <1>9, <1>14 DEF Announced
  <2>3. (\A k \in Deltas(events, i) : events[k].call_id \in {None, out.call_id})
          <=> tool_parts[i].call_id \in {None, out.call_id}
    BY <1>9, <1>14, <2>1
  <2>4. out.type = "tool" => out.text \in Texts \cup {None}
    BY <1>1, OutputFields DEF Optional
  <2>5. out.type = "tool" =>
          (out.text # None /\ Spells(events, i, out.text) <=> out.text = tool_parts[i].text)
    BY <2>4, <1>7, <1>9, <1>10, <1>14
  <2>6. Agrees <=> /\ tool_parts[i].call_id \in {None, out.call_id}
                   /\ out.type = "tool" /\ out.name = tool_parts[i].name
                   /\ out.text = tool_parts[i].text
    BY <2>2, <2>3, <2>5
  <2> QED BY <1>11, <1>14, <2>1, <2>6 DEF OutputFits, g, out
<1> QED BY <1>12, <1>13, <1>14

LEMMA TerminalContinues ==
    ASSUME IInv, events # <<>>, NEW e \in Event, e.kind = "terminal"
    PROVE  Closes(Append(events, e), e.response) <=> TerminalFits(e.response)
<1> DEFINE n == Len(events) + 1  g == Append(events, e)  r == e.response
           size == Len(r.outputs)
<1>1. events \in Seq(Event) /\ r \in Response /\ size \in Nat
      /\ DOMAIN r.outputs = 1..size
  BY EventFields DEF IInv, TypeOK, Response
<1>2. /\ DOMAIN g = DOMAIN events \cup {n} /\ g[n] = e /\ 1 \in DOMAIN events
      /\ \A k \in DOMAIN events : g[k] = events[k] /\ events[k] \in Event
  BY <1>1, LongerHistory
<1>3. g[1] = started
  BY <1>2 DEF IInv, Corresponds, StartInv
<1>4. \A j : Completions(g, j) = Completions(events, j)
  BY <1>1, OneMore
<1>5. /\ \A j : j \in DOMAIN outputs <=> Completions(events, j) # {}
      /\ \A j : \A c \in Completions(events, j) :
            outputs[j] = events[c].output /\ c \in DOMAIN events
  BY DeltasByKind DEF IInv, Corresponds, Completions
<1>6. DOMAIN text_parts \cup DOMAIN tool_parts \cup DOMAIN outputs
         = {events[k].index : k \in {k \in DOMAIN events : HasIndex(events[k])}}
  BY DEF IInv, Corresponds, TextInv, ToolInv, OutputInv, Kind, HasIndex, IsDelta
<1>7. DOMAIN text_parts \cup DOMAIN tool_parts \cup DOMAIN outputs \subseteq Nat
  BY DEF IInv, TypeOK
<1>8. (\A k \in DOMAIN g : HasIndex(g[k]) => g[k].index < size)
         <=> DOMAIN text_parts \cup DOMAIN tool_parts \cup DOMAIN outputs
                \subseteq 0..(size - 1)
  <2>1. ~HasIndex(g[n])
    BY <1>2 DEF HasIndex, IsDelta
  <2> HIDE DEF n, g, size
  <2>2. (\A k \in DOMAIN g : HasIndex(g[k]) => g[k].index < size)
           <=> \A k \in DOMAIN events : HasIndex(events[k]) => events[k].index < size
    BY <1>2, <2>1
  <2> DEFINE Indexes == DOMAIN text_parts \cup DOMAIN tool_parts \cup DOMAIN outputs
  <2>3. (\A k \in DOMAIN events : HasIndex(events[k]) => events[k].index < size)
           <=> \A i \in Indexes : i < size
    BY <1>6
  <2>4. Indexes \subseteq Nat
    BY <1>7
  <2> HIDE DEF Indexes
  <2>5. (\A i \in Indexes : i < size) <=> Indexes \subseteq 0..(size - 1)
    BY <1>1, <2>4
  <2> QED BY <2>2, <2>3, <2>5 DEF Indexes
<1>9. (\A k \in DOMAIN g : g[k].kind = "usage" => g[k].usage = r.usage)
         <=> reported_usage \in {None, r.usage}
  <2>1. g[n].kind # "usage"
    BY <1>2
  <2> HIDE DEF n, g, r
  <2>2. (\A k \in DOMAIN g : g[k].kind = "usage" => g[k].usage = r.usage)
           <=> \A k \in Kind("usage") : events[k].usage = r.usage
    BY <1>2, <2>1 DEF Kind
  <2> QED BY <2>2 DEF IInv, Corresponds, UsageInv
<1>10. (\A m \in DOMAIN r.outputs : \E c \in Completions(g, m - 1) :
             g[c].output = r.outputs[m])
         <=> \A m \in DOMAIN r.outputs :
                m - 1 \in DOMAIN outputs /\ outputs[m - 1] = r.outputs[m]
  <2> HIDE DEF n, g, r
  <2> QED BY <1>2, <1>4, <1>5
<1>11. (\A m \in DOMAIN r.outputs : m - 1 \in DOMAIN outputs)
          <=> 0..(size - 1) \subseteq DOMAIN outputs
  <2> HIDE DEF size, r
  <2>1. ASSUME \A m \in DOMAIN r.outputs : m - 1 \in DOMAIN outputs,
               NEW j \in 0..(size - 1)
        PROVE  j \in DOMAIN outputs
    <3>1. j + 1 \in DOMAIN r.outputs /\ (j + 1) - 1 = j
      BY <1>1
    <3> QED BY <2>1, <3>1
  <2>2. ASSUME 0..(size - 1) \subseteq DOMAIN outputs, NEW m \in DOMAIN r.outputs
        PROVE  m - 1 \in DOMAIN outputs
    BY <1>1, <2>2
  <2> QED BY <2>1, <2>2
<1> HIDE DEF n, g, r, size
<1>12. Closes(g, r) <=>
          /\ r.provider = started.provider /\ r.request_id = started.request_id
          /\ started.response_id \in {None, r.response_id}
          /\ started.model \in {None, r.model}
          /\ \A m \in DOMAIN r.outputs :
                m - 1 \in DOMAIN outputs /\ outputs[m - 1] = r.outputs[m]
          /\ DOMAIN text_parts \cup DOMAIN tool_parts \cup DOMAIN outputs
                \subseteq 0..(size - 1)
          /\ reported_usage \in {None, r.usage}
  BY <1>3, <1>8, <1>9, <1>10 DEF Closes, size
<1>13. TerminalFits(r) <=>
          /\ r.provider = started.provider /\ r.request_id = started.request_id
          /\ started.response_id \in {None, r.response_id}
          /\ started.model \in {None, r.model}
          /\ \A m \in DOMAIN r.outputs :
                m - 1 \in DOMAIN outputs /\ outputs[m - 1] = r.outputs[m]
          /\ DOMAIN text_parts \cup DOMAIN tool_parts \cup DOMAIN outputs
                \subseteq 0..(size - 1)
          /\ reported_usage \in {None, r.usage}
  BY <1>11 DEF TerminalFits, size
<1> QED BY <1>12, <1>13 DEF g, r

(* The heart of the matter: an event passes the client's and the           *)
(* collector's checks exactly if it continues the history lawfully.        *)
THEOREM FitsIffLawful ==
    ASSUME IInv, outcome = "none", NEW e \in Event
    PROVE  Emits(e) /\ Fits(e) <=> Lawful(request, Append(events, e))
<1>1. /\ events \in Seq(Event) /\ Lawful(request, events) /\ Open(events)
      /\ TypeOK /\ StartInv
  BY DEF IInv, TypeOK, Corresponds
<1>2. Lawful(request, Append(events, e)) <=> Continues(events, e)
  BY <1>1, LawfulStepwise
<1>3. InSequence(e) /\ (e.kind = "started" => started = NoStart)
         <=> /\ e.in_order /\ e.provider = Append(events, e)[1].provider
             /\ e.kind = "started" <=> Len(events) = 0
  BY <1>1, InSequenceContinues
<1>4. CASE e.kind \in {"started", "unknown"}
  BY <1>2, <1>3, <1>4 DEF Continues, Emits, Fits, HasIndex, IsDelta
<1>5. CASE e.kind = "text"
  BY <1>2, <1>3, <1>5, TextContinues DEF Continues, Emits, Fits, HasIndex, IsDelta
<1>6. CASE e.kind = "tool"
  BY <1>2, <1>3, <1>6, ToolContinues DEF Continues, Emits, Fits, HasIndex, IsDelta
<1>7. CASE e.kind = "completed"
  BY <1>2, <1>3, <1>7, OutputContinues DEF Continues, Emits, Fits, HasIndex, IsDelta
<1>8. CASE e.kind = "usage"
  <2>1. reported_usage = None <=> \A k \in DOMAIN events : events[k].kind # "usage"
    BY DEF IInv, Corresponds, UsageInv, Kind
  <2> QED BY <1>2, <1>3, <1>8, <2>1 DEF Continues, Emits, Fits, UsageFits, HasIndex, IsDelta
<1>9. CASE e.kind = "terminal"
  <2>1. CASE events = <<>>
    <3>1. ~Continues(events, e)
      BY <2>1, <1>9 DEF Continues
    <3>2. ~InSequence(e)
      BY <2>1, <1>1, <1>9 DEF InSequence, StartInv
    <3> QED BY <1>2, <3>1, <3>2 DEF Fits
  <2>2. CASE events # <<>>
    BY <1>2, <1>3, <1>9, <2>2, TerminalContinues
    DEF Continues, Emits, Fits, HasIndex, IsDelta
  <2> QED BY <2>1, <2>2
<1> QED BY <1>4, <1>5, <1>6, <1>7, <1>8, <1>9, EventFields

----------------------------------------------------------------------------
(* Every step keeps the dictionaries in step with the history.             *)
LEMMA Initially == Init => IInv
<1> SUFFICES ASSUME Init PROVE IInv
  OBVIOUS
<1>1. events = <<>> /\ DOMAIN events = {}
  BY DEF Init
<1>2. TypeOK
  <2>1. request \in Request
    BY AssemblyAssumption DEF Init
  <2>2. <<>> \in Seq(Event)
    OBVIOUS
  <2>3. DOMAIN text_parts = {} /\ DOMAIN tool_parts = {} /\ DOMAIN outputs = {}
    BY DEF Init
  <2> QED BY <2>1, <2>2, <2>3 DEF Init, TypeOK, Optional
<1>3. StartInv /\ TextInv /\ ToolInv /\ OutputInv /\ UsageInv
  <2>1. DOMAIN text_parts = {} /\ DOMAIN tool_parts = {} /\ DOMAIN outputs = {}
    BY DEF Init
  <2>2. \A kind : Kind(kind) = {}
    BY <1>1 DEF Kind
  <2>3. StartInv /\ UsageInv
    BY <2>2 DEF Init, StartInv, UsageInv
  <2> QED BY <2>1, <2>2, <2>3 DEF TextInv, ToolInv, OutputInv
<1>4. RankInv
  <2> SUFFICES ASSUME NEW i PROVE Ranked(events, i)
    BY DEF RankInv
  <2>1. Lettered(events, i) = {}
    BY <1>1 DEF Lettered, Deltas
  <2> QED BY <2>1, FS_EmptySet DEF Ranked
<1>5. Lawful(request, events) /\ Open(events)
  BY <1>1 DEF Lawful, Open
<1> QED BY <1>2, <1>3, <1>4, <1>5 DEF IInv, Corresponds

(* One more event of each kind.                                            *)
LEMMA OneMoreOfKind ==
    ASSUME events \in Seq(Event), NEW e \in Event, events' = Append(events, e), NEW kind
    PROVE  Kind(kind)' = IF e.kind = kind THEN Kind(kind) \cup {Len(events) + 1}
                         ELSE Kind(kind)
<1> DEFINE n == Len(events) + 1
<1>1. /\ DOMAIN events' = DOMAIN events \cup {n} /\ events'[n] = e
      /\ \A k \in DOMAIN events : events'[k] = events[k]
      /\ n \notin DOMAIN events
  BY LongerHistory
<1> HIDE DEF n
<1> QED BY <1>1 DEF Kind, n

LEMMA AcceptedType ==
    ASSUME IInv, outcome = "none", NEW e \in Events, Accept(e)
    PROVE  /\ e \in Event /\ events \in Seq(Event) /\ events' = Append(events, e)
           /\ request' = request /\ refused' = refused
           /\ events' \in Seq(Event) /\ events' # <<>>
           /\ Lawful(request, events)'
           /\ RankInv'
           /\ e.kind # "terminal" => Open(events)'
           /\ Len(events) + 1 \in DOMAIN events' /\ events'[Len(events) + 1] = e
           /\ \A k \in DOMAIN events : events'[k] = events[k]
           /\ events = <<>> => events'[1] = e
           /\ events # <<>> => events'[1] = events[1]
           /\ InSequence(e) /\ (e.kind = "started" => started = NoStart)
<1>1. e \in Event /\ events \in Seq(Event) /\ events' = Append(events, e)
  BY AssemblyAssumption DEF Accept, IInv, TypeOK
<1>2. request' = request /\ refused' = refused
  BY DEF Accept
<1>3. Lawful(request, events)'
  BY <1>1, <1>2, FitsIffLawful DEF Accept
<1>4. RankInv'
  BY <1>1, RankedStep DEF IInv, Corresponds, RankInv
<1>5. /\ Len(events) + 1 \in DOMAIN events' /\ events'[Len(events) + 1] = e
      /\ \A k \in DOMAIN events : events'[k] = events[k]
      /\ DOMAIN events' = DOMAIN events \cup {Len(events) + 1}
  BY <1>1, LongerHistory
<1>6. e.kind # "terminal" => Open(events)'
  BY <1>5 DEF IInv, Open
<1>7. events # <<>> => events'[1] = events[1]
  BY <1>1, <1>5
<1>8. events = <<>> => events'[1] = e
  BY <1>1
<1> QED BY <1>1, <1>2, <1>3, <1>4, <1>5, <1>6, <1>7, <1>8 DEF Accept, Fits

(* What an event leaves alone stays in step.                               *)
LEMMA StartKept ==
    ASSUME IInv, outcome = "none", NEW e \in Events, Accept(e),
           started' = IF e.kind = "started" THEN e ELSE started
    PROVE  StartInv'
<1>1. started = NoStart <=> events = <<>>
  BY DEF IInv, Corresponds, StartInv
<1>2. e.kind # "none"
  BY AcceptedType, EventFields
<1>3. CASE events = <<>>
  BY <1>1, <1>2, <1>3, AcceptedType DEF StartInv, NoStart, InSequence
<1>4. CASE events # <<>>
  <2>1. e.kind # "started" /\ started' = events[1]
    BY <1>1, <1>4, AcceptedType DEF IInv, Corresponds, StartInv
  <2> QED BY <1>1, <1>4, <2>1, AcceptedType DEF StartInv
<1> QED BY <1>3, <1>4

LEMMA TextKept ==
    ASSUME IInv, outcome = "none", NEW e \in Events, Accept(e), e.kind # "text",
           text_parts' = text_parts
    PROVE  TextInv'
<1>1. e \in Event /\ events \in Seq(Event) /\ events' = Append(events, e)
  BY AcceptedType
<1>2. Kind("text")' = Kind("text")
  BY <1>1, OneMoreOfKind
<1>3. DOMAIN text_parts' = {events'[k].index : k \in Kind("text")'}
  <2>1. \A k \in Kind("text") : events'[k] = events[k]
    BY AcceptedType DEF Kind
  <2> QED BY <1>2, <2>1 DEF IInv, Corresponds, TextInv
<1>4. ASSUME NEW i \in DOMAIN text_parts PROVE Spells(events', i, text_parts[i])
  <2>1. ~(IsDelta(e) /\ e.index = i)
    BY DEF Accept, Fits, ToolFits, IsDelta
  <2>2. Spells(events, i, text_parts[i])
    BY DEF IInv, Corresponds, TextInv
  <2> QED BY <1>1, <2>1, <2>2, SpellsSame
<1> QED BY <1>3, <1>4 DEF TextInv

LEMMA ToolKept ==
    ASSUME IInv, outcome = "none", NEW e \in Events, Accept(e), e.kind # "tool",
           tool_parts' = tool_parts
    PROVE  ToolInv'
<1>1. e \in Event /\ events \in Seq(Event) /\ events' = Append(events, e)
  BY AcceptedType
<1>2. Kind("tool")' = Kind("tool")
  BY <1>1, OneMoreOfKind
<1>3. DOMAIN tool_parts' = {events'[k].index : k \in Kind("tool")'}
  <2>1. \A k \in Kind("tool") : events'[k] = events[k]
    BY AcceptedType DEF Kind
  <2> QED BY <1>2, <2>1 DEF IInv, Corresponds, ToolInv
<1>4. ASSUME NEW i \in DOMAIN tool_parts
      PROVE  /\ Spells(events', i, tool_parts[i].text)
             /\ Deltas(events', i) = Deltas(events, i)
             /\ \A k \in Deltas(events, i) : events'[k] = events[k]
  <2>1. ~(IsDelta(e) /\ e.index = i)
    BY DEF Accept, Fits, TextFits, IsDelta
  <2>2. Spells(events, i, tool_parts[i].text)
    BY DEF IInv, Corresponds, ToolInv
  <2>3. Deltas(events', i) = Deltas(events, i)
    BY <1>1, <2>1, OneMore
  <2>4. \A k \in Deltas(events, i) : events'[k] = events[k]
    BY AcceptedType DEF Deltas
  <2> QED BY <1>1, <2>1, <2>2, <2>3, <2>4, SpellsSame
<1>5. \A i \in DOMAIN tool_parts :
         /\ \A k \in Deltas(events, i) :
               /\ events[k].name = tool_parts[i].name
               /\ events[k].call_id \in {None, tool_parts[i].call_id}
         /\ tool_parts[i].call_id # None
               => \E k \in Deltas(events, i) :
                     events[k].call_id = tool_parts[i].call_id
  BY DEF IInv, Corresponds, ToolInv
<1> QED BY <1>3, <1>4, <1>5 DEF ToolInv

LEMMA OutputKept ==
    ASSUME IInv, outcome = "none", NEW e \in Events, Accept(e), e.kind # "completed",
           outputs' = outputs
    PROVE  OutputInv'
<1>1. Kind("completed")' = Kind("completed")
  BY AcceptedType, OneMoreOfKind
<1>2. \A k \in Kind("completed") : events'[k] = events[k]
  BY AcceptedType DEF Kind
<1> QED BY <1>1, <1>2 DEF IInv, Corresponds, OutputInv

LEMMA UsageKept ==
    ASSUME IInv, outcome = "none", NEW e \in Events, Accept(e), e.kind # "usage",
           reported_usage' = reported_usage
    PROVE  UsageInv'
<1>1. Kind("usage")' = Kind("usage")
  BY AcceptedType, OneMoreOfKind
<1>2. \A k \in Kind("usage") : events'[k] = events[k]
  BY AcceptedType DEF Kind
<1> QED BY <1>1, <1>2 DEF IInv, Corresponds, UsageInv

(* What an event adds to.                                                  *)
LEMMA TextStep ==
    ASSUME IInv, outcome = "none", NEW e \in Events, AcceptText(e)
    PROVE  /\ TextInv'
           /\ \A i \in DOMAIN text_parts' : i \in Nat /\ text_parts'[i] \in Texts
<1> DEFINE n == Len(events) + 1  i == e.index
           text == IF i \in DOMAIN text_parts THEN text_parts[i] ELSE <<>>
<1>1. /\ e.kind = "text" /\ Accept(e)
      /\ text_parts' = With(text_parts, i, Add(text, e.letter))
      /\ i \notin DOMAIN tool_parts
  BY DEF AcceptText, Accept, Fits, TextFits
<1>2. e \in Event /\ events \in Seq(Event) /\ events' = Append(events, e)
  BY <1>1, AcceptedType
<1>3. IsDelta(e) /\ i \in Nat
  BY <1>1, <1>2, EventFields DEF IsDelta, HasIndex
<1>4. text \in Texts /\ Spells(events, i, text)
  <2>1. CASE i \in DOMAIN text_parts
    BY <2>1 DEF IInv, TypeOK, Corresponds, TextInv
  <2>2. CASE i \notin DOMAIN text_parts
    <3>1. Deltas(events, i) = {}
      BY <2>2, <1>1, DeltasByKind DEF IInv, Corresponds, Deltas, IsDelta
    <3>2. Lettered(events, i) = {}
      BY <3>1 DEF Lettered
    <3> QED BY <2>2, <3>2, FS_EmptySet DEF Spells, Texts
  <2> QED BY <2>1, <2>2
<1>5. Add(text, e.letter) \in Texts /\ Spells(events', i, Add(text, e.letter))
  BY <1>2, <1>3, <1>4, SpellsMore
<1>6. /\ DOMAIN text_parts' = DOMAIN text_parts \cup {i}
      /\ text_parts'[i] = Add(text, e.letter)
      /\ \A j \in DOMAIN text_parts : j # i => text_parts'[j] = text_parts[j]
  BY <1>1 DEF With
<1>7. DOMAIN text_parts' = {events'[k].index : k \in Kind("text")'}
  <2>1. Kind("text")' = Kind("text") \cup {n}
    BY <1>1, <1>2, OneMoreOfKind
  <2>2. \A k \in Kind("text") : events'[k] = events[k]
    BY <1>1, AcceptedType DEF Kind
  <2>3. events'[n] = e
    BY <1>1, AcceptedType
  <2>4. DOMAIN text_parts = {events[k].index : k \in Kind("text")}
    BY DEF IInv, Corresponds, TextInv
  <2> HIDE DEF n
  <2> QED BY <1>6, <2>1, <2>2, <2>3, <2>4
<1>8. \A j \in DOMAIN text_parts : j # i => Spells(events', j, text_parts[j])
  BY <1>2, SpellsSame DEF IInv, Corresponds, TextInv
<1> HIDE DEF text, n
<1>9. TextInv'
  BY <1>5, <1>6, <1>7, <1>8 DEF TextInv
<1>10. \A j \in DOMAIN text_parts' : j \in Nat /\ text_parts'[j] \in Texts
  BY <1>3, <1>5, <1>6 DEF IInv, TypeOK
<1> QED BY <1>9, <1>10

LEMMA Updated ==
    ASSUME NEW tp \in Accumulators, NEW id, NEW letter
    PROVE  [tp EXCEPT !.call_id = IF @ = None THEN id ELSE @, !.text = Add(@, letter)]
              = [call_id |-> IF tp.call_id = None THEN id ELSE tp.call_id,
                 name |-> tp.name, text |-> Add(tp.text, letter)]
<1> DEFINE updated == [field \in {"call_id", "name", "text"} |->
              CASE field = "call_id" -> IF tp.call_id = None THEN id ELSE tp.call_id
                [] field = "name" -> tp.name
                [] field = "text" -> Add(tp.text, letter)]
<1>1. [tp EXCEPT !.call_id = IF @ = None THEN id ELSE @, !.text = Add(@, letter)] = updated
  BY DEF Accumulators
<1> QED BY <1>1

LEMMA ToolStep ==
    ASSUME IInv, outcome = "none", NEW e \in Events, AcceptTool(e)
    PROVE  /\ ToolInv'
           /\ \A i \in DOMAIN tool_parts' :
                 i \in Nat /\ tool_parts'[i] \in Accumulators
<1> DEFINE n == Len(events) + 1  i == e.index
           tp == Current(e)
           id == IF tp.call_id = None THEN e.call_id ELSE tp.call_id
           new == [call_id |-> id, name |-> tp.name, text |-> Add(tp.text, e.letter)]
<1>1. /\ e.kind = "tool" /\ Accept(e) /\ ToolFits(e)
      /\ i \notin DOMAIN text_parts
  BY DEF AcceptTool, Accept, Fits, ToolFits
<1>2. e \in Event /\ events \in Seq(Event) /\ events' = Append(events, e)
  BY <1>1, AcceptedType
<1>3. IsDelta(e) /\ i \in Nat /\ e.call_id \in Optional(Names) /\ e.name \in Names
  BY <1>1, <1>2, EventFields DEF IsDelta, HasIndex
<1>4. /\ tp \in Accumulators /\ Spells(events, i, tp.text)
      /\ \A k \in Deltas(events, i) :
            events[k].name = tp.name /\ events[k].call_id \in {None, tp.call_id}
      /\ tp.call_id \notin {None, e.call_id}
            => \E k \in Deltas(events, i) : events[k].call_id = tp.call_id
  <2>1. CASE i \in DOMAIN tool_parts
    BY <2>1 DEF IInv, TypeOK, Corresponds, ToolInv, Current
  <2>2. CASE i \notin DOMAIN tool_parts
    <3>1. Deltas(events, i) = {}
      BY <2>2, <1>1, DeltasByKind DEF IInv, Corresponds, Deltas, IsDelta
    <3>2. Lettered(events, i) = {}
      BY <3>1 DEF Lettered
    <3>3. Spells(events, i, <<>>) /\ <<>> \in Texts
      BY <3>2, FS_EmptySet DEF Spells, Texts
    <3>4. tp = [call_id |-> e.call_id, name |-> e.name, text |-> <<>>]
      BY <2>2 DEF Current
    <3> QED BY <3>1, <3>3, <3>4, <1>3 DEF Accumulators
  <2> QED BY <2>1, <2>2
<1>5. tp.name = e.name /\ (tp.call_id = e.call_id \/ None \in {tp.call_id, e.call_id})
  BY <1>1 DEF ToolFits
<1>6. tool_parts' = With(tool_parts, i, new)
  <2>1. [tp EXCEPT !.call_id = IF @ = None THEN e.call_id ELSE @,
                   !.text = Add(@, e.letter)] = new
    <3> HIDE DEF tp
    <3>1. tp \in Accumulators
      BY <1>4
    <3> QED BY <3>1, Updated
  <2> QED BY <2>1 DEF AcceptTool
<1>7. Add(tp.text, e.letter) \in Texts /\ Spells(events', i, Add(tp.text, e.letter))
  <2>1. tp.text \in Texts
    BY <1>4 DEF Accumulators
  <2> QED BY <1>2, <1>3, <1>4, <2>1, SpellsMore
<1>8. new \in Accumulators
  BY <1>3, <1>4, <1>7 DEF Accumulators
<1> HIDE DEF tp
<1>9. /\ DOMAIN tool_parts' = DOMAIN tool_parts \cup {i}
      /\ tool_parts'[i] = new
      /\ \A j \in DOMAIN tool_parts : j # i => tool_parts'[j] = tool_parts[j]
  BY <1>6 DEF With
<1>10. DOMAIN tool_parts' = {events'[k].index : k \in Kind("tool")'}
  <2>1. Kind("tool")' = Kind("tool") \cup {n}
    BY <1>1, <1>2, OneMoreOfKind
  <2>2. \A k \in Kind("tool") : events'[k] = events[k]
    BY <1>1, AcceptedType DEF Kind
  <2>3. events'[n] = e
    BY <1>1, AcceptedType
  <2>4. DOMAIN tool_parts = {events[k].index : k \in Kind("tool")}
    BY DEF IInv, Corresponds, ToolInv
  <2> HIDE DEF n, new
  <2> QED BY <1>9, <2>1, <2>2, <2>3, <2>4
<1>11. ASSUME NEW j \in DOMAIN tool_parts'
       PROVE  /\ Spells(events', j, tool_parts'[j].text)
              /\ \A k \in Deltas(events', j) :
                    /\ events'[k].name = tool_parts'[j].name
                    /\ events'[k].call_id \in {None, tool_parts'[j].call_id}
              /\ tool_parts'[j].call_id # None
                    => \E k \in Deltas(events', j) :
                          events'[k].call_id = tool_parts'[j].call_id
  <2>1. \A k \in Deltas(events, j) : events'[k] = events[k]
    BY <1>1, AcceptedType DEF Deltas
  <2>2. events'[n] = e
    BY <1>1, AcceptedType
  <2>3. CASE j = i
    <3>1. Deltas(events', i) = Deltas(events, i) \cup {n}
      BY <1>2, <1>3, OneMore
    <3>2. Spells(events', i, new.text)
      BY <1>7
    <3> HIDE DEF n
    <3>3. \A k \in Deltas(events', i) :
             events'[k].name = new.name /\ events'[k].call_id \in {None, new.call_id}
      BY <1>4, <1>5, <2>1, <2>2, <2>3, <3>1
    <3>4. new.call_id # None
            => \E k \in Deltas(events', i) : events'[k].call_id = new.call_id
      BY <1>4, <1>5, <2>1, <2>2, <2>3, <3>1
    <3> HIDE DEF new
    <3> QED BY <2>3, <3>2, <3>3, <3>4, <1>9
  <2>4. CASE j # i
    <3>1. Deltas(events', j) = Deltas(events, j)
      BY <1>2, <2>4, OneMore
    <3>2. j \in DOMAIN tool_parts /\ tool_parts'[j] = tool_parts[j]
      BY <2>4, <1>9
    <3>3. Spells(events', j, tool_parts[j].text)
      BY <1>2, <2>4, <3>2, SpellsSame DEF IInv, Corresponds, ToolInv
    <3> QED BY <2>1, <3>1, <3>2, <3>3 DEF IInv, Corresponds, ToolInv
  <2> QED BY <2>3, <2>4
<1>12. ToolInv'
  BY <1>10, <1>11 DEF ToolInv
<1>13. \A j \in DOMAIN tool_parts' : j \in Nat /\ tool_parts'[j] \in Accumulators
  <2> HIDE DEF new
  <2> QED BY <1>3, <1>8, <1>9 DEF IInv, TypeOK
<1> QED BY <1>12, <1>13

LEMMA OutputStep ==
    ASSUME IInv, outcome = "none", NEW e \in Events, AcceptOutput(e)
    PROVE  /\ OutputInv'
           /\ \A i \in DOMAIN outputs' : i \in Nat /\ outputs'[i] \in Output
<1> DEFINE n == Len(events) + 1
<1>1. /\ e.kind = "completed" /\ Accept(e)
      /\ outputs' = With(outputs, e.index, e.output)
      /\ e.index \notin DOMAIN outputs
  BY DEF AcceptOutput, Accept, Fits, OutputFits
<1>2. e \in Event /\ e.index \in Nat /\ e.output \in Output
  BY <1>1, AcceptedType, EventFields DEF HasIndex
<1>3. /\ DOMAIN outputs' = DOMAIN outputs \cup {e.index}
      /\ outputs'[e.index] = e.output
      /\ \A i \in DOMAIN outputs : outputs'[i] = outputs[i]
  BY <1>1 DEF With
<1>4. Kind("completed")' = Kind("completed") \cup {n}
  BY <1>1, AcceptedType, OneMoreOfKind
<1>5. events'[n] = e /\ \A k \in Kind("completed") : events'[k] = events[k]
  BY <1>1, AcceptedType DEF Kind
<1>6. /\ DOMAIN outputs = {events[k].index : k \in Kind("completed")}
      /\ \A k \in Kind("completed") : outputs[events[k].index] = events[k].output
  BY DEF IInv, Corresponds, OutputInv
<1>7. \A i \in DOMAIN outputs : i \in Nat /\ outputs[i] \in Output
  BY DEF IInv, TypeOK
<1> HIDE DEF n
<1>8. DOMAIN outputs' = {events'[k].index : k \in Kind("completed")'}
  BY <1>3, <1>4, <1>5, <1>6
<1>9. \A k \in Kind("completed")' : outputs'[events'[k].index] = events'[k].output
  BY <1>3, <1>4, <1>5, <1>6
<1> QED BY <1>2, <1>3, <1>7, <1>8, <1>9 DEF OutputInv

LEMMA UsageStep ==
    ASSUME IInv, outcome = "none", NEW e \in Events, AcceptUsage(e)
    PROVE  UsageInv' /\ reported_usage' \in Names
<1> DEFINE n == Len(events) + 1
<1>1. /\ e.kind = "usage" /\ Accept(e) /\ reported_usage' = e.usage
      /\ reported_usage = None
  BY DEF AcceptUsage, Accept, Fits, UsageFits
<1>2. e \in Event /\ e.usage \in Names /\ e.usage # None
  BY <1>1, AcceptedType, EventFields, EventsAssumption
<1>3. Kind("usage")' = Kind("usage") \cup {n} /\ events'[n] = e
  BY <1>1, AcceptedType, OneMoreOfKind
<1>4. Kind("usage") = {}
  BY <1>1 DEF IInv, Corresponds, UsageInv
<1> QED BY <1>1, <1>2, <1>3, <1>4 DEF UsageInv

LEMMA InductiveStep == IInv /\ [Next]_vars => IInv'
<1> SUFFICES ASSUME IInv, [Next]_vars PROVE IInv'
  OBVIOUS
<1> USE DEF parts
<1>1. CASE UNCHANGED vars
  BY <1>1 DEF vars, IInv, TypeOK, Corresponds, StartInv, TextInv, ToolInv, OutputInv,
              UsageInv, RankInv, Kind
<1>2. ASSUME outcome = "none", UNCHANGED <<request, events, started, parts>>,
             outcome' \in Failures, refused' \in Event \cup {NoEvent}
      PROVE  IInv'
  <2>1. outcome' # "none"
    BY <1>2 DEF Failures
  <2> QED BY <1>2, <2>1 DEF IInv, TypeOK, Corresponds, StartInv, TextInv, ToolInv,
                            OutputInv, UsageInv, RankInv, Kind
<1>3. CASE outcome = "none" /\ Break
  <2>1. outcome' \in Failures
    BY <1>3 DEF Break, Interruption, Failures
  <2> QED BY <1>2, <1>3, <2>1 DEF Break, IInv, TypeOK
<1>4. ASSUME outcome = "none", NEW e \in Events, Refuse(e) PROVE IInv'
  <2>1. outcome' \in Failures /\ refused' \in Event
    BY <1>4, AssemblyAssumption DEF Refuse, Interruption, Failures
  <2> QED BY <1>2, <1>4, <2>1 DEF Refuse
<1>5. ASSUME outcome = "none", NEW e \in Events, Accept(e),
             StartInv', TextInv', ToolInv', OutputInv', UsageInv',
             started' \in StartEvent \cup {NoStart},
             \A i \in DOMAIN text_parts' : i \in Nat /\ text_parts'[i] \in Texts,
             \A i \in DOMAIN tool_parts' : i \in Nat /\ tool_parts'[i] \in Accumulators,
             \A i \in DOMAIN outputs' : i \in Nat /\ outputs'[i] \in Output,
             reported_usage' \in Optional(Names),
             outcome' \in {"none", "response"},
             e.kind = "terminal" => outcome' = "response"
      PROVE  IInv'
  <2>1. /\ request' = request /\ refused' = refused /\ events' \in Seq(Event)
        /\ Lawful(request, events)' /\ RankInv'
        /\ e.kind # "terminal" => Open(events)'
    BY <1>5, AcceptedType
  <2>2. TypeOK'
    BY <1>5, <2>1 DEF IInv, TypeOK
  <2>3. outcome' = "none" => Open(events)'
    BY <1>5, <2>1
  <2> QED BY <1>5, <2>1, <2>2, <2>3 DEF IInv, Corresponds
<1>6. ASSUME outcome = "none", NEW e \in Events,
             \/ AcceptStart(e) \/ AcceptText(e) \/ AcceptTool(e)
             \/ AcceptOutput(e) \/ AcceptUsage(e) \/ AcceptUnknown(e)
             \/ AcceptTerminal(e)
      PROVE  IInv'
  <2>0. TypeOK /\ reported_usage \in Optional(Names)
    BY DEF IInv, TypeOK
  <2>1. CASE AcceptStart(e)
    <3>1. /\ Accept(e) /\ e.kind = "started" /\ started' = e
          /\ UNCHANGED <<parts, outcome>>
      BY <2>1 DEF AcceptStart
    <3>2. started' \in StartEvent
      BY <1>6, <3>1, AcceptedType, EventFields
    <3>3. StartInv' /\ TextInv' /\ ToolInv' /\ OutputInv' /\ UsageInv'
      BY <1>6, <3>1, StartKept, TextKept, ToolKept, OutputKept, UsageKept
    <3> QED BY <1>5, <1>6, <2>0, <3>1, <3>2, <3>3 DEF TypeOK
  <2>2. CASE AcceptText(e)
    <3>1. /\ Accept(e) /\ e.kind = "text"
          /\ UNCHANGED <<started, tool_parts, outputs, reported_usage, outcome>>
      BY <2>2 DEF AcceptText
    <3>2. StartInv' /\ ToolInv' /\ OutputInv' /\ UsageInv'
      BY <1>6, <3>1, StartKept, ToolKept, OutputKept, UsageKept
    <3> QED BY <1>5, <1>6, <2>0, <2>2, <3>1, <3>2, TextStep DEF TypeOK
  <2>3. CASE AcceptTool(e)
    <3>1. /\ Accept(e) /\ e.kind = "tool"
          /\ UNCHANGED <<started, text_parts, outputs, reported_usage, outcome>>
      BY <2>3 DEF AcceptTool
    <3>2. StartInv' /\ TextInv' /\ OutputInv' /\ UsageInv'
      BY <1>6, <3>1, StartKept, TextKept, OutputKept, UsageKept
    <3> QED BY <1>5, <1>6, <2>0, <2>3, <3>1, <3>2, ToolStep DEF TypeOK
  <2>4. CASE AcceptOutput(e)
    <3>1. /\ Accept(e) /\ e.kind = "completed"
          /\ UNCHANGED <<started, text_parts, tool_parts, reported_usage, outcome>>
      BY <2>4 DEF AcceptOutput
    <3>2. StartInv' /\ TextInv' /\ ToolInv' /\ UsageInv'
      BY <1>6, <3>1, StartKept, TextKept, ToolKept, UsageKept
    <3> QED BY <1>5, <1>6, <2>0, <2>4, <3>1, <3>2, OutputStep DEF TypeOK
  <2>5. CASE AcceptUsage(e)
    <3>1. /\ Accept(e) /\ e.kind = "usage"
          /\ UNCHANGED <<started, text_parts, tool_parts, outputs, outcome>>
      BY <2>5 DEF AcceptUsage
    <3>2. StartInv' /\ TextInv' /\ ToolInv' /\ OutputInv'
      BY <1>6, <3>1, StartKept, TextKept, ToolKept, OutputKept
    <3>3. UsageInv' /\ reported_usage' \in Optional(Names)
      BY <1>6, <2>5, UsageStep DEF Optional
    <3> QED BY <1>5, <1>6, <2>0, <3>1, <3>2, <3>3 DEF TypeOK
  <2>6. CASE AcceptUnknown(e) \/ AcceptTerminal(e)
    <3>1. /\ Accept(e) /\ e.kind \in {"unknown", "terminal"}
          /\ UNCHANGED <<started, parts>> /\ outcome' \in {"none", "response"}
          /\ e.kind = "terminal" => outcome' = "response"
      BY <1>6, <2>6 DEF AcceptUnknown, AcceptTerminal
    <3>2. StartInv' /\ TextInv' /\ ToolInv' /\ OutputInv' /\ UsageInv'
      BY <1>6, <3>1, StartKept, TextKept, ToolKept, OutputKept, UsageKept
    <3> QED BY <1>5, <1>6, <2>0, <3>1, <3>2 DEF TypeOK
  <2> QED BY <1>6, <2>1, <2>2, <2>3, <2>4, <2>5, <2>6
<1> QED BY <1>1, <1>3, <1>4, <1>6 DEF Next

LEMMA AssemblyInvariance == Spec => []IInv
BY Initially, InductiveStep, PTL DEF Spec

----------------------------------------------------------------------------
(* Every variable keeps its type, for any requests and events.             *)
THEOREM AssemblyTypes == Spec => []TypeOK
<1>1. IInv => TypeOK
  BY DEF IInv
<1> QED BY <1>1, AssemblyInvariance, PTL

(* However many events arrive, over however many outputs and in whichever  *)
(* order, what was accepted is lawful as a whole, and a response is only   *)
(* returned for a stream that its terminal event closes lawfully           *)
(* (stream_assembly.py:77-188, 277-385).                                   *)
THEOREM AcceptedStreamsAreLawful == Spec => []AcceptedIsLawful
<1> DEFINE Ended == outcome = "response" => /\ events # <<>>
                                            /\ events[Len(events)].kind = "terminal"
<1>1. Init => Ended
  BY DEF Init
<1>2. IInv /\ Ended /\ [Next]_vars => Ended'
  <2> SUFFICES ASSUME IInv, Ended, [Next]_vars, outcome' = "response"
               PROVE  events' # <<>> /\ events'[Len(events')].kind = "terminal"
    OBVIOUS
  <2>1. CASE UNCHANGED vars
    BY <2>1 DEF vars
  <2>2. CASE Next
    <3>1. PICK e \in Events : outcome = "none" /\ AcceptTerminal(e)
      BY <2>2 DEF Next, Break, Refuse, Interruption, AcceptStart, AcceptText, AcceptTool,
                  AcceptOutput, AcceptUsage, AcceptUnknown
    <3>2. e.kind = "terminal" /\ Accept(e)
      BY <3>1 DEF AcceptTerminal
    <3>3. e \in Event /\ events \in Seq(Event) /\ events' = Append(events, e)
      BY <3>1, <3>2, AcceptedType
    <3>4. events'[Len(events')] = e /\ events' # <<>>
      BY <3>3
    <3> QED BY <3>2, <3>4
  <2> QED BY <2>1, <2>2
<1>3. IInv /\ Ended => AcceptedIsLawful
  BY DEF IInv, AcceptedIsLawful
<1> QED BY <1>1, <1>2, <1>3, AssemblyInvariance, PTL DEF Spec

(* No lawful stream is refused: an event that ends a stream as a violation *)
(* of the protocol contradicts the request or an event before it           *)
(* (stream_assembly.py:82-179, 277-385, scripted_client.py:151-230).       *)
THEOREM RefusedStreamsAreUnlawful == Spec => []RefusedIsUnlawful
<1> DEFINE Final == refused # NoEvent => outcome # "none"
<1>1. Init => Final /\ RefusedIsUnlawful
  BY DEF Init, RefusedIsUnlawful
<1>2. IInv /\ Final /\ RefusedIsUnlawful /\ [Next]_vars
         => Final' /\ RefusedIsUnlawful'
  <2> SUFFICES ASSUME IInv, Final, RefusedIsUnlawful, [Next]_vars
               PROVE  Final' /\ RefusedIsUnlawful'
    OBVIOUS
  <2>1. CASE UNCHANGED vars
    BY <2>1 DEF vars, RefusedIsUnlawful
  <2>2. CASE Next
    <3>1. outcome = "none" /\ refused = NoEvent
      BY <2>2 DEF Next
    <3>2. CASE refused' = refused
      BY <3>1, <3>2 DEF RefusedIsUnlawful
    <3>3. CASE refused' # refused
      <4>1. PICK e \in Events : Refuse(e)
        BY <2>2, <3>3 DEF Next, Break, AcceptStart, AcceptText, AcceptTool, AcceptOutput,
                          AcceptUsage, AcceptUnknown, AcceptTerminal, Accept
      <4>2. /\ ~(Emits(e) /\ Fits(e)) /\ refused' = e
            /\ UNCHANGED <<request, events>>
            /\ outcome' \in {"protocol_error", "interrupted"}
        BY <4>1 DEF Refuse, Interruption
      <4>3. ~Lawful(request, Append(events, e))
        BY <3>1, <4>2, AssemblyAssumption, FitsIffLawful
      <4> QED BY <4>2, <4>3 DEF RefusedIsUnlawful
    <3> QED BY <3>2, <3>3
  <2> QED BY <2>1, <2>2
<1> QED BY <1>1, <1>2, AssemblyInvariance, PTL DEF Spec
=============================================================================
