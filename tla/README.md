# TLA+ models of the Agent-engineering course repository

The repository is a course on building reliable LLM agents: small runtimes that
talk to model providers (`src/lessons`), and the tools that keep the course's
progress, notes and presentations (`src/skills`). This directory models the
parts whose correctness depends on interleavings, failures and long sequences of
commands, checks the models with TLC on small instances, and proves the most
important facts with TLAPS for every value of the constants.

1. Inventory · 2. The models · 3. Plan · 4. What the runs check · 5. Bounds ·
6. Fairness · 7. What is proved · 8. Findings · 9. What is not modelled

## 1. Inventory

Paths are relative to the repository's root. Status: **M** modelled, **P** partly,
**-** not modelled (section 9 says why).

| # | Component | Source | State | Operations | Status |
|---|-----------|--------|-------|------------|--------|
| A | Streaming runtime | `lessons/module_01_streaming_cancellation/implementation/execution.py`, and the cleanup of `collect_stream` in `lessons/module_01_provider_contract/implementation/stream_assembly.py` | attempt number, child tasks of one await, the exception in flight, events accepted, the committed response | `collect`, `_next_before_deadline`, `_close_iterator_before_deadline`, `delay_for`; `_close_after_terminal`, `_close_preserving_failure` | M |
| B | Progress store | `skills/track-learning-progress/scripts/progress_tracker.py` 1364-1414, 1624-1737 | `progress.json`, its lock file, temporary files, one in-memory document per process | `mutate_progress`, `_lock`, `_load`, `_write`, `show` | M |
| C | Progress document | same file, 257-1281 | stages with their evidence, criteria and Gate of every topic and module, the current track, revision | `record_stage`, `start_topic`, `start_module`, `record_criterion`, `pass_gate`, `validate_progress` | M |
| D | Capability fallback | `lessons/module_01_capability_fallback/implementation/routing.py`, `capabilities.py`, `registry.py` | routes excluded, attempts recorded, the client's and the timer's task | `FallbackExecutor.complete`, `CapabilityRouter._plan_excluding`, `check_compatibility`, `RoutingRequest` with its walk over schemas | M |
| E | Agent runtime | `lessons/module_01_model_vs_agent/implementation` | context, call ids seen, the two timeouts, `Task.cancelling()` | `Workflow.run`, `DistributedExecutor.execute`, `AgentLoop.run`, `ModelClient.complete` | M |
| F | Stream assembly | `stream_assembly.py`, `contracts.py` of the provider contract | completed outputs, text and tool accumulators, usage seen, accepted events | `_collect_stream`, `_validate_completed_output`, `_validate_terminal`, `ModelResponse.__post_init__` | M |
| G | Scripted client | `scripted_client.py` of the provider contract | queue of scripts, recorded calls | `complete`, `stream`, `_replay`, `_validate_response` | P |
| H | E-mail recovery | `tests/test_ambiguous_email_recovery.py` 14-149 of the provider contract | durable operation state, accepted sends | `start`, `recover` | M |
| I | Notes and diagrams | `skills/build-lesson-notes/scripts` | the note, the diagram's HTML, PNG and PDF; what a command has read of them | `create_note.py`, `create_diagram.py`, `render_diagram.py` (and `--check`), `render_note.py`, `validate_note.py` | P |
| J | Diagram front end | `skills/build-lesson-notes/assets/diagram.js`, `diagram.css` 92-148 | none | one layout pass | P |
| K | Presentations | `skills/build-lesson-presentation` | one HTML file | create, validate | - |
| L | Web search and review skills | `skills/tavily-search`, `skills/run-agent-engineering-review` | none | instructions | - |
| M | Demos | `demo.py` of each lesson | none | fixed runs of A, D, E, F | - |
| N | Course texts and data | `docs`, `progress/progress.json`, notes | - | - | - |

How they interact. A awaits F for each attempt: F reads the source and owns its
cleanup, A owns the deadline, the attempts and the caller's cancellation; G is the
source the lessons use. D calls any `ModelClient`, among them the clients of G, and
E has a client of its own. All of them are asyncio code: within one task
everything between two awaits is atomic, and what is hard is what can happen *at*
an await - a cancellation, a deadline, a child task finishing in the same turn as
another. B and C are one command line program: B is how a command reaches the
file, C what it does to the document. Processes share the file and the lock and
nothing else. The commands of I share four kinds of files and no lock: each of them
reads what another one, or the author's editor, may be writing; J is the code their
browser runs. H is a state machine of the tests, beside A and D the third answer of
the lessons to "what if the outcome of a request is unknown".

What makes each of them correct, and where it could go wrong:

- **A** One operation makes at most `max_attempts` requests, repeats one only after
  a bare 429 before any event, never keeps a child task or an open source, hears
  its caller's cancellation, and once a terminal response has been validated
  returns it. Hard: two races (read against deadline, close against deadline), a
  cancellation in either of them or in their clean-up, and failures raised by
  `aclose` that replace the exception in flight.
- **B** No command is lost or applied to a revision its author did not see; a failed
  command changes nothing; a reader finds a whole document. Hard: kills, errors and
  power failures between any two steps, and commands run again.
- **C** Stages are completed in order on evidence recorded since they were last
  reopened; evidence is never rewritten; what a Gate passed stays as it was. Hard:
  long sequences of legal commands.
- **D** At most one provider takes a request up, a suitable one, in ranking order,
  before the deadline. Hard: the race of client and deadline, clients that ignore
  their cancellation, failures that claim to have had no effect.
- **E** A tool's effect is not repeated, a late answer is not a success, and the
  caller can tell a timeout, a deadline and its own cancellation apart. Hard: three
  parties cancel the same task.
- **H** A mail is accepted at most once however often its sender dies, and every
  stored operation is brought to its end. Hard: a request that is decided after the
  process that made it has died.
- **I, J** A published picture shows the document it names, and its boxes keep the
  distances the layout promises; a check is not fooled; a print that nobody disturbed
  is of sound, current files; a create takes no source that was there before it. Hard:
  any file can change between any two reads of it, and the browser decides how high
  a box is and what it leaves of a print.
- **F** The collector, checking one event at a time against what it kept of the
  earlier ones, accepts the lawful sequences and no others.

## 2. The models

Every action is one uninterruptible piece of the code: what runs between two
awaits (A, D, E), between two system calls that a kill or an error can separate
(B, I), one command or event (C, F), or what runs between two durable or external
effects (H). `PROJECT.json` maps each definition to its
lines.

### Streaming runtime: `StreamingRuntime`, `ModelOperation`

`StreamingRuntime` has the caller's task (`pc`), the child tasks `reader`
(`event_task`), `closer` (`close_task`) and `timer` (`deadline_task`), the clock, and
what the closing generator carries (`pending`). `race`, `abort` and `settle` are the
awaits of `_next_before_deadline`; `close`, `close_abort` and `close_settle` those of
`_close_iterator_before_deadline`. `committed` says that `collect_stream` has
validated a terminal event; from there on the cleanup may fail but not replace the
response. The clock may advance between any two actions, also between a check and
the statement after it. Contents of events belong to F: here an event is accepted,
terminal or invalid. `delivered`, `stops` and `heard` are ghosts. Besides errors of its
own, a source may raise what the caller or the collector would: `withdrawn`, a
`CancelledError` though nobody cancelled (`scripted_client.py` lets one through), and
a `ModelStreamInterrupted` that carries exactly the accepted events (`interrupted`: it
goes through), others (`misreported`: it becomes a bare `ModelProtocolError`), or comes
from `client.stream`, before anything can be compared (`claimed`). The same holds of
what `aclose` raises.

`ModelOperation` is what a caller may rely on: attempts, each justified by a 429
that nothing had been delivered before, and one of the documented endings. What the
source claimed of the stream or of the task is its `fault`, and `EndOf` the ending that
makes of it. The run
and the theorem `Refinement` show that `StreamingRuntime` implements it.

### Progress store: `ProgressStore`, `VersionedDocument`

One process runs one command line: `Show` reads the revision, `OpenLock` opens the
lock file, `Acquire` takes the `flock` as soon as nobody else holds it (a process that
waits there can do nothing else), `Load` and `Mutate` work on the copy, `MakeTemp` to
`Replace` are `_write` call by call, `Release` and `Exit` end it. Together with
`Refuse`, the errors that must come up (a torn document, a revision that has moved
on), these are `Proceed`. What may go wrong stands beside it: `Decline` before the lock
file is opened, `Reject` under the lock, `SaveFails` in `_write`, `Crash`, the end of the
process (the kernel frees its lock). `Rerun` is the same command line again, and
`PowerFails` leaves the document that `WriteBack` brought to the disk last. A document is the log of the commands applied to it and its
length the revision; what a command does is C's subject.

`VersionedDocument` is the promise: a log to which a command is appended only at the
revision its author read, and an acknowledged command is in the log.

### Progress document: `ProgressTracker`, `Syllabus`

`ProgressTracker` has, for every stage and criterion, its status and its evidence
entries with the revisions at which they were recorded and superseded; for every
module, whether it was started and its Gate passed; the topic and module the track
is at; and the revision. One action per command, with the validation of the whole
document that ends each of them as a guard. Evidence items are records of what the
checks distinguish: kind, reference, result, and the proof a defence names.

`Syllabus` is the order of study: topics and Gates are left in their order, each
once.

### Capability fallback: `Capabilities`, `SchemaKeywords`, `FallbackExecutor`, `SingleGeneration`

`Capabilities` is `check_compatibility` over profiles and requirements as sets and
limits. `SchemaKeywords` is the walk over a JSON Schema that collects the keywords it
uses: a schema is the kind of the value at every path in it, `Roles` passes what `visit`
takes a value for (a schema, a list or table of them, data) down the paths,
`CollectedKeywords` reads them off, and `UsedKeywords` says the same without a walk
(a path leads to a subschema if it can be cut into pieces that each lead from one
subschema to the next). A request carries the schemas of its template, and `Accepted`
is what `RoutingRequest` demands of its declaration. `FallbackExecutor` is the whole
of `complete`: plan, check of the deadline, the race of the client's task and the timer's, the gathering of the losers, and the
decision whether a failure permits another route. A client may fail, hang, answer
after its cancellation, or claim that its failure had no effect while carrying
traces of one (`EvidenceAccepted` is the executor's check of the claim).
`SingleGeneration` promises that at most one provider takes the request up, and
that a response is that provider's.

### Agent runtime: `AgentRuntime`, `OneAttempt`

The four layers of one `Workflow.run` in one task. `outer` and `inner` are the states
of the two `asyncio.timeout` blocks, `cancelling` is `Task.cancelling()`, `base` its value
when the inner block was entered, `thrown` says that `CancelledError` is on its way
into the awaited transport or tool. A timeout that expires, or the caller, adds one
to `cancelling`; leaving an expired block takes one back (`Left`). An operation may let
the error through or swallow it and go on (`Swallow`).

`OneAttempt` is what the caller of a run may rely on, with no layers in it: the process
is attempted at most once, a rejected one had no effect, a call takes effect once
and none after the ending, and the ending says what is known (an answer only from
an attempt that was neither late nor without an acknowledgement, `ambiguous` only
from one that was). `AgentRuntime` implements it with `late` for an outer timeout that
has begun to expire, `asked` for `stops > 0`, and the tool calls invoked as effects.

### Stream assembly: `StreamEvents`, `StreamAssembly`

`StreamAssembly` is `_collect_stream` with its dictionaries: one action per kind of
event, `Fits` for the checks that precede each, `Emits` for what the scripted client
checks before it lets an event out. `StreamEvents` defines events and, separately and
declaratively, what makes a whole *sequence* of them `Lawful`, with no accumulator:
the reference the incremental checks are compared with.

### Notes and diagrams: `LessonDiagram`, `NoteArtifacts`

`LessonDiagram` is what the scripts and `diagram.js` check of a diagram's data and how
the runtime places its boxes, in whole pixels: counts of ranks and orders, the box
width they leave, the position of each box on both axes, and the refusal of a canvas
that is too small (`Ready`). The runtime sets the width and the centre of a box only;
the stylesheet makes an actor 108 pixels wide and high and any other box at least
74 high, and as high as its labels need: `height` is part of the data because no code
limits it. `BoxesApart` is what the layout then promises: side by side, boxes never
cover each other or leave the canvas; above each other they stay apart as long as their
heights together leave the room the layout keeps. `NoteArtifacts` is the files and the commands. A step of a command is
one read, write or check of a file: `render_diagram.py` loads three times (`ReadHtml`,
`ReadAssets`), draws copies of what it loaded first, compares (`Recheck`, `Accept`) and
replaces the PNG; a check opens the PNG twice (`InspectNames`, `InspectPixels`);
`render_note.py` lets `validate_note.py` read the note and reads it again, has the
browser print over the last PDF (`PrintNote`) and measures the result (`Measure`). The
browser may write the whole print, break off and say so, or exit with 0 after a part
of it or after nothing. The create commands test, open and write, each a template
with a title of its own; a create whose file was filled by another hand after it had
opened it still writes, and what is left (`Left`) may be a mixture of the two. The
author may save a file at any time, also while a create has it open. A picture is the document its pixels show, the one
its metadata names, and whether the pixels were painted over; a text is sound or
not, shows the diagram or not, is complete or a draft. Any step may fail or be the
last one of a killed process: the process is then idle again, its memory gone and
the files as they are. Three ghosts name who was unlucky: `disturbed` a print during
which a file was changed by another hand, `overtaken` a create whose open file the
author or a `--force` filled or opened, `careless` a print whose browser exited with 0
without it.

### E-mail recovery: `EmailRecovery`, `MailOnce`

The durable state of each operation, the point its process is at, and the mail
service with the requests it has received (`flying`) and accepted. A request is
decided at any time, also after its sender has died. Taken from the test's service:
a `send` that returns was accepted, and a lookup that answers FOUND or
TERMINALLY_ABSENT is right (the latter says that nothing can be accepted any more);
one that is unsure answers UNKNOWN. An operation is in the hands of one process at
a time, as in the test.

`MailOnce` is what the application sees that hands operations over: asked for, mailed
at most once, done only when mailed and for good. No process, request or crash
occurs in it.

## 3. Plan

Order of work, the most important behaviour first.

| Step | Modules | State |
|------|---------|-------|
| 1 | `ModelOperation`, `StreamingRuntime`, `StreamingRuntimeProofs` | done |
| 2 | `VersionedDocument`, `ProgressStore`, `ProgressStoreProofs` | done |
| 3 | `Syllabus`, `ProgressTracker`, `ProgressTrackerProofs` | done |
| 4 | `Capabilities`, `SingleGeneration`, `FallbackExecutor`, `FallbackExecutorProofs` | done |
| 5 | `OneAttempt`, `AgentRuntime`, `AgentRuntimeProofs` | done |
| 6 | `StreamEvents`, `StreamAssembly`, `StreamAssemblyProofs` | done |
| 7 | `LessonDiagram`, `NoteArtifacts`, `NoteArtifactsProofs` | done |
| 8 | `MailOnce`, `EmailRecovery`, `EmailRecoveryProofs` | done |
| 9 | `SchemaKeywords`, and schemas in `FallbackExecutor` | done |
| 10 | A Git repository under the evidence of C, so that what was accepted can become invalid | open |
| 11 | Finiteness of a call of D and of a run of E as theorems (the safety half of `Termination`) | done |
| 12 | The queue of scripts and the recorded calls of `ScriptedModelClient` | open |

A property that another property of its run implies, or that only bookkeeping could
break, is a theorem and not checked in a run: `NoRetryAfterEvent`, `CommitSurvives` and
`PrefixReported` of A (`ImplementsOperation` covers them), `AppliedAtExpected`,
`TemporarySwept` and `NoLostUpdate` of B, `FallbacksAreEffectFree` of D,
`LateAnswerIsAmbiguous` of E (`ImplementsOneAttempt`), `SucceededMeansAccepted` of H
(`ImplementsMailOnce`).

Conventions. A module has its constants with a named assumption, one action per
operation, `Spec` without and `FairSpec` with fairness, then its properties. `MC*`
modules hold values for constants; where a configuration can give them itself there
is none. Operators marked *mutant* are plausible bugs of the definition that follows
them; replacing the definition by its mutant must break the property listed with it
in `PROJECT.json`. Proofs are in `*Proofs` modules. No module uses a RECURSIVE
operator.

## 4. What the runs check

| Run | Module, configuration | Distinct states | Checks |
|-----|----------------------|-----------------|--------|
| `streaming` | `MCStreamingRuntime`, `StreamingRuntime.cfg` | 599,488 | A's promises, `ImplementsOperation`, `Termination` |
| `attempt_after_cancel` | `StreamingAttemptAfterCancel.cfg` | violation | finding 1 |
| `commit_lost_on_second_cancel` | `StreamingCommitLost.cfg` | violation | finding 2 |
| `store` | `MCProgressStore`, `ProgressStore.cfg` | 203,002 | B with kills, errors, repetitions and power failures; `ImplementsVersionedDocument`; every command ends |
| `tracker` | `MCProgressTracker`, `ProgressTracker.cfg` | 325,629 | C: stages, criteria, Gates, topics and modules; `InOrder` |
| `tracker_tour_review` | `ProgressTourReview.cfg` | violation | finding 3 |
| `fallback` | `MCFallbackExecutor`, `FallbackExecutor.cfg` | 2,632 | D's promises, `ImplementsSingleGeneration`, `Termination` |
| `agent` | `AgentRuntime.cfg` | 12,274 | E's promises, `ImplementsOneAttempt`, `Termination` |
| `agent_deadline` | `AgentDeadline.cfg` | violation | finding 4 |
| `assembly` | `MCStreamAssembly`, `StreamAssembly.cfg` | 1,046,239 | F: accepted iff lawful |
| `notes` | `MCNoteArtifacts`, `NoteArtifacts.cfg` | 1,814,654 | I and J: pictures, checks, prints and sources while an author edits |
| `email` | `MCEmailRecovery`, `EmailRecovery.cfg` | 4,645 | H: at most one accepted mail, `ImplementsMailOnce`, and every operation ends |

What the properties say, beyond the comment above each:

- **streaming**: `AttemptJustified` is the retry rule: every opening after the first was
  preceded by a 429 with nothing delivered, a delay that ended before the deadline,
  and no cancellation that is still to be heard. `DeadlineWinsTie`: an event is
  accepted only from a race whose timer has not fired. `ChildrenSettled`,
  `SourceReleased`: no child and no source outlives the await or the attempt that owns
  it, in whatever state a cancellation finds them. `CancellationHeard` and
  `ImplementsOperation`: which of the endings wins when several are due, and with
  which prefix; a source that claims a cancellation or another prefix can bring about
  the ending that belongs to its claim and no other.
- **store**: `AckedIsStored`, `FailureChangesNothing` (a command that failed the only time
  it was run is not in the log), `WholeDocument` (no reader finds a torn document,
  because the temporary file is synced before it is renamed), `EveryCommandEnds` (who
  waits at the lock has no way back, so this fails as soon as a holder waits for
  anything that needs the lock), and the refinement: every command in the log stands at the revision its author read,
  and only a power failure takes commands back, the newest first.
- **tracker**: `FreshSinceReopen` (a complete stage rests on no evidence older than
  its last reopening or that of a stage before it), `CheckDefended`, `EvidenceKept`
  (what is recorded keeps its content and its revisions for good),
  `LeftTopicsComplete`, `PassedModuleFrozen`, `InOrder`.
- **fallback**: `OnlySuitableRoutes` compares the attempts with a definition of
  suitability that does not mention gaps; `BestUntriedFirst` with the ranking;
  `SchemasUnderstood` goes from the schema that is sent, through the walk, the
  declaration and the comparison, to the profile of whoever takes the request up.
- **agent**: `ToolsRunOnceAndAreSeen` relates what reached the tools to what the model
  was shown; `CancellationsToldApart` is the table of endings by cause, and `ImplementsOneAttempt`
  what all layers together owe the caller at every step, not only at the end.
- **assembly**: `AcceptedIsLawful` and `RefusedIsUnlawful` are the two directions of
  "the collector accepts exactly the lawful streams".
- **notes**: `PictureFaithful` and `CheckIsTruthful` hold against sources that change, and
  change back, and a PNG that is replaced between two reads of it;
  `PublishedBoxesApart` relates the pixels on the disk to the geometry; `UndisturbedPdf`
  is what a print that reports success leaves when nobody interfered (a note
  saved between its validation and its printing is printed unvalidated, and a browser
  that exits with 0 and leaves the PDF of an earlier print is not noticed, so more
  does not hold); `NoSourceLost` is an action property over every hand that writes: a
  create takes a file's contents away only with `--force`, or when the author or a
  `--force` filled the file it had just made.
- **email**: `AcceptedOnce` counts in the service, not in the store; `ImplementsMailOnce`
  orders the two: stored before mailed, mailed before recorded, and no mail for
  what is recorded as done.

Deadlock is not checked in these runs: each of the systems rightly stops when its
operation is over or its bound is reached. That it does not stop *earlier* is what
`Termination`, `EveryCommandEnds` and `EventuallySent` check.

## 5. Bounds

| Run | Bound | Why it is enough |
|-----|-------|------------------|
| `streaming` | 3 attempts, 2 events an attempt, 2 cancellations, deadline 4, horizon 5, Retry-After 0, 2 or missing | two retries, so that an error in the counter shows; one event before and one after a deadline; a second cancellation is what the clean-up of the first meets; delays that are over at once, in time, and too late; an instant past the deadline |
| `store` | 2 processes, each run twice, 2 outages | two that compete, one repetition of a command whose outcome is unknown; a second outage meets the document the first one left |
| `tracker` | modules of 1, 2 and 1 topics, 5 revisions, three entries per stage | the first module was passed before the policy; the second starts in any of three phases (verified, complete, complete by hand) of its first or its last topic, after a topic completed when reviews were not structured yet; four commands complete what is open, reopen and complete again what a reopening reset, pass the Gate and go on to the next module |
| `tracker_tour_review` | one topic, 5 revisions | reopening and completing the tour are two commands |
| `fallback` | 5 routes (two of them tied, one of unknown capabilities, one too small in sum, one without strict schemas and without one keyword), 6 requests, 2 cancellations | up to three fallbacks; no route at all; an unknown profile, a sum of contexts and a missing keyword each decide for some request (the other gaps are compared in `NoGapMeansSuitable`); a schema whose deepest keyword stands in a list under a property named like a keyword, beside a default that looks like a schema; one request refused because it does not declare that keyword |
| `agent` | 3 steps, 3 call ids, 2 cancellations | a repeated id two steps later; both timeouts and two cancellations pending at once |
| `assembly` | 5 events; a text and a tool output, each event also wrong in one way | the longest chain of dependence is start, delta, delta, completion, terminal |
| `notes` | 2 processes, 3 commands, 2 edits, 4 diagrams, 2 themes, 4 texts, 2 titles | an edit and its undoing; a command that meets another one's output while a third ran before; a plain create overtaken by one with `--force` and another title; a print after a print; a diagram of each direction, with an actor in it, and one that does not fit |
| `email` | 2 operations, 4 faults | a fault for each step of two rounds of an operation, and one operation undisturbed by the other's |

Names of bounds: `MaxEvents`, `MaxStops`, `Horizon` (A), `MaxRuns`, `MaxOutages` (B),
`MaxEntries`, `MaxSupport`, `MaxRevision` (C), `MaxStops` (D, E), `MaxEvents` (F),
`MaxEdits`, `MaxRuns` (I), `MaxFaults` (H).
`MaxAttempts`, `MaxSteps`, `Deadline` and `FallbackDelay` are parameters of the code.
`notes` uses symmetry over processes and themes; it checks no liveness.

## 6. Fairness

Only what the event loop, the kernel or the code does by itself is assumed to happen,
except for the e-mail component, whose recovery needs a caller and a service that
answers: both are assumptions the code does not discharge.

- **A** The task takes its turn whenever it is not suspended, the deadline's timer
  fires and a cancelled timer stops (the event loop), the clock moves on, and a
  cancelled read and a cancelled `aclose` stop. The last is what an awaitable that
  does not suppress `CancelledError` does, and the code relies on it where it gathers
  the cancelled tasks. No fairness is given to the source: a read or a cleanup may
  hang.
- **B** A process that can go on goes on (`WF(Proceed(p))`). No error is obliged to
  happen: `Decline`, `Reject`, `SaveFails` and `Crash` are in `Next` and under no fairness,
  so that no command ends only because a fault spares it the wait. A process at
  `flock` can go on only once the lock is free, and nothing obliges the kernel to
  prefer it to others: with finitely many commands weak fairness is enough.
- **C, F, I** No liveness: commands, events and edits come when their authors send them,
  and a command may fail at every step.
- **H** The process takes its steps, an unfinished operation is given to `recover` again
  (that is what the durable store is for; the test calls it, and there is no recovery
  loop in the code), the service decides each request, and a
  lookup that is repeated for ever is decisive at some time (strong fairness: it may be
  inconclusive in between). Crashes and refusals are bounded by `MaxFaults`.
- **D** As for A: the executor's turns, the timer, the deadline, and a client that is
  cancelled stops eventually - the code awaits it and would wait for ever otherwise.
- **E** The run starts, the deadline expires in time, and a cancelled operation ends
  unless it swallows the cancellation. `Termination` therefore speaks of runs with a
  deadline and excepts swallowed cancellations: a tool that swallows one and hangs
  holds the run for good, and nothing in the code prevents it.

## 7. What is proved

Every invariant, action property and refinement of the passing runs, and what else is
listed under `theorems` in `PROJECT.json`, for every value of the constants that meets
the named assumptions. Each proof has the same shape: an invariant `IInv` that is inductive,
a lemma per conjunct with one step per action, then the properties as
consequences, and refinements as "every step maps to a step or a stutter".

- **Streaming** (`ConstantsAssumption`). `IInv` = `TypeOK` /\ `ChildrenInv` /\ `AttemptInv`
  /\ `PendingInv` /\ `CancelInv` /\ `OutcomeInv`. The properties speak of endings, so
  the invariant must follow what leads to them: which child may be in which state
  at each await (`ChildrenInv`), what `opened` and `delivered` owe to `attempt` and `accepted`
  (`AttemptInv`), what a closing generator can carry (`PendingInv`), and which
  cancellations have been replaced on the way (`CancelInv`). Theorems: type
  correctness, the seven safety properties, `DeadlineWinsTie`, `AttemptJustified`, and the
  refinement of `ModelOperation`, whose `fault` is mapped to what the generator carries:
  the source's claim lasts until a failure or a cancellation replaces it.
- **Store**. `DocInv` needs `StoreAssumption` only: whatever the lock files are and
  however often the power fails, commands stand at their expected revision, every
  document is whole and temporary files are swept. This is the part that survives
  processes with different `TMPDIR`, which lock different files: updates can then be
  lost, but never applied to a wrong revision. `SafeInv` = `DocInv` /\ `LockInv` /\
  `CopyInv` /\ `AppliedInv` adds mutual exclusion and what a lock holder knows of the
  file; under `OneLock` it gives `AckedIsStored`, `FailureChangesNothing`, `NoLostUpdate` and
  the refinement of `VersionedDocument`, for any number of power failures. `OneLock`
  is needed: with two lock files these properties fail.
- **Tracker** (`TrackAssumption`). `IInv` = `TypeOK` /\ `Valid` /\ `Started` /\
  `LeftTopicsComplete`: the document validated after each command, and what start
  commands leave behind. `FreshInv` adds the revisions of entries for
  `FreshSinceReopen`. Also `CheckDefended`, `EvidenceKept`, `PassedModuleFrozen` and the
  refinement of `Syllabus` (`InOrder`). `DownstreamIsTheClosure` shows that the table by
  which a reopening resets later stages is the closure of the prerequisites, nothing
  missing and nothing extra; `StagesRestOnTheirBasis` that the validation of
  neighbouring stages adds up to that closure. `ToursAreReviewedUnlessReopened` bounds
  finding 3: a tour none of whose active evidence reopened it rests on a passed review.
- **Fallback** (`FallbackAssumption`; `ProfilesAreValid` for `OnlySuitableRoutes`).
  `NoGapMeansSuitable` is a fact about `Capabilities` alone: a report with no gap implies
  the declarative definition of suitability. `IInv` = `TypeOK` /\ `ChildrenInv` /\ `RankInv`
  /\ `LogInv` /\ `EffectInv` /\ `OutcomeInv`: the excluded routes are exactly those
  attempted, each the best of what was left, and every failed attempt but the last
  was free of effects. `SchemasAreDeclared` follows a schema from the template through
  the declaration and the comparison to the provider. `WalkIsExact`, again without the
  executor, says that the walk collects exactly the keywords used, whatever the depth
  of the schema: that every path has the role its cutting into pieces gives it is shown
  by a least counterexample, a shortest path on which the two differ
  (`WFMin` over the natural numbers), which needs no induction theorem with an
  operator for a parameter. The two give `SchemasAreUnderstood` without
  a further assumption. With finitely many routes, `AttemptsAreBounded` limits
  the attempts by the suitable routes, and `CallsAreFinite` is a measure: untried
  candidates first, then the points of the loop, the two tasks, and what the caller
  and the provider may still do; every step spends some of it.
- **Agent** (`AgentAssumption`). `IInv` = `TypeOK` /\ `CountInv` /\ `ToolInv` and the two
  outcome properties. `CountInv` is the argument: `cancelling` equals the caller's
  cancellations plus one for each timeout that is expiring, which is what makes
  "fewer or equal" comparisons of `asyncio.timeout` and of the executor decide
  rightly. `CancellationsBalance` adds that the task is handed back with the caller's
  own requests to cancel and no others. `AgentRefinement` (of `OneAttempt`) needs `BudgetInv`
  besides: the step counter is one ahead of the results in the context, so that a tool
  is never called in the last step. `RunsAreFinite` is a
  measure over the steps left, the timeouts, the cancellations and where the run is.
- **Assembly** (`EventsAssumption`, `AssemblyAssumption`). `IInv` = `TypeOK` /\ `Corresponds`
  /\ "the accepted events are lawful" /\ "no terminal event has been accepted yet".
  `Corresponds` says of each dictionary what the checks need to know: which outputs
  it has entries for, that an accumulated text is the one the letters spell, that a
  tool accumulator's identity is that of every delta, and has a delta as witness.
  The heart is `FitsIffLawful`: an event passes the checks *if and only if* the
  history with it is lawful as a whole, by a lemma per kind of event; both
  properties follow. That two texts which both agree with the history are equal
  (`SpelledOnce`) needs each rank from 1 to the number of letters to be taken; instead
  of an induction over the history this is a part of the invariant (`RankInv`).
- **Notes** (`NoteAssumption`). `ReadyBoxesApart` is geometry: whatever the number of
  boxes, ranks and orders, their heights and the size of the canvas, a diagram that the
  runtime does not refuse keeps the distances of `BoxesApart`. Across, the box width is
  a minimum of the space per rank or order and a cap; the proof bounds the distance of
  two neighbouring centres from below by the box and a gap, with the multiplications
  isolated in the lemmas `Scale` and `ScaleBoth`; an actor's 108 pixels are below the
  narrowest box the runtime accepts (`ActorsFit`). Upwards, the runtime checks 130 or 96
  pixels from centre to centre, which is where the 260 and 192 for two heights come
  from (`RowLevels`, `ColumnLevels`). The invariant of the commands relates
  what each process has in memory to what it wrote: a staged picture shows what it
  names, a check's two readings agree, a create that nobody overtook writes to an empty
  file and is the only plain one that has it open (`OneCreator`). Every
  property of the run follows.
- **E-mail** (`EmailAssumption`). `MailInv` = `TypeOK` /\ `OneLive` /\ `Knowledge` /\ `Spent`: at most one
  request of an operation is out or accepted, and none when the process is about to
  send. TERMINALLY_ABSENT is what carries that knowledge from the service to the
  next attempt. `Spent` says that an operation has been attempted once more than there
  were faults at most (`RetriesArePaidFor`), which is also what keeps request numbers
  within those of `MailOnce` in `MailRefinement`.

Only model-checked: liveness (`Termination` of A, D and E, `EveryCommandEnds`,
`EventuallySent`), which the prover cannot do under fairness. Of `Termination` of D and E
the safety half is proved: `CallsAreFinite` and `RunsAreFinite` say that no behaviour
takes infinitely many steps that change something, for every value of the constants
(`MaxStops` among them: a caller that cancels for ever is not modelled). What is left
to TLC is that a call does not stop short of its end, which is about ENABLED and
fairness. A has no such theorem: how many events a source delivers is bounded by the
model (`MaxEvents`) and by nothing in the code.

## 8. Findings

1. `attempt_after_cancel`: a 429 raised by `aclose` after a cancellation reaches the
   retry decision (`execution.py:137`), and a second attempt is opened, although the
   lesson's README (14-15) says that none is started. More generally a failure of
   `aclose` replaces the exception in flight (`execution.py:261`, `:265`), be it a
   cancellation or a `break` with its accepted prefix (lesson README 69-70).
2. `commit_lost_on_second_cancel`: a second cancellation during the cleanup of a
   committed response loses it (`stream_assembly.py:254`; lesson README 81-82).
3. `tracker_tour_review`: the review that says why a code tour was reopened may itself
   count as the passed review that completes it again (`progress_tracker.py:531`,
   unlike `:415`).
4. `agent_deadline`: a tool or transport that answers the deadline's cancellation with
   an exception of its own makes the run end as a failed step, not as
   `AmbiguousCompletion` (`distributed_executor.py:128`; lesson README 79-82).

The properties of the passing runs state what the code does guarantee around these
points: `CancellationHeard` speaks of cancellations that no cleanup failure has
replaced, and `ModelOperation` gives a committed response up only to a second
cancellation.

Two weaknesses have no run of their own, since they need a browser that misreports or
an author who writes into a file just being created; the properties of `notes` except
them by name. `render_note.py:184` looks at
the size of the PDF and not at its age: a browser that exits with 0 and writes nothing
passes on the PDF of an earlier print, although `SKILL.md:131` calls a stale PDF an
error (`careless` in `UndisturbedPdf`). And a create opens its file and writes to it in two
steps: what the author or a `--force` saved there in between is overwritten
(`overtaken` in `NoSourceLost`).

## 9. What is not modelled

- **D**: rankings other than the priority ranking are a caller's parameter; what the
  constructors refuse because of its type.
- **G**: queue of scripts and recorded calls (plan, step 12); the checks of a replayed
  stream are in `StreamAssembly`.
- **I**: what `validate_note.py` finds inside a Markdown text and the PNG codec: string
  processing that unit tests reach and a model would only repeat.
- **D, E**: a client, tool or transport that raises `CancelledError` although nobody has
  cancelled it.
- **J**: the routing of connectors and labels, the drawing itself, and how high the
  browser makes a box for its labels. Boxes above each other that are higher together
  than the rows allow, two actors in one column of a left-right diagram among them,
  may overlap; `SKILL.md:119-120` has the author look at the picture.
- **K, L, M, N**: one pass over a file, instructions, fixed runs and data: no state that
  several actors or several steps could bring out of order.
- Abstracted everywhere: texts of messages, logging and traces, JSON types, dates,
  titles and the Git repository (an evidence item is acceptable or not).
- Evidence is collected before the lock is taken (`progress_tracker.py:1306`): the
  working tree may have moved on when the command is applied. The code records the
  commit it looked at and validates it again, so this is by design.
- Every command validates all evidence of the document again (`progress_tracker.py:1405`),
  also what is superseded. An artifact renamed later, or a commit pruned, refuses every
  further command; in the model evidence once accepted stays valid (plan, step 10).
