-------------------------- MODULE ProgressTracker --------------------------
(***************************************************************************)
(* The document that progress_tracker.py keeps (progress/progress.json)    *)
(* and the commands that change it.  One action is one run of              *)
(* mutate_progress that was accepted: the command's own checks, its        *)
(* changes, and the validation of the whole result; a rejected run leaves  *)
(* the document alone.  That concurrent runs behave like such single steps *)
(* is what ProgressStore shows.                                            *)
(*                                                                         *)
(* Abstracted: titles, dates and actors, JSON types, and the Git           *)
(* repository (an action stands for a run whose files, commits and tag     *)
(* exist).  All evidence supplied by one command shares one entry.         *)
(***************************************************************************)
EXTENDS Integers, FiniteSets

CONSTANTS
    MaxModules,    \* bound: modules of the track
    Expected,      \* Expected[m]: how many expected_topics module m has
    Criteria,      \* the criteria of every module's Gate
    Batches,       \* Batches[s]: bound: evidence one command adds to stage s
    CriterionBatches,  \* bound: the same for a criterion
    NewStatuses,   \* bound: the statuses a command asks for
    Legacy,        \* modules passed before gates had a policy
    Seeds,         \* bound: the phases a topic starts in
    LeftSeeds,     \* bound: those of the topics before it
    MaxEntries,    \* bound: the commands that add evidence to one stage
    MaxSupport,    \* bound: the same for a criterion
    MaxRevision    \* bound: the last revision

Modules == 1..MaxModules

Stages == {"theory", "implementation", "verification", "guided_code_tour",
           "understanding_check", "notes_finalized"}
Statuses == {"pending", "in_progress", "blocked", "complete"}
ProofKinds == {"test", "trace", "metric", "experiment", "diff"}

(* One piece of evidence.  good: exit_code = 0, or result = passed; proof: *)
(* understanding.proof of a structured review, NoProof for any other.      *)
NoProof == [kind |-> "none", ref |-> "none"]
Refs == {"md", "pdf", "code", "commit", "test", "other_test", "talk"}
Item == [kind : {"artifact", "commit", "test", "review"}, ref : Refs,
         good : BOOLEAN,
         proof : [kind : ProofKinds \cup {"none"}, ref : Refs \cup {"none"}]]

Topics(m) == {m} \X (1..Expected[m])
AllTopics == UNION { Topics(m) : m \in Modules }
AllStages == { <<t[1], t[2], s>> : t \in AllTopics, s \in Stages }
AllCriteria == Modules \X Criteria

ASSUME TrackAssumption ==
    /\ MaxModules \in Nat \ {0}
    /\ Expected \in [Modules -> Nat \ {0}]
    /\ Criteria # {}
    /\ Batches \in [Stages -> SUBSET (SUBSET Item)]
    /\ CriterionBatches \subseteq SUBSET Item
    /\ NewStatuses \subseteq Statuses
    /\ Legacy \in 0..MaxModules - 1
    /\ Seeds \cup LeftSeeds
          \subseteq [Stages -> [status : Statuses, batch : SUBSET Item]]
    /\ MaxEntries \in [Stages -> Nat]
    /\ MaxSupport \in Nat
    /\ MaxRevision \in Nat

(* The CLI: only understanding_check takes a structured review.            *)
ASSUME StructuredOnlyInCheck ==
    /\ \A s \in Stages \ {"understanding_check"} : \A b \in Batches[s] :
          \A i \in b : i.proof = NoProof
    /\ \A b \in CriterionBatches : \A i \in b : i.proof = NoProof

VARIABLES
    module,     \* current.module: the latest one started
    started,    \* started[m]: how many topics of module m exist
    status,     \* the status of every stage of every topic
    evidence,   \* its evidence, one entry for each command
    criterion,  \* the status of every Gate criterion
    support,    \* the evidence of every criterion
    gate,       \* gate[m]: not_met, passed or legacy (passed with no policy)
    revision,   \* the revision, which is also the length of the history
    reset       \* ghost: the revision that last reopened or reset a stage

vars == <<module, started, status, evidence, criterion, support, gate,
          revision, reset>>

stageVars == <<status, evidence, reset>>
criterionVars == <<criterion, support>>

----------------------------------------------------------------------------
(* Evidence.                                                               *)
Entry(batch, reopening) ==
    [batch |-> batch, added |-> revision + 1, reopening |-> reopening,
     superseded |-> 0]

ActiveIn(entries) == { e \in entries : e.superseded = 0 }
Items(entries) == UNION { e.batch : e \in ActiveIn(entries) }

(* Without the reviews whose role is reopen_reason.                        *)
ItemsProper(entries) ==
    UNION { { i \in e.batch : ~(e.reopening /\ i.kind = "review") } :
               e \in ActiveIn(entries) }

Proves(i, proof) ==
    /\ i.ref = proof.ref
    /\ \/ proof.kind = "test" /\ i.kind = "test" /\ i.good
       \/ /\ proof.kind \in {"trace", "metric", "experiment"}
          /\ i.kind = "artifact" \/ (i.kind = "test" /\ i.good)
       \/ proof.kind = "diff" /\ i.kind = "commit"

PassedDefence(i) == i.kind = "review" /\ i.good /\ i.proof # NoProof

(* _new_applied_understanding_bundle                                       *)
IsBundle(batch) ==
    \E review, proof \in batch :
        /\ PassedDefence(review)
        /\ ~PassedDefence(proof)
        /\ Proves(proof, review.proof)
        /\ batch = {review, proof}

(* _has_passed_applied_understanding                                       *)
Defended(entries) ==
    \E review, proof \in ItemsProper(entries) :
        PassedDefence(review) /\ Proves(proof, review.proof)

Successful(entries) ==
    \E i \in ItemsProper(entries) : i.kind \in {"artifact", "commit"} \/ i.good

Artifacts(entries) == { i.ref : i \in { j \in Items(entries) : j.kind = "artifact" } }

SufficesFor(s, entries) ==
    CASE s \in {"theory", "notes_finalized"} ->
            {"md", "pdf"} \subseteq Artifacts(entries)
      [] s = "implementation" -> Artifacts(entries) # {}
      [] s = "verification" ->
            \E i \in Items(entries) : i.kind = "test" /\ i.good
      [] OTHER -> \E i \in Items(entries) : i.kind = "review" /\ i.good

(* mutant: marks again what an earlier command had marked                  *)
SupersedeAgain(entries) ==
    { [e EXCEPT !.superseded = revision + 1] : e \in entries }

Supersede(entries) ==
    { IF e.superseded = 0 THEN [e EXCEPT !.superseded = revision + 1] ELSE e :
          e \in entries }

----------------------------------------------------------------------------
(* Stages and topics.                                                      *)
Prerequisites ==
    [s \in Stages |->
        CASE s = "theory" -> {}
          [] s = "implementation" -> {"theory"}
          [] s = "verification" -> {"implementation"}
          [] s \in {"guided_code_tour", "understanding_check"} -> {"verification"}
          [] s = "notes_finalized" -> {"guided_code_tour", "understanding_check"}]

Downstream ==
    [s \in Stages |->
        CASE s = "theory" -> Stages \ {"theory"}
          [] s = "implementation" -> Stages \ {"theory", "implementation"}
          [] s = "verification" ->
                {"guided_code_tour", "understanding_check", "notes_finalized"}
          [] s \in {"guided_code_tour", "understanding_check"} ->
                {"notes_finalized"}
          [] s = "notes_finalized" -> {}]

Exists(t) == t[1] \in 1..module /\ t[2] \in 1..started[t[1]]
Current == <<module, started[module]>>
Of(t, s) == <<t[1], t[2], s>>
TopicComplete(t) == \A s \in Stages : status[Of(t, s)] = "complete"

----------------------------------------------------------------------------
(* validate_progress                                                       *)
StageValid(t, s) ==
    LET entries == evidence[Of(t, s)]
    IN  /\ s = "understanding_check" =>
              \A review \in ItemsProper(entries) :
                  PassedDefence(review) =>
                      \E i \in ItemsProper(entries) : Proves(i, review.proof)
        /\ status[Of(t, s)] = "complete" =>
              Successful(entries) /\ SufficesFor(s, entries)

TopicValid(t) ==
    \A s \in Stages :
        /\ StageValid(t, s)
        /\ status[Of(t, s)] # "pending" =>
              \A p \in Prerequisites[s] : status[Of(t, p)] = "complete"

GateValid(m) ==
    /\ \A c \in Criteria :
          criterion[<<m, c>>] = "complete" => Successful(support[<<m, c>>])
    /\ gate[m] # "not_met" =>
          /\ started[m] = Expected[m]
          /\ \A t \in Topics(m) : TopicComplete(t)
          /\ \A c \in Criteria : criterion[<<m, c>>] = "complete"
    /\ gate[m] = "passed" =>
          \A t \in Topics(m) : Defended(evidence[Of(t, "understanding_check")])

Valid ==
    /\ \A t \in AllTopics : Exists(t) => TopicValid(t)
    /\ \A m \in 1..module : GateValid(m)
    /\ \A m \in 1..module - 1 : gate[m] # "not_met"

----------------------------------------------------------------------------
(* A document written by hand and accepted by `validate`: some modules were *)
(* passed before gates had a policy, and a topic of the next one is in some *)
(* phase.  What came before it is complete, perhaps since before reviews    *)
(* were structured.                                                         *)
SeedEntry(batch) ==
    IF batch = {} THEN {}
    ELSE {[batch |-> batch, added |-> 1, reopening |-> FALSE, superseded |-> 0]}

Init ==
    /\ module = Legacy + 1
    /\ \E seed \in Seeds, old \in LeftSeeds, grounds \in CriterionBatches,
          topic \in 1..Expected[Legacy + 1] :
          LET SeedOf(id) ==
                IF id[1] <= Legacy \/ (id[1] = module /\ id[2] < topic)
                THEN old[id[3]]
                ELSE IF id[1] = module /\ id[2] = topic THEN seed[id[3]]
                ELSE [status |-> "pending", batch |-> {}]
          IN  /\ \A s \in Stages : old[s].status = "complete"
              /\ started = [m \in Modules |-> IF m <= Legacy THEN Expected[m]
                                            ELSE IF m = module THEN topic ELSE 0]
              /\ status = [id \in AllStages |-> SeedOf(id).status]
              /\ evidence = [id \in AllStages |-> SeedEntry(SeedOf(id).batch)]
              /\ support = [c \in AllCriteria |->
                              IF c[1] <= Legacy THEN SeedEntry(grounds) ELSE {}]
    /\ criterion = [c \in AllCriteria |->
                      IF c[1] <= Legacy THEN "complete" ELSE "pending"]
    /\ gate = [m \in Modules |-> IF m <= Legacy THEN "legacy" ELSE "not_met"]
    /\ revision = 1
    /\ reset = [id \in AllStages |-> 0]
    /\ Valid

(* _transition                                                             *)
Transition(old, new, reopen, batch) ==
    IF old = "complete" /\ new # "complete"
    THEN /\ reopen
         /\ new \in {"in_progress", "blocked"}
         /\ \E i \in batch : i.kind = "review"
    ELSE ~reopen /\ (new = "pending" => old = "pending")

----------------------------------------------------------------------------
(* record_stage                                                            *)
(* mutant: a topic that was left may be worked on                          *)
MayRecordAnywhere(t, s, new, batch) ==
    /\ Exists(t)
    /\ gate[t[1]] = "not_met"
    /\ s = "understanding_check" /\ new = "complete" => IsBundle(batch)

(* mutant: does not look at the Gate                                       *)
MayRecordAfterGate(t, s, new, batch) ==
    /\ Exists(t)
    /\ \/ t = Current
       \/ /\ s = "understanding_check"
          /\ status[Of(t, s)] = "complete" /\ new = "complete"
          /\ IsBundle(batch)
    /\ s = "understanding_check" /\ new = "complete" => IsBundle(batch)

(* mutant: leaves the defence of a completed check to the validation       *)
MayRecordUndefended(t, s, new, batch) ==
    /\ Exists(t)
    /\ gate[t[1]] = "not_met"
    /\ t = Current

MayRecord(t, s, new, batch) ==
    /\ Exists(t)
    /\ gate[t[1]] = "not_met"
    /\ \/ t = Current
       \/ /\ s = "understanding_check"
          /\ status[Of(t, s)] = "complete" /\ new = "complete"
          /\ IsBundle(batch)
    /\ s = "understanding_check" /\ new = "complete" => IsBundle(batch)

KeepStages(t, s, new, batch) ==
    /\ status' = [status EXCEPT ![Of(t, s)] = new]
    /\ evidence' = [evidence EXCEPT ![Of(t, s)] = @ \cup {Entry(batch, FALSE)}]
    /\ UNCHANGED reset

(* mutant: resets the later stages and leaves their evidence active        *)
ReopenStatusOnly(t, s, new, batch) ==
    LET after == { Of(t, d) : d \in Downstream[s] }
        it == Of(t, s)
    IN  /\ status' = [id \in AllStages |->
                        IF id = it THEN new
                        ELSE IF id \in after THEN "pending" ELSE status[id]]
        /\ evidence' = [evidence EXCEPT
                          ![it] = Supersede(@) \cup {Entry(batch, TRUE)}]
        /\ reset' = [id \in AllStages |->
                       IF id = it \/ id \in after THEN revision + 1
                       ELSE reset[id]]

(* The stage is reopened: what it and the stages after it rested on is     *)
(* superseded, and those stages start over.                                *)
ReopenStages(t, s, new, batch) ==
    LET after == { Of(t, d) : d \in Downstream[s] }
        it == Of(t, s)
    IN  /\ status' = [id \in AllStages |->
                        IF id = it THEN new
                        ELSE IF id \in after THEN "pending" ELSE status[id]]
        /\ evidence' = [id \in AllStages |->
                          IF id = it
                          THEN Supersede(evidence[id]) \cup {Entry(batch, TRUE)}
                          ELSE IF id \in after THEN Supersede(evidence[id])
                          ELSE evidence[id]]
        /\ reset' = [id \in AllStages |->
                       IF id = it \/ id \in after THEN revision + 1
                       ELSE reset[id]]

RecordStage(t, s, new, batch, reopen) ==
    /\ revision < MaxRevision
    /\ Cardinality(evidence[Of(t, s)]) < MaxEntries[s]
    /\ MayRecord(t, s, new, batch)
    /\ Transition(status[Of(t, s)], new, reopen, batch)
    /\ IF reopen THEN ReopenStages(t, s, new, batch)
                 ELSE KeepStages(t, s, new, batch)
    /\ revision' = revision + 1
    /\ UNCHANGED <<module, started, criterionVars, gate>>
    /\ Valid'

(* record_criterion                                                        *)
RecordCriterion(m, c, new, batch, reopen) ==
    /\ revision < MaxRevision
    /\ Cardinality(support[<<m, c>>]) < MaxSupport
    /\ m \in 1..module
    /\ gate[m] = "not_met"
    /\ Transition(criterion[<<m, c>>], new, reopen, batch)
    /\ criterion' = [criterion EXCEPT ![<<m, c>>] = new]
    /\ support' = [support EXCEPT ![<<m, c>>] =
                      (IF reopen THEN Supersede(@) ELSE @)
                         \cup {Entry(batch, reopen)}]
    /\ revision' = revision + 1
    /\ UNCHANGED <<module, started, stageVars, gate>>
    /\ Valid'

(* pass_gate: only completed topics are asked for their defence here; the  *)
(* validation of the result asks for the rest.                             *)
PassGate(m) ==
    /\ revision < MaxRevision
    /\ m \in 1..module
    /\ gate[m] = "not_met"
    /\ \A t \in Topics(m) : Exists(t) /\ TopicComplete(t) =>
          Defended(evidence[Of(t, "understanding_check")])
    /\ gate' = [gate EXCEPT ![m] = "passed"]
    /\ revision' = revision + 1
    /\ UNCHANGED <<module, started, stageVars, criterionVars>>
    /\ Valid'

(* mutant: goes on before the current topic is complete                    *)
StartTopicEarly ==
    /\ revision < MaxRevision
    /\ started[module] < Expected[module]
    /\ started' = [started EXCEPT ![module] = @ + 1]
    /\ status' = [status EXCEPT ![<<module, started[module] + 1, "theory">>] =
                      "in_progress"]
    /\ revision' = revision + 1
    /\ UNCHANGED <<module, evidence, reset, criterionVars, gate>>
    /\ Valid'

(* start_topic                                                             *)
StartTopic ==
    /\ revision < MaxRevision
    /\ TopicComplete(Current)
    /\ started[module] < Expected[module]
    /\ started' = [started EXCEPT ![module] = @ + 1]
    /\ status' = [status EXCEPT ![<<module, started[module] + 1, "theory">>] =
                      "in_progress"]
    /\ revision' = revision + 1
    /\ UNCHANGED <<module, evidence, reset, criterionVars, gate>>
    /\ Valid'

(* start_module                                                            *)
StartModule ==
    /\ revision < MaxRevision
    /\ module < MaxModules
    /\ gate[module] # "not_met"
    /\ module' = module + 1
    /\ started' = [started EXCEPT ![module + 1] = 1]
    /\ status' = [status EXCEPT ![<<module + 1, 1, "theory">>] = "in_progress"]
    /\ revision' = revision + 1
    /\ UNCHANGED <<evidence, reset, criterionVars, gate>>
    /\ Valid'

Next ==
    \/ \E t \in AllTopics, s \in Stages, new \in NewStatuses,
          reopen \in BOOLEAN : \E batch \in Batches[s] :
             RecordStage(t, s, new, batch, reopen)
    \/ \E m \in Modules, c \in Criteria, new \in NewStatuses,
          batch \in CriterionBatches, reopen \in BOOLEAN :
             RecordCriterion(m, c, new, batch, reopen)
    \/ \E m \in Modules : PassGate(m)
    \/ StartTopic
    \/ StartModule

Spec == Init /\ [][Next]_vars

----------------------------------------------------------------------------
EntrySet == [batch : SUBSET Item, added : Nat, reopening : BOOLEAN,
             superseded : Nat]

(* Every variable has its type.                                            *)
TypeOK ==
    /\ module \in Modules
    /\ started \in [Modules -> Nat]
    /\ status \in [AllStages -> Statuses]
    /\ evidence \in [AllStages -> SUBSET EntrySet]
    /\ criterion \in [AllCriteria -> Statuses]
    /\ support \in [AllCriteria -> SUBSET EntrySet]
    /\ gate \in [Modules -> {"not_met", "passed", "legacy"}]
    /\ revision \in Nat
    /\ reset \in [AllStages -> Nat]

(* Evidence is never rewritten: whatever a command stored stays, and the   *)
(* only change a later command makes to it is to mark it superseded, once, *)
(* with its own revision (_supersede).                                     *)
Keeps(old, new) ==
    \A e \in old :
        \/ e \in new
        \/ e.superseded = 0 /\ [e EXCEPT !.superseded = revision'] \in new

EvidenceKept ==
    [][/\ \A id \in AllStages : Keeps(evidence[id], evidence'[id])
       /\ \A c \in AllCriteria : Keeps(support[c], support'[c])]_vars

(* The stages that a stage needs, directly or through others.              *)
Basis ==
    [s \in Stages |->
        { p \in Stages : \A closed \in SUBSET Stages :
            /\ Prerequisites[s] \subseteq closed
            /\ \A q \in closed : Prerequisites[q] \subseteq closed
            => p \in closed }]

(* What a stage rests on is never older than the last time it, or a stage  *)
(* it needs, was reopened, however often stages were reopened and completed*)
(* in between and in whichever order (record_stage, _downstream_stages).   *)
FreshSinceReopen ==
    \A t \in AllTopics, s \in Stages : \A e \in ActiveIn(evidence[Of(t, s)]) :
        /\ e.added >= reset[Of(t, s)]
        /\ \A p \in Basis[s] : e.added > reset[Of(t, p)]

(* A topic is left for good: nothing that can be recorded once the next    *)
(* topic or module has started makes it incomplete again.  The validation  *)
(* does not look at it; only the commands' own checks keep it so.          *)
LeftTopicsComplete ==
    \A t \in AllTopics : Exists(t) /\ t # Current => TopicComplete(t)

(* Once a module's Gate has passed, with the policy or before it, none of  *)
(* what it was passed on changes.                                          *)
PassedModuleFrozen ==
    [][\A m \in Modules : gate[m] # "not_met" =>
          /\ gate'[m] = gate[m] /\ started'[m] = started[m]
          /\ \A id \in AllStages : id[1] = m =>
                status'[id] = status[id] /\ evidence'[id] = evidence[id]
          /\ \A c \in AllCriteria : c[1] = m =>
                criterion'[c] = criterion[c] /\ support'[c] = support[c]]_vars

(* A check of understanding that was completed by a command, not by hand,  *)
(* rests on a defence and its proof that one command brought together and  *)
(* nothing has superseded since (record_stage).                            *)
CheckDefended ==
    \A t \in AllTopics :
        LET check == Of(t, "understanding_check")
            recorded == { e \in ActiveIn(evidence[check]) : e.added > 1 }
            byHand == \E e \in evidence[check] : e.added = 1
        IN  status[check] = "complete" /\ (byHand => reset[check] > 0) =>
                \E e \in recorded : ~e.reopening /\ IsBundle(e.batch)

(* A completed tour of the code rests on a passed review of its own, not   *)
(* on the review that says why it was reopened (_validate_stage).          *)
TourReviewed ==
    \A t \in AllTopics :
        LET tour == Of(t, "guided_code_tour")
        IN  status[tour] = "complete" =>
                \E i \in ItemsProper(evidence[tour]) : i.kind = "review" /\ i.good

(* The topics are taught in order: see Syllabus.                           *)
TeachingOrder ==
    INSTANCE Syllabus WITH
        topic <- Current, done <- TopicComplete(Current),
        closed <- { m \in Modules : gate[m] # "not_met" }
InOrder == TeachingOrder!Spec
=============================================================================
