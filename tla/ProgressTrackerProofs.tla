----------------------- MODULE ProgressTrackerProofs -----------------------
(***************************************************************************)
(* Proofs about ProgressTracker for any track: any number of modules,      *)
(* topics and criteria, any evidence and any starting document that        *)
(* `validate` accepts.                                                     *)
(***************************************************************************)
EXTENDS ProgressTracker, TLAPS

(* Only the modules that were started have a Gate and topics, and the one  *)
(* being studied has at least a topic.                                     *)
Started ==
    /\ started[module] \in 1..Expected[module]
    /\ \A m \in Modules : m > module => gate[m] = "not_met"

IInv == TypeOK /\ Valid /\ Started /\ LeftTopicsComplete

(* A reopening is never later than the document's revision.                *)
ResetBound ==
    /\ revision >= 1
    /\ \A id \in AllStages : reset[id] <= revision

----------------------------------------------------------------------------
(* How topics and stages are named.                                        *)
LEMMA Naming ==
    /\ \A m \in Modules : \A n \in 1..Expected[m] : <<m, n>> \in AllTopics
    /\ \A t \in AllTopics :
          /\ t = <<t[1], t[2]>>
          /\ t[1] \in Modules /\ t[2] \in 1..Expected[t[1]]
          /\ \A s \in Stages : Of(t, s) \in AllStages
    /\ \A t, u \in AllTopics, s, r \in Stages :
          Of(t, s) = Of(u, r) => t = u /\ s = r
    /\ \A m \in Modules, n \in Nat, s \in Stages : Of(<<m, n>>, s) = <<m, n, s>>
<1> USE TrackAssumption
<1>1. \A m \in Modules : \A n \in 1..Expected[m] : <<m, n>> \in AllTopics
    BY DEF AllTopics, Topics
<1>2. \A t \in AllTopics : t = <<t[1], t[2]>>
                           /\ t[1] \in Modules /\ t[2] \in 1..Expected[t[1]]
    BY DEF AllTopics, Topics
<1>3. \A t \in AllTopics, s \in Stages : Of(t, s) \in AllStages
    BY DEF AllStages, Of
<1>4. \A t, u \in AllTopics, s, r \in Stages :
          Of(t, s) = Of(u, r) => t = u /\ s = r
  <2> SUFFICES ASSUME NEW t \in AllTopics, NEW u \in AllTopics,
                      NEW s \in Stages, NEW r \in Stages, Of(t, s) = Of(u, r)
               PROVE  t = u /\ s = r
      OBVIOUS
  <2>1. t[1] = u[1] /\ t[2] = u[2] /\ s = r
      BY DEF Of
  <2> QED BY <2>1, <1>2
<1>5. \A m \in Modules, n \in Nat, s \in Stages : Of(<<m, n>>, s) = <<m, n, s>>
    BY DEF Of
<1> QED BY <1>1, <1>2, <1>3, <1>4, <1>5

(* What a command adds and what superseding leaves are entries.            *)
LEMMA EntryTypes ==
    ASSUME TypeOK
    PROVE  /\ \A batch \in SUBSET Item, again \in BOOLEAN :
                 Entry(batch, again) \in EntrySet
           /\ \A entries \in SUBSET EntrySet :
                 Supersede(entries) \in SUBSET EntrySet
BY DEF TypeOK, Entry, Supersede, EntrySet

LEMMA TypeInitially == Init => TypeOK
<1> SUFFICES ASSUME Init PROVE TypeOK
    OBVIOUS
<1> USE TrackAssumption
<1>1. module \in Modules /\ revision \in Nat /\ reset \in [AllStages -> Nat]
    BY DEF Init, Modules
<1>2. criterion \in [AllCriteria -> Statuses]
      /\ gate \in [Modules -> {"not_met", "passed", "legacy"}]
    BY DEF Init, Statuses
<1>3. \A batch \in SUBSET Item : SeedEntry(batch) \in SUBSET EntrySet
    BY DEF SeedEntry, EntrySet
<1>4. PICK seed \in Seeds, old \in LeftSeeds, grounds \in CriterionBatches,
           topic \in 1..Expected[Legacy + 1] :
        LET SeedOf(id) ==
              IF id[1] <= Legacy \/ (id[1] = module /\ id[2] < topic)
              THEN old[id[3]]
              ELSE IF id[1] = module /\ id[2] = topic THEN seed[id[3]]
              ELSE [status |-> "pending", batch |-> {}]
        IN  /\ started = [m \in Modules |-> IF m <= Legacy THEN Expected[m]
                                          ELSE IF m = module THEN topic ELSE 0]
            /\ status = [id \in AllStages |-> SeedOf(id).status]
            /\ evidence = [id \in AllStages |-> SeedEntry(SeedOf(id).batch)]
            /\ support = [c \in AllCriteria |->
                            IF c[1] <= Legacy THEN SeedEntry(grounds) ELSE {}]
    BY DEF Init
<1> DEFINE Seeded(id) == IF id[1] <= Legacy \/ (id[1] = module /\ id[2] < topic)
                         THEN old[id[3]]
                         ELSE IF id[1] = module /\ id[2] = topic THEN seed[id[3]]
                         ELSE [status |-> "pending", batch |-> {}]
<1>5. \A id \in AllStages : id[3] \in Stages
    BY DEF AllStages
<1>6. \A s \in Stages : seed[s] \in [status : Statuses, batch : SUBSET Item]
                        /\ old[s] \in [status : Statuses, batch : SUBSET Item]
    OBVIOUS
<1>7. \A id \in AllStages : Seeded(id) \in [status : Statuses, batch : SUBSET Item]
    BY <1>5, <1>6 DEF Statuses
<1>10. /\ status = [id \in AllStages |-> Seeded(id).status]
       /\ evidence = [id \in AllStages |-> SeedEntry(Seeded(id).batch)]
    BY <1>4
<1> HIDE DEF Seeded
<1>11. \A id \in AllStages : Seeded(id).status \in Statuses
                            /\ Seeded(id).batch \in SUBSET Item
    BY <1>7
<1>8. status \in [AllStages -> Statuses]
      /\ evidence \in [AllStages -> SUBSET EntrySet]
    BY <1>3, <1>10, <1>11
<1>9. support \in [AllCriteria -> SUBSET EntrySet]
    BY <1>3, <1>4
<1>12. started \in [Modules -> Nat]
    BY <1>4
<1> QED BY <1>1, <1>2, <1>8, <1>9, <1>12 DEF TypeOK

LEMMA TypeStep == IInv /\ [Next]_vars => TypeOK'
<1> SUFFICES ASSUME IInv, [Next]_vars PROVE TypeOK'
    OBVIOUS
<1> USE TrackAssumption
<1>t. TypeOK
    BY DEF IInv
<1>1. ASSUME NEW t \in AllTopics, NEW s \in Stages, NEW new \in NewStatuses,
             NEW reopen \in BOOLEAN, NEW batch \in Batches[s],
             RecordStage(t, s, new, batch, reopen)
      PROVE  TypeOK'
  <2>1. new \in Statuses /\ batch \in SUBSET Item /\ revision + 1 \in Nat
        /\ revision' = revision + 1
    BY <1>1, <1>t DEF TypeOK, RecordStage
  <2>2. UNCHANGED <<module, started, criterion, support, gate>>
    BY <1>1 DEF RecordStage, criterionVars
  <2>3. CASE reopen
    <3>1. ReopenStages(t, s, new, batch)
      BY <1>1, <2>3 DEF RecordStage
    <3>2. status' \in [AllStages -> Statuses] /\ reset' \in [AllStages -> Nat]
      BY <3>1, <2>1, <1>t DEF ReopenStages, TypeOK, Statuses
    <3>3. evidence' \in [AllStages -> SUBSET EntrySet]
      BY <3>1, <2>1, <1>t, EntryTypes DEF ReopenStages, TypeOK
    <3> QED BY <3>2, <3>3, <2>1, <2>2, <1>t DEF TypeOK
  <2>4. CASE ~reopen
    <3>1. KeepStages(t, s, new, batch)
      BY <1>1, <2>4 DEF RecordStage
    <3>2. status' \in [AllStages -> Statuses] /\ reset' \in [AllStages -> Nat]
      BY <3>1, <2>1, <1>t DEF KeepStages, TypeOK
    <3>3. evidence' \in [AllStages -> SUBSET EntrySet]
      BY <3>1, <2>1, <1>t, EntryTypes DEF KeepStages, TypeOK
    <3> QED BY <3>2, <3>3, <2>1, <2>2, <1>t DEF TypeOK
  <2> QED BY <2>3, <2>4
<1>2. ASSUME NEW m \in Modules, NEW c \in Criteria, NEW new \in NewStatuses,
             NEW batch \in CriterionBatches, NEW reopen \in BOOLEAN,
             RecordCriterion(m, c, new, batch, reopen)
      PROVE  TypeOK'
  <2>1. new \in Statuses /\ batch \in SUBSET Item /\ revision' \in Nat
        /\ UNCHANGED <<module, started, status, evidence, reset, gate>>
    BY <1>2, <1>t DEF TypeOK, RecordCriterion, stageVars
  <2>2. criterion' \in [AllCriteria -> Statuses]
    BY <1>2, <1>t, <2>1 DEF TypeOK, RecordCriterion
  <2>3. support' \in [AllCriteria -> SUBSET EntrySet]
    BY <1>2, <1>t, <2>1, EntryTypes DEF TypeOK, RecordCriterion
  <2> QED BY <2>1, <2>2, <2>3, <1>t DEF TypeOK
<1>3. ASSUME NEW m \in Modules, PassGate(m) PROVE TypeOK'
    BY <1>3, <1>t DEF TypeOK, PassGate, stageVars, criterionVars
<1>4. CASE StartTopic
  <2>1. UNCHANGED <<module, evidence, reset, criterion, support, gate>>
        /\ revision' = revision + 1
    BY <1>4 DEF StartTopic, criterionVars
  <2>2. started' \in [Modules -> Nat]
    <3>1. started[module] + 1 \in Nat
      BY <1>t DEF TypeOK
    <3>2. started' = [started EXCEPT ![module] = started[module] + 1]
      BY <1>4 DEF StartTopic
    <3> QED BY <3>1, <3>2, <1>t DEF TypeOK
  <2>3. status' \in [AllStages -> Statuses]
    BY <1>4, <1>t DEF TypeOK, StartTopic, Statuses
  <2> QED BY <2>1, <2>2, <2>3, <1>t DEF TypeOK
<1>5. CASE StartModule
  <2>1. UNCHANGED <<evidence, reset, criterion, support, gate>>
        /\ revision' = revision + 1
    BY <1>5 DEF StartModule, criterionVars
  <2>2. module' \in Modules
    BY <1>5, <1>t DEF TypeOK, StartModule, Modules
  <2>3. started' \in [Modules -> Nat] /\ status' \in [AllStages -> Statuses]
    BY <1>5, <1>t DEF TypeOK, StartModule, Statuses
  <2> QED BY <2>1, <2>2, <2>3, <1>t DEF TypeOK
<1>6. CASE UNCHANGED vars
    BY <1>6, <1>t DEF TypeOK, vars
<1> QED BY <1>1, <1>2, <1>3, <1>4, <1>5, <1>6 DEF Next

----------------------------------------------------------------------------
(* Where a command may act: only in the module being studied, and only     *)
(* before its Gate has passed.                                             *)
LEMMA ClosedModules ==
    ASSUME IInv, NEW m \in Modules, gate[m] # "not_met"
    PROVE  /\ m <= module /\ started[m] = Expected[m]
           /\ \A t \in AllTopics : t[1] = m => TopicComplete(t)
<1> USE TrackAssumption
<1>1. module \in Nat /\ m \in Nat /\ module \in Modules
    BY DEF IInv, TypeOK, Modules
<1>2. m <= module
    BY <1>1 DEF IInv, Started
<1>3. GateValid(m)
    BY <1>1, <1>2 DEF IInv, Valid, Modules
<1>4. started[m] = Expected[m] /\ \A t \in Topics(m) : TopicComplete(t)
    BY <1>3 DEF GateValid
<1>5. \A t \in AllTopics : t[1] = m => t \in Topics(m)
    BY Naming DEF AllTopics, Topics
<1> QED BY <1>2, <1>4, <1>5

LEMMA OpenModule ==
    ASSUME IInv, NEW m \in Modules, m <= module, gate[m] = "not_met"
    PROVE  m = module
<1>1. module \in Nat /\ m \in Nat /\ m >= 1
    BY TrackAssumption DEF IInv, TypeOK, Modules
<1>2. m < module => m \in 1..module - 1
    BY <1>1
<1> QED BY <1>1, <1>2 DEF IInv, Valid

(* What record_stage leaves alone, and what it does to a topic that is not *)
(* the current one.                                                        *)
LEMMA RecordEffects ==
    ASSUME IInv, NEW t \in AllTopics, NEW s \in Stages, NEW new \in NewStatuses,
           NEW reopen \in BOOLEAN, NEW batch \in Batches[s],
           RecordStage(t, s, new, batch, reopen)
    PROVE  /\ UNCHANGED <<module, started, criterion, support, gate>>
           /\ t[1] = module /\ gate[module] = "not_met"
           /\ \A id \in AllStages : id[1] # t[1] \/ id[2] # t[2] =>
                 status'[id] = status[id] /\ evidence'[id] = evidence[id]
                 /\ reset'[id] = reset[id]
           /\ t # Current => status' = status
<1> USE TrackAssumption
<1>1. UNCHANGED <<module, started, criterion, support, gate>>
    BY DEF RecordStage, criterionVars
<1>2. Exists(t) /\ gate[t[1]] = "not_met"
    BY DEF RecordStage, MayRecord
<1>3. t[1] = module /\ gate[module] = "not_met"
  <2>1. t[1] \in Modules /\ t[1] <= module
    BY <1>2, Naming DEF Exists, IInv, TypeOK, Modules
  <2> QED BY <1>2, <2>1, OpenModule
<1>4. Of(t, s) \in AllStages /\ Of(t, s)[1] = t[1] /\ Of(t, s)[2] = t[2]
      /\ \A d \in Stages : Of(t, d)[1] = t[1] /\ Of(t, d)[2] = t[2]
    BY Naming DEF Of
<1>5. Downstream[s] \subseteq Stages
    BY DEF Downstream, Stages
<1>6. \A id \in AllStages : id[1] # t[1] \/ id[2] # t[2] =>
         status'[id] = status[id] /\ evidence'[id] = evidence[id]
         /\ reset'[id] = reset[id]
  <2>1. CASE reopen
    <3>1. ReopenStages(t, s, new, batch)
      BY <2>1 DEF RecordStage
    <3> QED BY <3>1, <1>4, <1>5 DEF ReopenStages
  <2>2. CASE ~reopen
    <3>1. KeepStages(t, s, new, batch)
      BY <2>2 DEF RecordStage
    <3> QED BY <3>1, <1>4 DEF KeepStages, IInv, TypeOK
  <2> QED BY <2>1, <2>2
<1>7. ASSUME t # Current PROVE status' = status
  <2>1. status[Of(t, s)] = "complete" /\ new = "complete"
    BY <1>7 DEF RecordStage, MayRecord
  <2>2. ~reopen
    BY <2>1 DEF RecordStage, Transition
  <2>3. status' = [status EXCEPT ![Of(t, s)] = new]
    BY <2>2 DEF RecordStage, KeepStages
  <2> QED BY <2>1, <2>3, <1>4 DEF IInv, TypeOK
<1> QED BY <1>1, <1>3, <1>6, <1>7

----------------------------------------------------------------------------
(* Where the track begins: what came before the current topic is complete. *)
LEMMA SeedsBefore ==
    ASSUME Init
    PROVE  \E topic \in 1..Expected[module] :
              /\ started = [m \in Modules |-> IF m <= Legacy THEN Expected[m]
                                            ELSE IF m = module THEN topic ELSE 0]
              /\ \A id \in AllStages :
                    id[1] <= Legacy \/ (id[1] = module /\ id[2] < topic)
                       => status[id] = "complete"
              /\ \A id \in AllStages :
                    ~(id[1] <= Legacy) /\ ~(id[1] = module /\ id[2] <= topic)
                       => status[id] = "pending"
<1>1. module = Legacy + 1
    BY DEF Init
<1>2. PICK seed \in Seeds, old \in LeftSeeds, topic \in 1..Expected[Legacy + 1] :
        LET SeedOf(id) ==
              IF id[1] <= Legacy \/ (id[1] = module /\ id[2] < topic)
              THEN old[id[3]]
              ELSE IF id[1] = module /\ id[2] = topic THEN seed[id[3]]
              ELSE [status |-> "pending", batch |-> {}]
        IN  /\ \A s \in Stages : old[s].status = "complete"
            /\ started = [m \in Modules |-> IF m <= Legacy THEN Expected[m]
                                          ELSE IF m = module THEN topic ELSE 0]
            /\ status = [id \in AllStages |-> SeedOf(id).status]
    BY DEF Init
<1>3. ASSUME NEW id \in AllStages,
             id[1] <= Legacy \/ (id[1] = module /\ id[2] < topic)
      PROVE  status[id] = "complete"
  <2>1. id[3] \in Stages
    BY DEF AllStages
  <2> QED BY <1>2, <1>3, <2>1
<1>4. ASSUME NEW id \in AllStages,
             ~(id[1] <= Legacy), ~(id[1] = module /\ id[2] <= topic)
      PROVE  status[id] = "pending"
  <2>1. topic \in Int /\ id[2] \in Int
    BY TrackAssumption, <1>1, Naming DEF AllStages, Modules
  <2> QED BY <1>2, <1>4, <2>1
<1> QED BY <1>1, <1>2, <1>3, <1>4

LEMMA Initially == Init => IInv
<1> SUFFICES ASSUME Init PROVE IInv
    OBVIOUS
<1> USE TrackAssumption
<1>1. TypeOK /\ Valid
    BY TypeInitially DEF Init
<1>2. module = Legacy + 1 /\ module \in Modules
      /\ gate = [m \in Modules |-> IF m <= Legacy THEN "legacy" ELSE "not_met"]
    BY DEF Init, Modules
<1>5. PICK topic \in 1..Expected[module] :
         /\ started = [m \in Modules |-> IF m <= Legacy THEN Expected[m]
                                       ELSE IF m = module THEN topic ELSE 0]
         /\ \A id \in AllStages :
               id[1] <= Legacy \/ (id[1] = module /\ id[2] < topic)
                  => status[id] = "complete"
    BY <1>2, Zenon, SeedsBefore
<1>3. Started
    BY <1>2, <1>5 DEF Started, Modules
<1>4. ASSUME NEW t \in AllTopics, Exists(t), t # Current PROVE TopicComplete(t)
  <2>1. t[1] \in Modules /\ t[1] \in Nat /\ t = <<t[1], t[2]>>
        /\ t[2] \in 1..Expected[t[1]]
    BY Naming DEF Modules
  <2>2. started[module] = topic
    BY <1>2, <1>5 DEF Modules
  <2>3. t[1] <= Legacy \/ (t[1] = module /\ t[2] < topic)
    BY <1>2, <1>4, <2>1, <2>2 DEF Exists, Current
  <2>4. ASSUME NEW s \in Stages PROVE status[Of(t, s)] = "complete"
    <3>1. Of(t, s) \in AllStages /\ Of(t, s)[1] = t[1] /\ Of(t, s)[2] = t[2]
      BY Naming DEF Of
    <3> QED BY <1>5, <2>3, <3>1
  <2> QED BY <2>4 DEF TopicComplete
<1> QED BY <1>1, <1>3, <1>4 DEF IInv, LeftTopicsComplete

LEMMA ValidStep == Valid /\ [Next]_vars => Valid'
<1> SUFFICES ASSUME Valid, [Next]_vars PROVE Valid'
    OBVIOUS
<1>1. CASE Next
    BY <1>1 DEF Next, RecordStage, RecordCriterion, PassGate, StartTopic,
                StartModule
<1>2. CASE UNCHANGED vars
    BY <1>2 DEF vars, Valid, TopicValid, StageValid, GateValid, Exists,
                TopicComplete, Of
<1> QED BY <1>1, <1>2

(* What the two commands that move on do.                                  *)
LEMMA TopicStarts ==
    ASSUME IInv, StartTopic
    PROVE  /\ TopicComplete(Current) /\ started[module] < Expected[module]
           /\ Current' = <<module, started[module] + 1>>
           /\ Current \in AllTopics /\ Current' \in AllTopics
           /\ module' = module /\ gate' = gate /\ started'[module] = started[module] + 1
           /\ \A m \in Modules : m # module => started'[m] = started[m]
           /\ \A id \in AllStages : id # Of(Current', "theory") =>
                 status'[id] = status[id]
           /\ status'[Of(Current', "theory")] = "in_progress"
<1> USE TrackAssumption
<1>1. module \in Modules /\ started[module] \in Nat /\ Expected[module] \in Nat
      /\ 1 <= started[module]
    BY DEF IInv, TypeOK, Started
<1>2. TopicComplete(Current) /\ started[module] < Expected[module]
      /\ module' = module /\ gate' = gate
    BY DEF StartTopic
<1>3. started' = [started EXCEPT ![module] = started[module] + 1]
      /\ status' = [status EXCEPT ![<<module, started[module] + 1, "theory">>] =
                        "in_progress"]
    BY DEF StartTopic
<1>4. started'[module] = started[module] + 1
      /\ \A m \in Modules : m # module => started'[m] = started[m]
    BY <1>1, <1>3 DEF IInv, TypeOK
<1>5. Current' = <<module, started[module] + 1>>
    BY <1>2, <1>4 DEF Current
<1>6. Current \in AllTopics /\ Current' \in AllTopics
    BY <1>1, <1>2, <1>5, Naming DEF Current
<1>7. Of(Current', "theory") = <<module, started[module] + 1, "theory">>
      /\ Of(Current', "theory") \in AllStages
    BY <1>5, <1>6, Naming DEF Of, Stages
<1> QED BY <1>2, <1>3, <1>4, <1>5, <1>6, <1>7 DEF IInv, TypeOK

LEMMA ModuleStarts ==
    ASSUME IInv, StartModule
    PROVE  /\ gate[module] # "not_met" /\ module < MaxModules
           /\ module' = module + 1 /\ module' \in Modules /\ gate' = gate
           /\ started'[module'] = 1 /\ Current' = <<module + 1, 1>>
           /\ Current \in AllTopics /\ Current' \in AllTopics
           /\ \A m \in Modules : m # module' => started'[m] = started[m]
           /\ \A id \in AllStages : id # Of(Current', "theory") =>
                 status'[id] = status[id]
           /\ status'[Of(Current', "theory")] = "in_progress"
<1> USE TrackAssumption
<1>1. module \in Modules /\ module \in Nat /\ started[module] \in 1..Expected[module]
    BY DEF IInv, TypeOK, Started, Modules
<1>2. gate[module] # "not_met" /\ module < MaxModules /\ module' = module + 1
      /\ gate' = gate
    BY DEF StartModule
<1>3. started' = [started EXCEPT ![module + 1] = 1]
      /\ status' = [status EXCEPT ![<<module + 1, 1, "theory">>] = "in_progress"]
    BY DEF StartModule
<1>4. module' \in Modules
    BY <1>1, <1>2 DEF Modules
<1>5. started'[module'] = 1
      /\ \A m \in Modules : m # module' => started'[m] = started[m]
    BY <1>2, <1>3, <1>4 DEF IInv, TypeOK
<1>6. Current' = <<module + 1, 1>>
    BY <1>2, <1>5 DEF Current
<1>7. 1 \in 1..Expected[module + 1]
    BY <1>2, <1>4
<1>8. Current \in AllTopics /\ Current' \in AllTopics
    BY <1>1, <1>2, <1>4, <1>6, <1>7, Naming DEF Current
<1>9. Of(Current', "theory") = <<module + 1, 1, "theory">>
      /\ Of(Current', "theory") \in AllStages
    BY <1>6, <1>8, Naming DEF Of, Stages
<1> QED BY <1>2, <1>3, <1>4, <1>5, <1>6, <1>8, <1>9 DEF IInv, TypeOK

LEMMA StartedStep == IInv /\ [Next]_vars => Started'
<1> SUFFICES ASSUME IInv, [Next]_vars PROVE Started'
    OBVIOUS
<1> USE TrackAssumption
<1>t. module \in Modules /\ module \in Nat /\ Started
      /\ gate \in [Modules -> {"not_met", "passed", "legacy"}]
    BY DEF IInv, TypeOK, Modules
<1>1. ASSUME NEW t \in AllTopics, NEW s \in Stages, NEW new \in NewStatuses,
             NEW reopen \in BOOLEAN, NEW batch \in Batches[s],
             RecordStage(t, s, new, batch, reopen)
      PROVE  Started'
    BY <1>1, <1>t, RecordEffects DEF Started
<1>2. ASSUME NEW m \in Modules, NEW c \in Criteria, NEW new \in NewStatuses,
             NEW batch \in CriterionBatches, NEW reopen \in BOOLEAN,
             RecordCriterion(m, c, new, batch, reopen)
      PROVE  Started'
    BY <1>2, <1>t DEF RecordCriterion, Started
<1>3. ASSUME NEW m \in Modules, PassGate(m) PROVE Started'
  <2>1. m <= module /\ UNCHANGED <<module, started>>
        /\ gate' = [gate EXCEPT ![m] = "passed"]
    BY <1>3, <1>t DEF PassGate
  <2> QED BY <2>1, <1>t DEF Started, Modules
<1>4. CASE StartTopic
  <2>1. Expected[module] \in Nat /\ started[module] \in Nat
    BY <1>t DEF IInv, TypeOK
  <2> QED BY <1>4, <1>t, <2>1, TopicStarts DEF Started
<1>5. CASE StartModule
  <2>1. Expected[module'] \in Nat /\ Expected[module'] >= 1
        /\ started'[module'] = 1 /\ gate' = gate /\ module' = module + 1
    BY <1>5, ModuleStarts
  <2>2. \A m \in Modules : m \in Nat /\ (m > module' => m > module)
    BY <1>t, <2>1 DEF Modules
  <2> QED BY <1>t, <2>1, <2>2 DEF Started
<1>6. CASE UNCHANGED vars
    BY <1>6, <1>t DEF Started, vars
<1> QED BY <1>1, <1>2, <1>3, <1>4, <1>5, <1>6 DEF Next

LEMMA LeftStep == IInv /\ [Next]_vars => LeftTopicsComplete'
<1> SUFFICES ASSUME IInv, [Next]_vars,
                    NEW u \in AllTopics, Exists(u)', u # Current'
             PROVE  TopicComplete(u)'
    BY DEF LeftTopicsComplete
<1> USE TrackAssumption
<1>t. module \in Modules /\ module \in Nat /\ Started
      /\ u = <<u[1], u[2]>> /\ u[1] \in Modules /\ u[1] \in Nat
      /\ \A s \in Stages : Of(u, s) \in AllStages /\ Of(u, s)[1] = u[1]
                           /\ Of(u, s)[2] = u[2]
    BY Naming DEF IInv, TypeOK, Modules, Of
<1>0. ASSUME UNCHANGED <<module, started, status>> PROVE TopicComplete(u)'
  <2>1. Exists(u) /\ u # Current
    BY <1>0 DEF Exists, Current
  <2>2. TopicComplete(u)
    BY <2>1 DEF IInv, LeftTopicsComplete
  <2> QED BY <1>0, <2>2 DEF TopicComplete, Of
<1>1. ASSUME NEW t \in AllTopics, NEW s \in Stages, NEW new \in NewStatuses,
             NEW reopen \in BOOLEAN, NEW batch \in Batches[s],
             RecordStage(t, s, new, batch, reopen)
      PROVE  TopicComplete(u)'
  <2>1. UNCHANGED <<module, started>>
    BY <1>1, RecordEffects
  <2>2. CASE t # Current
    <3>1. status' = status
      BY <1>1, <2>2, RecordEffects
    <3> QED BY <2>1, <3>1, <1>0
  <2>3. CASE t = Current
    <3>1. Exists(u) /\ u # Current
      BY <2>1 DEF Exists, Current
    <3>2. TopicComplete(u)
      BY <3>1 DEF IInv, LeftTopicsComplete
    <3>3. u[1] # t[1] \/ u[2] # t[2]
      BY <2>3, <3>1, <1>t DEF Current
    <3>4. \A r \in Stages : status'[Of(u, r)] = status[Of(u, r)]
      BY <1>1, <1>t, <3>3, RecordEffects
    <3> QED BY <3>2, <3>4 DEF TopicComplete, Of
  <2> QED BY <2>2, <2>3
<1>2. ASSUME NEW m \in Modules, NEW c \in Criteria, NEW new \in NewStatuses,
             NEW batch \in CriterionBatches, NEW reopen \in BOOLEAN,
             RecordCriterion(m, c, new, batch, reopen)
      PROVE  TopicComplete(u)'
    BY <1>0, <1>2 DEF RecordCriterion, stageVars
<1>3. ASSUME NEW m \in Modules, PassGate(m) PROVE TopicComplete(u)'
    BY <1>0, <1>3 DEF PassGate, stageVars
<1>4. CASE StartTopic
  <2>1. TopicComplete(u)
    <3>1. CASE u = Current
      BY <1>4, <3>1, TopicStarts
    <3>2. CASE u # Current
      <4>1. Exists(u)
        <5>1. u[1] \in 1..module /\ u[2] \in 1..started'[u[1]]
          BY <1>4, TopicStarts DEF Exists
        <5>2. u[1] # module => started'[u[1]] = started[u[1]]
          BY <1>4, <1>t, TopicStarts
        <5>3. u[1] = module => u[2] # started[module] + 1
                               /\ started'[module] = started[module] + 1
          BY <1>4, <1>t, TopicStarts
        <5>4. started[module] \in Nat
          BY <1>t DEF IInv, TypeOK
        <5> QED BY <5>1, <5>2, <5>3, <5>4 DEF Exists
      <4> QED BY <4>1, <3>2 DEF IInv, LeftTopicsComplete
    <3> QED BY <3>1, <3>2
  <2>2. \A r \in Stages : Of(u, r) # Of(Current', "theory")
    BY <1>4, TopicStarts, Naming DEF Stages
  <2>3. \A r \in Stages : status'[Of(u, r)] = status[Of(u, r)]
    BY <1>4, <1>t, <2>2, TopicStarts
  <2> QED BY <2>1, <2>3 DEF TopicComplete, Of
<1>5. CASE StartModule
  <2>0. module' = module + 1 /\ started'[module'] = 1
        /\ Current' = <<module + 1, 1>>
    BY <1>5, ModuleStarts
  <2>6. u[1] \in 1..module' /\ u[2] \in 1..started'[u[1]]
    BY DEF Exists
  <2>1. u[1] # module'
    BY <1>t, <2>0, <2>6
  <2>2. u[1] <= module
    BY <1>t, <2>0, <2>1, <2>6
  <2>3. TopicComplete(u)
    <3>1. CASE u[1] = module
      BY <1>5, <1>t, <3>1, ModuleStarts, ClosedModules
    <3>2. CASE u[1] # module
      <4>1. started'[u[1]] = started[u[1]]
        BY <1>5, <1>t, <2>1, ModuleStarts
      <4>2. Exists(u) /\ u # Current
        BY <1>t, <2>2, <3>2, <4>1 DEF Exists, Current
      <4> QED BY <4>2 DEF IInv, LeftTopicsComplete
    <3> QED BY <3>1, <3>2
  <2>4. \A r \in Stages : Of(u, r) # Of(Current', "theory")
    BY <1>5, ModuleStarts, Naming DEF Stages
  <2>5. \A r \in Stages : status'[Of(u, r)] = status[Of(u, r)]
    BY <1>5, <1>t, <2>4, ModuleStarts
  <2> QED BY <2>3, <2>5 DEF TopicComplete, Of
<1>6. CASE UNCHANGED vars
    BY <1>0, <1>6 DEF vars
<1> QED BY <1>1, <1>2, <1>3, <1>4, <1>5, <1>6 DEF Next

(* The inductive invariant: the document has its types, `validate` accepts *)
(* it, the track is open only up to the current module, and what was left  *)
(* is complete.                                                            *)
THEOREM TrackerInvariance == Spec => []IInv
<1>1. Init => IInv
    BY Initially
<1>2. IInv /\ [Next]_vars => IInv'
    BY TypeStep, ValidStep, StartedStep, LeftStep DEF IInv
<1> QED BY <1>1, <1>2, PTL DEF Spec

(* The document keeps its types, for every track and any evidence.         *)
THEOREM TrackerTypes == Spec => []TypeOK
BY TrackerInvariance, PTL DEF IInv

(* A topic that was left stays complete, whatever is recorded later.       *)
THEOREM TopicsAreLeftComplete == Spec => []LeftTopicsComplete
BY TrackerInvariance, PTL DEF IInv

----------------------------------------------------------------------------
(* Once a module's Gate has passed, nothing it was passed on changes: its  *)
(* stages, its criteria, their evidence and the Gate itself.               *)
THEOREM PassedModulesAreFrozen == Spec => PassedModuleFrozen
<1> DEFINE Frozen(m) ==
        /\ gate'[m] = gate[m] /\ started'[m] = started[m]
        /\ \A id \in AllStages : id[1] = m =>
              status'[id] = status[id] /\ evidence'[id] = evidence[id]
        /\ \A c \in AllCriteria : c[1] = m =>
              criterion'[c] = criterion[c] /\ support'[c] = support[c]
<1>1. ASSUME IInv, [Next]_vars, NEW m \in Modules, gate[m] # "not_met"
      PROVE  Frozen(m)
  <2> USE TrackAssumption
  <2>t. TypeOK /\ m \in Nat /\ m <= module /\ module \in Nat /\ module \in Modules
        /\ started[m] = Expected[m]
    BY <1>1, ClosedModules DEF IInv, TypeOK, Modules
  <2>1. ASSUME NEW t \in AllTopics, NEW s \in Stages, NEW new \in NewStatuses,
               NEW reopen \in BOOLEAN, NEW batch \in Batches[s],
               RecordStage(t, s, new, batch, reopen)
        PROVE  Frozen(m)
    <3>1. t[1] # m /\ UNCHANGED <<started, criterion, support, gate>>
      BY <1>1, <2>1, RecordEffects
    <3>2. \A id \in AllStages : id[1] # t[1] =>
              status'[id] = status[id] /\ evidence'[id] = evidence[id]
      BY <1>1, <2>1, RecordEffects
    <3> QED BY <3>1, <3>2
  <2>2. ASSUME NEW n \in Modules, NEW c \in Criteria, NEW new \in NewStatuses,
               NEW batch \in CriterionBatches, NEW reopen \in BOOLEAN,
               RecordCriterion(n, c, new, batch, reopen)
        PROVE  Frozen(m)
    <3>1. n # m /\ UNCHANGED <<started, status, evidence, gate>>
      BY <1>1, <2>2 DEF RecordCriterion, stageVars
    <3>2. \A d \in AllCriteria : d[1] = m => d # <<n, c>>
      BY <3>1
    <3>3. \A d \in AllCriteria : d # <<n, c>> =>
              criterion'[d] = criterion[d] /\ support'[d] = support[d]
      BY <2>2, <2>t DEF RecordCriterion, TypeOK
    <3> QED BY <3>1, <3>2, <3>3
  <2>3. ASSUME NEW n \in Modules, PassGate(n) PROVE Frozen(m)
    <3>1. n # m /\ UNCHANGED <<started, status, evidence, criterion, support>>
          /\ gate' = [gate EXCEPT ![n] = "passed"]
      BY <1>1, <2>3 DEF PassGate, stageVars, criterionVars
    <3> QED BY <3>1, <2>t DEF TypeOK
  <2>4. CASE StartTopic
    <3>1. m # module
      BY <1>1, <2>4, <2>t, TopicStarts
    <3>2. UNCHANGED <<evidence, criterion, support, gate>>
      BY <2>4 DEF StartTopic, criterionVars
    <3>3. started'[m] = started[m]
      BY <1>1, <2>4, <3>1, TopicStarts
    <3>4. \A id \in AllStages : id[1] = m => id # Of(Current', "theory")
      BY <1>1, <2>4, <3>1, TopicStarts DEF Of
    <3>5. \A id \in AllStages : id # Of(Current', "theory") =>
              status'[id] = status[id]
      BY <1>1, <2>4, TopicStarts
    <3> QED BY <3>2, <3>3, <3>4, <3>5
  <2>5. CASE StartModule
    <3>1. m # module'
      BY <1>1, <2>5, <2>t, ModuleStarts
    <3>2. UNCHANGED <<evidence, criterion, support, gate>>
      BY <2>5 DEF StartModule, criterionVars
    <3>3. started'[m] = started[m]
      BY <1>1, <2>5, <3>1, ModuleStarts
    <3>4. Of(Current', "theory")[1] = module'
      BY <1>1, <2>5, ModuleStarts DEF Of
    <3>5. \A id \in AllStages : id # Of(Current', "theory") =>
              status'[id] = status[id]
      BY <1>1, <2>5, ModuleStarts
    <3> QED BY <3>1, <3>2, <3>3, <3>4, <3>5
  <2>6. CASE UNCHANGED vars
    BY <2>6 DEF vars
  <2> QED BY <1>1, <2>1, <2>2, <2>3, <2>4, <2>5, <2>6 DEF Next
<1>2. IInv /\ [Next]_vars =>
        [\A m \in Modules : gate[m] # "not_met" => Frozen(m)]_vars
    BY <1>1
<1> QED BY <1>2, TrackerInvariance, PTL DEF Spec, PassedModuleFrozen

----------------------------------------------------------------------------
(* Whatever a command does to evidence, it only adds and supersedes.       *)
LEMMA KeepsEntries ==
    ASSUME NEW entries, NEW new, NEW added, revision' = revision + 1,
           \/ new = Supersede(entries) \cup {added}
           \/ new = Supersede(entries)
           \/ new = entries \cup {added}
           \/ new = entries
    PROVE  Keeps(entries, new)
<1>1. \A e \in entries :
          e.superseded = 0 => [e EXCEPT !.superseded = revision'] \in Supersede(entries)
    BY DEF Supersede
<1>2. \A e \in entries : e.superseded # 0 => e \in Supersede(entries)
    BY DEF Supersede
<1> QED BY <1>1, <1>2 DEF Keeps

LEMMA KeepsItself == ASSUME NEW entries PROVE Keeps(entries, entries)
BY DEF Keeps

(* No command loses or rewrites evidence that an earlier one stored.       *)
THEOREM EvidenceIsKept == Spec => EvidenceKept
<1> DEFINE Kept == /\ \A id \in AllStages : Keeps(evidence[id], evidence'[id])
                   /\ \A c \in AllCriteria : Keeps(support[c], support'[c])
<1>1. ASSUME TypeOK, Next PROVE Kept
  <2>1. ASSUME NEW t \in AllTopics, NEW s \in Stages, NEW new \in NewStatuses,
               NEW reopen \in BOOLEAN, NEW batch \in Batches[s],
               RecordStage(t, s, new, batch, reopen)
        PROVE  Kept
    <3>1. revision' = revision + 1 /\ support' = support
      BY <2>1 DEF RecordStage, criterionVars
    <3>2. ASSUME NEW id \in AllStages
          PROVE  Keeps(evidence[id], evidence'[id])
      <4>1. CASE reopen
        <5>1. \/ evidence'[id] = Supersede(evidence[id]) \cup {Entry(batch, TRUE)}
              \/ evidence'[id] = Supersede(evidence[id])
              \/ evidence'[id] = evidence[id]
          BY <2>1, <4>1 DEF RecordStage, ReopenStages
        <5> QED BY <5>1, <3>1, KeepsEntries
      <4>2. CASE ~reopen
        <5>1. \/ evidence'[id] = evidence[id] \cup {Entry(batch, FALSE)}
              \/ evidence'[id] = evidence[id]
          BY <1>1, <2>1, <4>2 DEF RecordStage, KeepStages, TypeOK
        <5> QED BY <5>1, <3>1, KeepsEntries
      <4> QED BY <4>1, <4>2
    <3> QED BY <3>1, <3>2, KeepsItself
  <2>2. ASSUME NEW m \in Modules, NEW c \in Criteria, NEW new \in NewStatuses,
               NEW batch \in CriterionBatches, NEW reopen \in BOOLEAN,
               RecordCriterion(m, c, new, batch, reopen)
        PROVE  Kept
    <3>1. revision' = revision + 1 /\ evidence' = evidence
      BY <2>2 DEF RecordCriterion, stageVars
    <3>2. ASSUME NEW d \in AllCriteria PROVE Keeps(support[d], support'[d])
      <4>1. \/ support'[d] = Supersede(support[d]) \cup {Entry(batch, reopen)}
            \/ support'[d] = support[d] \cup {Entry(batch, reopen)}
            \/ support'[d] = support[d]
        BY <1>1, <2>2 DEF RecordCriterion, TypeOK
      <4> QED BY <4>1, <3>1, KeepsEntries
    <3> QED BY <3>1, <3>2, KeepsItself
  <2>3. ASSUME UNCHANGED <<evidence, support>> PROVE Kept
    BY <2>3, KeepsItself
  <2> QED BY <1>1, <2>1, <2>2, <2>3
          DEF Next, PassGate, StartTopic, StartModule, stageVars, criterionVars
<1>2. TypeOK /\ [Next]_vars => [Kept]_vars
    BY <1>1
<1> QED BY <1>2, TrackerTypes, PTL DEF Spec, EvidenceKept

----------------------------------------------------------------------------
(* _downstream_stages names every stage that rests on the reopened one,    *)
(* names no stage that it rests on itself, and does so transitively.       *)
LEMMA DownstreamCovers ==
    \A s \in Stages : \A p \in Basis[s] : p \in Stages /\ s \in Downstream[p]
<1> SUFFICES ASSUME NEW s \in Stages, NEW p \in Basis[s]
             PROVE  p \in Stages /\ s \in Downstream[p]
    OBVIOUS
<1> DEFINE below == { q \in Stages : s \in Downstream[q] }
<1>1. below \in SUBSET Stages
    OBVIOUS
<1>2. Prerequisites[s] \subseteq below
    BY DEF Prerequisites, Downstream, Stages
<1>3. \A q \in below : Prerequisites[q] \subseteq below
  <2> SUFFICES ASSUME NEW q \in Stages, s \in Downstream[q],
                      NEW r \in Prerequisites[q]
               PROVE  r \in Stages /\ s \in Downstream[r]
      OBVIOUS
  <2> QED BY DEF Prerequisites, Downstream, Stages
<1> HIDE DEF below
<1>4. p \in below
    BY <1>1, <1>2, <1>3 DEF Basis
<1> QED BY <1>4 DEF below

(* The table of _downstream_stages, written by hand beside the one of the  *)
(* prerequisites, is its closure: reopening a stage resets the stages that *)
(* rest on it, all of them and no other                                    *)
(* (progress_tracker.py:576-582, 1038-1062).                               *)
THEOREM DownstreamIsTheClosure ==
    \A s, p \in Stages : s \in Downstream[p] <=> p \in Basis[s]
<1> SUFFICES ASSUME NEW s \in Stages, NEW p \in Stages, s \in Downstream[p],
                    NEW closed \in SUBSET Stages,
                    Prerequisites[s] \subseteq closed,
                    \A q \in closed : Prerequisites[q] \subseteq closed
             PROVE  p \in closed
    BY DownstreamCovers DEF Basis
<1>1. /\ "implementation" \in closed => "theory" \in closed
      /\ "verification" \in closed => "implementation" \in closed
      /\ {"guided_code_tour", "understanding_check"} \cap closed # {}
            => "verification" \in closed
    BY DEF Prerequisites, Stages
<1>2. CASE s \in {"theory", "implementation", "verification"}
    BY <1>1, <1>2 DEF Prerequisites, Downstream, Stages
<1>3. CASE s \in {"guided_code_tour", "understanding_check"}
    BY <1>1, <1>3 DEF Prerequisites, Downstream, Stages
<1>4. CASE s = "notes_finalized"
    BY <1>1, <1>4 DEF Prerequisites, Downstream, Stages
<1> QED BY <1>2, <1>3, <1>4 DEF Stages

LEMMA DownstreamOrder ==
    \A s, p \in Stages :
        s \in Downstream[p] =>
            p # s /\ p \notin Downstream[s] /\ Downstream[s] \subseteq Downstream[p]
BY DEF Downstream, Stages

(* For FreshSinceReopen, as an induction hypothesis.                       *)
FreshInv == FreshSinceReopen /\ ResetBound

LEMMA FreshStep == TypeOK /\ FreshInv /\ [Next]_vars => FreshInv'
<1> SUFFICES ASSUME TypeOK, FreshInv, [Next]_vars PROVE FreshInv'
    OBVIOUS
<1> USE TrackAssumption
<1>0. ASSUME UNCHANGED <<evidence, reset>>, revision' = revision + 1 \/ UNCHANGED revision
      PROVE  FreshInv'
  <2>1. FreshSinceReopen'
    BY <1>0 DEF FreshInv, FreshSinceReopen, ActiveIn, Of
  <2>2. ResetBound'
    BY <1>0 DEF FreshInv, ResetBound, TypeOK
  <2> QED BY <2>1, <2>2 DEF FreshInv
<1>1. ASSUME NEW t \in AllTopics, NEW s \in Stages, NEW new \in NewStatuses,
             NEW reopen \in BOOLEAN, NEW batch \in Batches[s],
             RecordStage(t, s, new, batch, reopen)
      PROVE  FreshInv'
  <2>t. revision \in Nat /\ revision' = revision + 1
        /\ \A id \in AllStages : reset[id] \in Nat /\ reset[id] <= revision
    BY <1>1 DEF RecordStage, TypeOK, FreshInv, ResetBound
  <2>n. \A r \in Stages, u \in AllTopics :
           /\ Of(u, r) \in AllStages
           /\ Of(u, r) = Of(t, s) <=> u = t /\ r = s
           /\ \A d \in Stages : Of(u, r) = Of(t, d) <=> u = t /\ r = d
    BY Naming
  <2>d. Downstream[s] \subseteq Stages
    BY DEF Downstream, Stages
  <2>1. CASE ~reopen
    <3>1. KeepStages(t, s, new, batch)
      BY <1>1, <2>1 DEF RecordStage
    <3>2. reset' = reset
      BY <3>1 DEF KeepStages
    <3>3. \A id \in AllStages : \A e \in ActiveIn(evidence'[id]) :
             e \in ActiveIn(evidence[id]) \/ e.added = revision + 1
      BY <3>1, <2>n DEF KeepStages, ActiveIn, Entry, TypeOK
    <3>4. FreshSinceReopen'
      <4> SUFFICES ASSUME NEW u \in AllTopics, NEW r \in Stages,
                          NEW e \in ActiveIn(evidence'[Of(u, r)])
                   PROVE  /\ e.added >= reset[Of(u, r)]
                          /\ \A p \in Basis[r] : e.added > reset[Of(u, p)]
          BY <3>2 DEF FreshSinceReopen, ActiveIn, Of
      <4>1. \A p \in Basis[r] : Of(u, p) \in AllStages
        BY <2>n, DownstreamCovers
      <4>2. CASE e \in ActiveIn(evidence[Of(u, r)])
        BY <4>2 DEF FreshInv, FreshSinceReopen
      <4>3. CASE e.added = revision + 1
        BY <4>1, <4>3, <2>t, <2>n
      <4> QED BY <4>2, <4>3, <3>3, <2>n
    <3>5. ResetBound'
      BY <3>2, <2>t DEF FreshInv, ResetBound
    <3> QED BY <3>4, <3>5 DEF FreshInv
  <2>2. CASE reopen
    <3>1. ReopenStages(t, s, new, batch)
      BY <1>1, <2>2 DEF RecordStage
    <3>2. \A u \in AllTopics, r \in Stages :
             reset'[Of(u, r)] = IF u = t /\ (r = s \/ r \in Downstream[s])
                                THEN revision + 1 ELSE reset[Of(u, r)]
      BY <3>1, <2>n, <2>d DEF ReopenStages
    <3>3. \A id \in AllStages : ActiveIn(Supersede(evidence[id])) = {}
      <4>1. \A id \in AllStages : evidence[id] \in SUBSET EntrySet
        BY DEF TypeOK
      <4>2. \A e \in EntrySet :
               [e EXCEPT !.superseded = revision + 1].superseded = revision + 1
        BY DEF EntrySet
      <4>3. \A id \in AllStages : \A e \in Supersede(evidence[id]) :
               e.superseded # 0
        <5> SUFFICES ASSUME NEW id \in AllStages, NEW old \in evidence[id]
                     PROVE  (IF old.superseded = 0
                             THEN [old EXCEPT !.superseded = revision + 1]
                             ELSE old).superseded # 0
            BY DEF Supersede
        <5> QED BY <4>1, <4>2, <2>t
      <4> QED BY <4>3 DEF ActiveIn
    <3>4. \A e \in ActiveIn(evidence'[Of(t, s)]) : e.added = revision + 1
      <4>1. evidence'[Of(t, s)] =
                Supersede(evidence[Of(t, s)]) \cup {Entry(batch, TRUE)}
        BY <3>1, <2>n DEF ReopenStages
      <4>2. \A e \in Supersede(evidence[Of(t, s)]) : e.superseded # 0
        BY <3>3, <2>n DEF ActiveIn
      <4> QED BY <4>1, <4>2 DEF ActiveIn, Entry
    <3>5. \A d \in Downstream[s] : ActiveIn(evidence'[Of(t, d)]) = {}
      <4>1. \A d \in Downstream[s] :
               evidence'[Of(t, d)] = Supersede(evidence[Of(t, d)])
        <5>1. s \notin Downstream[s]
          BY DownstreamOrder
        <5> QED BY <3>1, <5>1, <2>n, <2>d DEF ReopenStages
      <4>2. \A d \in Downstream[s] : Of(t, d) \in AllStages
        BY <2>n, <2>d
      <4>3. \A d \in Downstream[s] :
               ActiveIn(Supersede(evidence[Of(t, d)])) = {}
        BY <4>2, <3>3
      <4> QED BY <4>1, <4>3
    <3>6. \A u \in AllTopics, r \in Stages :
             u # t \/ (r # s /\ r \notin Downstream[s]) =>
                evidence'[Of(u, r)] = evidence[Of(u, r)]
      BY <3>1, <2>n, <2>d DEF ReopenStages
    <3>7. FreshSinceReopen'
      <4> SUFFICES ASSUME NEW u \in AllTopics, NEW r \in Stages,
                          NEW e \in ActiveIn(evidence'[Of(u, r)])
                   PROVE  /\ e.added >= reset'[Of(u, r)]
                          /\ \A p \in Basis[r] : e.added > reset'[Of(u, p)]
          BY DEF FreshSinceReopen, ActiveIn, Of
      <4>1. \A p \in Basis[r] : p \in Stages /\ r \in Downstream[p]
        BY DownstreamCovers
      <4>2. CASE u = t /\ r = s
        <5>1. e.added = revision + 1
          BY <4>2, <3>4
        <5>2. \A p \in Basis[r] : p # s /\ p \notin Downstream[s]
          BY <4>1, <4>2, DownstreamOrder
        <5> QED BY <5>1, <5>2, <4>1, <4>2, <3>2, <2>t, <2>n
      <4>3. CASE u = t /\ r \in Downstream[s]
        BY <4>3, <3>5
      <4>4. CASE u # t \/ (r # s /\ r \notin Downstream[s])
        <5>1. e \in ActiveIn(evidence[Of(u, r)])
          BY <4>4, <3>6
        <5>2. \A p \in Basis[r] : u # t \/ (p # s /\ p \notin Downstream[s])
          BY <4>1, <4>4, DownstreamOrder
        <5>3. reset'[Of(u, r)] = reset[Of(u, r)]
              /\ \A p \in Basis[r] : reset'[Of(u, p)] = reset[Of(u, p)]
          BY <4>1, <4>4, <5>2, <3>2
        <5> QED BY <5>1, <5>3 DEF FreshInv, FreshSinceReopen
      <4> QED BY <4>2, <4>3, <4>4
    <3>8. ResetBound'
      <4>1. \A id \in AllStages : reset'[id] = revision + 1 \/ reset'[id] = reset[id]
        BY <3>1 DEF ReopenStages
      <4> QED BY <4>1, <2>t DEF FreshInv, ResetBound
    <3> QED BY <3>7, <3>8 DEF FreshInv
  <2> QED BY <2>1, <2>2
<1>2. ASSUME NEW m \in Modules, NEW c \in Criteria, NEW new \in NewStatuses,
             NEW batch \in CriterionBatches, NEW reopen \in BOOLEAN,
             RecordCriterion(m, c, new, batch, reopen)
      PROVE  FreshInv'
    BY <1>0, <1>2 DEF RecordCriterion, stageVars
<1>3. ASSUME NEW m \in Modules, PassGate(m) PROVE FreshInv'
    BY <1>0, <1>3 DEF PassGate, stageVars
<1>4. CASE StartTopic
    BY <1>0, <1>4 DEF StartTopic
<1>5. CASE StartModule
    BY <1>0, <1>5 DEF StartModule
<1>6. CASE UNCHANGED vars
    BY <1>0, <1>6 DEF vars
<1> QED BY <1>1, <1>2, <1>3, <1>4, <1>5, <1>6 DEF Next

(* What a stage rests on was recorded after every reopening of a stage     *)
(* that it needs, directly or through others.                              *)
THEOREM EvidenceIsFresh == Spec => []FreshSinceReopen
<1>1. Init => FreshInv
  <2> SUFFICES ASSUME Init PROVE FreshInv
      OBVIOUS
  <2> USE TrackAssumption
  <2>1. \A u \in AllTopics, r \in Stages : reset[Of(u, r)] = 0
    BY Naming DEF Init
  <2>2. \A u \in AllTopics, r \in Stages :
           \A e \in ActiveIn(evidence[Of(u, r)]) : e.added = 1
    <3>1. \A batch : \A e \in SeedEntry(batch) : e.added = 1
      BY DEF SeedEntry
    <3>2. \A id \in AllStages : \E batch : evidence[id] = SeedEntry(batch)
      BY DEF Init
    <3> QED BY <3>1, <3>2, Naming DEF ActiveIn
  <2>3. FreshSinceReopen
    BY <2>1, <2>2, DownstreamCovers DEF FreshSinceReopen
  <2>4. ResetBound
    BY DEF ResetBound, Init
  <2> QED BY <2>3, <2>4 DEF FreshInv
<1>2. TypeOK /\ FreshInv /\ [Next]_vars => FreshInv'
    BY FreshStep
<1>3. FreshInv => FreshSinceReopen
    BY DEF FreshInv
<1> QED BY <1>1, <1>2, <1>3, TrackerTypes, PTL DEF Spec

----------------------------------------------------------------------------
(* A check of understanding that a command completed rests on the defence  *)
(* and the proof that one command brought.                                 *)
THEOREM ChecksAreDefended == Spec => []CheckDefended
<1> DEFINE Bound == revision \in Nat /\ revision >= 1
           Check(t) == Of(t, "understanding_check")
           ByHand(t) == \E e \in evidence[Check(t)] : e.added = 1
           Rests(t) == \E e \in evidence[Check(t)] :
                          /\ e.superseded = 0 /\ e.added > 1
                          /\ ~e.reopening /\ IsBundle(e.batch)
<1>d. CheckDefended <=>
        \A t \in AllTopics :
            status[Check(t)] = "complete" /\ (ByHand(t) => reset[Check(t)] > 0)
               => Rests(t)
    BY DEF CheckDefended, ActiveIn
<1>1. Init => CheckDefended /\ Bound
  <2> SUFFICES ASSUME Init PROVE CheckDefended /\ Bound
      OBVIOUS
  <2> USE TrackAssumption
  <2>1. Bound
    BY DEF Init
  <2>2. ASSUME NEW t \in AllTopics, ByHand(t) => reset[Check(t)] > 0
        PROVE  status[Check(t)] # "complete"
    <3>1. Check(t) \in AllStages
      BY Naming DEF Stages, Of
    <3>2. reset[Check(t)] = 0
      BY <3>1 DEF Init
    <3>3. \A e \in evidence[Check(t)] : e.added = 1
      <4>1. \E batch : evidence[Check(t)] = SeedEntry(batch)
        <5> HIDE DEF Check
        <5> QED BY <3>1 DEF Init
      <4> QED BY <4>1 DEF SeedEntry
    <3>4. evidence[Check(t)] = {}
      BY <2>2, <3>2, <3>3
    <3>5. CASE Exists(t)
      <4>1. StageValid(t, "understanding_check")
        BY <3>5 DEF Init, Valid, TopicValid, Stages
      <4>2. ~Successful(evidence[Check(t)])
        BY <3>4 DEF Successful, ItemsProper, ActiveIn
      <4> QED BY <4>1, <4>2 DEF StageValid
    <3>6. CASE ~Exists(t)
      <4>1. PICK topic \in 1..Expected[module] :
               /\ started = [m \in Modules |-> IF m <= Legacy THEN Expected[m]
                                             ELSE IF m = module THEN topic ELSE 0]
               /\ \A id \in AllStages :
                     ~(id[1] <= Legacy) /\ ~(id[1] = module /\ id[2] <= topic)
                        => status[id] = "pending"
        BY SeedsBefore
      <4>2. /\ t[1] \in 1..MaxModules /\ t[2] \in 1..Expected[t[1]]
            /\ Check(t)[1] = t[1] /\ Check(t)[2] = t[2] /\ module = Legacy + 1
        BY Naming DEF Init, Of, Stages, Modules
      <4>3. ~(t[1] <= Legacy) /\ ~(t[1] = module /\ t[2] <= topic)
        BY <3>6, <4>1, <4>2 DEF Exists, Modules
      <4> QED BY <3>1, <4>1, <4>2, <4>3
    <3> QED BY <3>5, <3>6
  <2> QED BY <2>1, <2>2, <1>d
<1>2. ASSUME TypeOK, CheckDefended, Bound, [Next]_vars PROVE CheckDefended' /\ Bound'
  <2> USE TrackAssumption
  <2>1. ASSUME NEW t \in AllTopics,
               status'[Check(t)] = "complete", ByHand(t)' => reset'[Check(t)] > 0
        PROVE  Rests(t)'
    <3> DEFINE check == Check(t)
    <3>c. check \in AllStages /\ Check(t)' = check
      BY Naming DEF Stages, Of
    <3>0. ASSUME status[check] = "complete", reset'[check] = reset[check],
                 evidence[check] \subseteq evidence'[check]
          PROVE  Rests(t)'
      BY <1>2, <1>d, <2>1, <3>0 DEF Of
    <3>1. ASSUME NEW u \in AllTopics, NEW s \in Stages, NEW new \in NewStatuses,
                 NEW reopen \in BOOLEAN, NEW batch \in Batches[s],
                 RecordStage(u, s, new, batch, reopen)
          PROVE  Rests(t)'
      <4>n. check = Of(u, s) <=> u = t /\ s = "understanding_check"
        BY Naming DEF Stages
      <4>1. CASE reopen
        <5>1. /\ ReopenStages(u, s, new, batch)
              /\ new \in {"in_progress", "blocked"}
          BY <3>1, <4>1 DEF RecordStage, Transition
        <5>2. \/ status'[check] \in {"in_progress", "blocked", "pending"}
              \/ /\ status'[check] = status[check]
                 /\ evidence'[check] = evidence[check]
                 /\ reset'[check] = reset[check]
          BY <5>1, <3>c DEF ReopenStages
        <5> QED BY <5>2, <2>1, <3>0
      <4>2. CASE ~reopen
        <5>1. KeepStages(u, s, new, batch)
          BY <3>1, <4>2 DEF RecordStage
        <5>2. CASE check = Of(u, s)
          <6>1. new = "complete" /\ IsBundle(batch)
            BY <1>2, <2>1, <3>1, <3>c, <4>n, <5>1, <5>2
               DEF KeepStages, RecordStage, MayRecord, TypeOK
          <6>2. Entry(batch, FALSE) \in evidence'[check]
            BY <1>2, <3>c, <5>1, <5>2 DEF KeepStages, TypeOK
          <6>3. /\ Entry(batch, FALSE).superseded = 0
                /\ Entry(batch, FALSE).added > 1
                /\ ~Entry(batch, FALSE).reopening
                /\ Entry(batch, FALSE).batch = batch
            BY <1>2 DEF Entry
          <6> QED BY <6>1, <6>2, <6>3, <3>c
        <5>3. CASE check # Of(u, s)
          BY <1>2, <2>1, <3>0, <3>c, <5>1, <5>3 DEF KeepStages, TypeOK
        <5> QED BY <5>2, <5>3
      <4> QED BY <4>1, <4>2
    <3>2. ASSUME UNCHANGED <<status, evidence, reset>> PROVE Rests(t)'
      BY <2>1, <3>0, <3>2
    <3>3. CASE StartTopic
      <4>1. UNCHANGED <<evidence, reset>>
            /\ status' = [status EXCEPT
                            ![<<module, started[module] + 1, "theory">>] = "in_progress"]
        BY <3>3 DEF StartTopic
      <4> QED BY <1>2, <2>1, <3>0, <3>c, <4>1 DEF TypeOK
    <3>4. CASE StartModule
      <4>1. UNCHANGED <<evidence, reset>>
            /\ status' = [status EXCEPT ![<<module + 1, 1, "theory">>] = "in_progress"]
        BY <3>4 DEF StartModule
      <4> QED BY <1>2, <2>1, <3>0, <3>c, <4>1 DEF TypeOK
    <3> QED BY <1>2, <3>1, <3>2, <3>3, <3>4
            DEF Next, RecordCriterion, PassGate, stageVars, vars
  <2>2. Bound'
    <3>1. revision' = revision + 1 \/ revision' = revision
      BY <1>2, Zenon DEF Next, RecordStage, RecordCriterion, PassGate,
                         StartTopic, StartModule, vars
    <3> QED BY <1>2, <3>1
  <2>3. \A t \in AllTopics : Check(t)' = Check(t)
    BY DEF Of
  <2>4. CheckDefended' <=>
          \A t \in AllTopics :
              status'[Check(t)] = "complete" /\ (ByHand(t)' => reset'[Check(t)] > 0)
                 => Rests(t)'
    BY DEF CheckDefended, ActiveIn, Of
  <2> QED BY <2>1, <2>2, <2>4
<1>3. TypeOK /\ (CheckDefended /\ Bound) /\ [Next]_vars => (CheckDefended /\ Bound)'
    BY <1>2
<1> QED BY <1>1, <1>3, TrackerTypes, PTL DEF Spec

----------------------------------------------------------------------------
(* The commands keep the order of study: every accepted one is a step of   *)
(* Syllabus, or changes nothing of it.                                     *)
LEMMA OrderStep == IInv /\ IInv' /\ [Next]_vars => [TeachingOrder!Next]_(TeachingOrder!vars)
<1> SUFFICES ASSUME IInv, IInv', [Next]_vars
             PROVE  [TeachingOrder!Next]_(TeachingOrder!vars)
    OBVIOUS
<1> USE TrackAssumption
<1> DEFINE closed == { m \in Modules : gate[m] # "not_met" }
<1>t. module \in Modules /\ module \in Nat /\ Current[1] = module
      /\ Current[2] = started[module] /\ TypeOK
    BY DEF IInv, TypeOK, Modules, Current
<1>0. ASSUME UNCHANGED <<module, started, gate, status>>
      PROVE  UNCHANGED TeachingOrder!vars
    BY <1>0 DEF TeachingOrder!vars, Current, TopicComplete, Of
<1>1. ASSUME NEW t \in AllTopics, NEW s \in Stages, NEW new \in NewStatuses,
             NEW reopen \in BOOLEAN, NEW batch \in Batches[s],
             RecordStage(t, s, new, batch, reopen)
      PROVE  TeachingOrder!Work
  <2>1. UNCHANGED <<module, started, gate>> /\ gate[module] = "not_met"
    BY <1>1, RecordEffects
  <2>2. Current' = Current /\ closed' = closed /\ Current[1] \notin closed
    BY <2>1, <1>t DEF Current
  <2>3. TopicComplete(Current)' \in BOOLEAN
    BY DEF TopicComplete
  <2> QED BY <2>2, <2>3 DEF TeachingOrder!Work
<1>2. ASSUME NEW m \in Modules, NEW c \in Criteria, NEW new \in NewStatuses,
             NEW batch \in CriterionBatches, NEW reopen \in BOOLEAN,
             RecordCriterion(m, c, new, batch, reopen)
      PROVE  UNCHANGED TeachingOrder!vars
    BY <1>0, <1>2 DEF RecordCriterion, stageVars
<1>3. ASSUME NEW m \in Modules, PassGate(m) PROVE TeachingOrder!Close
  <2>1. /\ m <= module /\ gate[m] = "not_met"
        /\ UNCHANGED <<module, started, status>>
        /\ gate' = [gate EXCEPT ![m] = "passed"]
    BY <1>3, <1>t DEF PassGate, stageVars
  <2>2. m = module
    BY <2>1, OpenModule
  <2>3. gate'[module] # "not_met"
    BY <2>1, <2>2, <1>t DEF TypeOK
  <2>4. GateValid(module)'
    BY <1>t, <2>1 DEF IInv, Valid, Modules
  <2>5. started[module] = Expected[module]
        /\ \A t \in Topics(module) : TopicComplete(t)
    BY <2>1, <2>3, <2>4 DEF GateValid, TopicComplete, Of
  <2>6. Current \in Topics(module) /\ Current' = Current
    BY <1>t, <2>1, <2>5 DEF Topics, Current
  <2>7. TopicComplete(Current) /\ TopicComplete(Current)' = TopicComplete(Current)
    BY <2>1, <2>5, <2>6 DEF TopicComplete, Of
  <2>8. closed' = closed \cup {module} /\ module \notin closed
    BY <1>t, <2>1, <2>2 DEF TypeOK
  <2> QED BY <1>t, <2>5, <2>6, <2>7, <2>8 DEF TeachingOrder!Close
<1>n. ASSUME NEW id, Current' \in AllTopics, id = Of(Current', "theory"),
             status'[id] = "in_progress"
      PROVE  TopicComplete(Current)' = FALSE
    BY <1>n DEF TopicComplete, Of, Stages
<1>4. ASSUME StartTopic PROVE TeachingOrder!Advance
  <2>1. TopicComplete(Current)' = FALSE
    BY <1>4, <1>n, TopicStarts
  <2>2. /\ TopicComplete(Current) /\ started[module] < Expected[module]
        /\ Current' = <<module, started[module] + 1>> /\ gate' = gate
    BY <1>4, TopicStarts
  <2>3. closed' = closed
    BY <2>2
  <2>4. Current' = <<Current[1], Current[2] + 1>> /\ Current[2] < Expected[Current[1]]
    BY <1>t, <2>2
  <2> QED BY <2>1, <2>2, <2>3, <2>4, Zenon DEF TeachingOrder!Advance
<1>5. ASSUME StartModule PROVE TeachingOrder!NextModule
  <2>1. TopicComplete(Current)' = FALSE
    BY <1>5, <1>n, ModuleStarts
  <2>2. /\ gate[module] # "not_met" /\ module < MaxModules
        /\ Current' = <<module + 1, 1>> /\ gate' = gate
    BY <1>5, ModuleStarts
  <2>3. closed' = closed
    BY <2>2
  <2>4. Current' = <<Current[1] + 1, 1>> /\ Current[1] < MaxModules
        /\ Current[1] \in closed
    BY <1>t, <2>2
  <2> QED BY <2>1, <2>2, <2>3, <2>4, Zenon DEF TeachingOrder!NextModule
<1>6. CASE UNCHANGED vars
    BY <1>0, <1>6 DEF vars
<1> QED BY <1>1, <1>2, <1>3, <1>4, <1>5, <1>6 DEF Next, TeachingOrder!Next

(* The tracker implements Syllabus.                                        *)
THEOREM TrackerRefinement == Spec => InOrder
<1>1. Init => TeachingOrder!Init
  <2> SUFFICES ASSUME Init PROVE TeachingOrder!Init
      OBVIOUS
  <2> USE TrackAssumption
  <2>1. Current \in {Legacy + 1} \X (1..Expected[Legacy + 1])
    <3>1. module = Legacy + 1 /\ module \in Modules
      BY DEF Init, Modules
    <3>2. started[module] \in 1..Expected[module]
      BY <3>1, SeedsBefore DEF Modules
    <3> QED BY <3>1, <3>2 DEF Current
  <2>2. TopicComplete(Current) \in BOOLEAN
    BY DEF TopicComplete
  <2>3. { m \in Modules : gate[m] # "not_met" } = 1..Legacy
    BY DEF Init, Modules
  <2> QED BY <2>1, <2>2, <2>3 DEF TeachingOrder!Init
<1>2. IInv /\ IInv' /\ [Next]_vars => [TeachingOrder!Next]_(TeachingOrder!vars)
    BY OrderStep
<1> QED BY <1>1, <1>2, TrackerInvariance, PTL
        DEF Spec, InOrder, TeachingOrder!Spec

----------------------------------------------------------------------------
(* What the validation adds up to.                                         *)

(* A stage has been begun only on a complete foundation: every stage it    *)
(* needs, directly or through others, is complete, although the validation *)
(* looks one step back only (progress_tracker.py:576-593).                 *)
THEOREM StagesRestOnTheirBasis ==
    Spec => [](\A t \in AllTopics, s \in Stages :
                  Exists(t) /\ status[Of(t, s)] # "pending" =>
                      \A p \in Basis[s] : status[Of(t, p)] = "complete")
<1>1. ASSUME Valid, NEW t \in AllTopics, NEW s \in Stages, Exists(t),
             status[Of(t, s)] # "pending", NEW p \in Basis[s]
      PROVE  status[Of(t, p)] = "complete"
  <2> DEFINE done == { q \in Stages : status[Of(t, q)] = "complete" }
  <2>1. \A q \in Stages : status[Of(t, q)] # "pending" =>
            Prerequisites[q] \subseteq done
    <3>1. \A q \in Stages : Prerequisites[q] \subseteq Stages
      BY DEF Prerequisites, Stages
    <3> QED BY <1>1, <3>1 DEF Valid, TopicValid
  <2>2. /\ done \in SUBSET Stages
        /\ Prerequisites[s] \subseteq done
        /\ \A q \in done : Prerequisites[q] \subseteq done
    BY <1>1, <2>1
  <2> HIDE DEF done
  <2>3. p \in done
    BY <1>1, <2>2 DEF Basis
  <2> QED BY <2>3 DEF done
<1>2. Valid => \A t \in AllTopics, s \in Stages :
                  Exists(t) /\ status[Of(t, s)] # "pending" =>
                      \A p \in Basis[s] : status[Of(t, p)] = "complete"
  BY <1>1
<1> QED BY <1>2, TrackerInvariance, PTL DEF IInv

(* Only a reopening can put its own review in the place of the tour's: a   *)
(* completed tour none of whose active evidence reopened it rests on a     *)
(* passed review (progress_tracker.py, _validate_stage).                   *)
THEOREM ToursAreReviewedUnlessReopened ==
    Spec => [](\A t \in AllTopics :
                  LET tour == Of(t, "guided_code_tour")
                  IN  /\ Exists(t) /\ status[tour] = "complete"
                      /\ \A e \in ActiveIn(evidence[tour]) : ~e.reopening
                      => \E i \in ItemsProper(evidence[tour]) :
                              i.kind = "review" /\ i.good)
<1>1. ASSUME Valid, NEW t \in AllTopics, NEW tour, tour = Of(t, "guided_code_tour"),
             Exists(t), status[tour] = "complete",
             \A e \in ActiveIn(evidence[tour]) : ~e.reopening
      PROVE  \E i \in ItemsProper(evidence[tour]) : i.kind = "review" /\ i.good
  <2>1. SufficesFor("guided_code_tour", evidence[tour])
    BY <1>1 DEF Valid, TopicValid, StageValid, Stages
  <2>2. PICK i \in Items(evidence[tour]) : i.kind = "review" /\ i.good
    BY <2>1 DEF SufficesFor
  <2>3. i \in ItemsProper(evidence[tour])
    BY <1>1, <2>2 DEF Items, ItemsProper
  <2> QED BY <2>2, <2>3
<1> DEFINE Reviewed ==
      \A t \in AllTopics :
          LET tour == Of(t, "guided_code_tour")
          IN  /\ Exists(t) /\ status[tour] = "complete"
              /\ \A e \in ActiveIn(evidence[tour]) : ~e.reopening
              => \E i \in ItemsProper(evidence[tour]) : i.kind = "review" /\ i.good
<1>2. Valid => Reviewed
  BY <1>1
<1> QED BY <1>2, TrackerInvariance, PTL DEF IInv
=============================================================================
