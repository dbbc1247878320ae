------------------------- MODULE MCProgressTracker -------------------------
(* Evidence, starting phases and tracks for the runs of ProgressTracker.    *)
EXTENDS ProgressTracker

Artifact(ref) == [kind |-> "artifact", ref |-> ref, good |-> TRUE, proof |-> NoProof]
Test(ref, ok) == [kind |-> "test", ref |-> ref, good |-> ok, proof |-> NoProof]
Review(ok) == [kind |-> "review", ref |-> "talk", good |-> ok, proof |-> NoProof]
Defence(kind, ref) ==
    [kind |-> "review", ref |-> "talk", good |-> TRUE,
     proof |-> [kind |-> kind, ref |-> ref]]

Note == {Artifact("md"), Artifact("pdf")}
Code == {Artifact("code")}
Checked == {Test("test", TRUE)}
Talk == {Review(TRUE)}
Reason == {Review(FALSE)}
Bundle == {Defence("test", "test"), Test("test", TRUE)}
Mismatch == {Defence("test", "other_test"), Test("test", TRUE)}

Proper == [s \in Stages |->
    CASE s \in {"theory", "notes_finalized"} -> Note
      [] s = "implementation" -> Code
      [] s = "verification" -> Checked
      [] s = "guided_code_tour" -> Talk
      [] s = "understanding_check" -> Bundle]

(* Evidence that suffices, evidence that does not, and reasons to reopen:   *)
(* at the root of the stages, between them, and at both branches.           *)
MCBatches == [s \in Stages |->
    CASE s = "theory" -> {Note, Reason}
      [] s = "notes_finalized" -> {Note}
      [] s = "implementation" -> {Code}
      [] s = "verification" -> {Checked, {Test("test", FALSE)}, Reason}
      [] s = "guided_code_tour" -> {Talk}
      [] s = "understanding_check" -> {Bundle, Mismatch, Talk}]

Complete(done) == [s \in Stages |->
    IF s \in done THEN [status |-> "complete", batch |-> Proper[s]]
    ELSE [status |-> "pending", batch |-> {}]]
Verified == Complete({"theory", "implementation", "verification"})
(* Completed before reviews were structured.                                *)
OldStyle == [Complete(Stages) EXCEPT !["understanding_check"].batch = Talk]

PhaseSeeds == {Verified, Complete(Stages), OldStyle}
OldSeeds == {OldStyle}
Entries == [s \in Stages |-> 3]
Grounds == {Talk}

(* A module passed before the policy, one with two topics, and the next.    *)
TwoTopics == <<1, 2, 1>>

(* One topic, whose tour of the code may also be completed with code.       *)
OneTopic == <<1>>
TourBatches == [MCBatches EXCEPT !["guided_code_tour"] = {Talk, Code}]
=============================================================================
