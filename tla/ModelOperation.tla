--------------------------- MODULE ModelOperation ---------------------------
(***************************************************************************)
(* What the caller of StreamingRuntime.collect is promised about one       *)
(* operation, whatever the source, the clock and the caller's cancellation *)
(* do.  An operation opens attempts one after another, accepts validated   *)
(* events, may reach the commit point (a validated ResponseCompleted), and *)
(* ends exactly once.  StreamingRuntime is shown to implement it.          *)
(***************************************************************************)
EXTENDS Naturals

CONSTANT MaxAttempts

VARIABLES
    attempts,  \* how many attempts the provider has seen
    prefix,    \* events accepted so far, over all attempts
    committed, \* the terminal event has been validated
    rejected,  \* the stream has violated the common event lifecycle
    stops,     \* cancellations of the caller that are in force
    fault,     \* what the source claims of the stream or the task, if anything
    outcome    \* how the operation ended, and the prefix it reports

vars == <<attempts, prefix, committed, rejected, stops, fault, outcome>>

NoOutcome == [kind |-> "none", prefix |-> 0]

(* A source may end the operation in the caller's or the collector's name: *)
(* as cancelled, though nobody has cancelled; as interrupted, with the     *)
(* accepted prefix, with another one, or before anybody can compare it.    *)
(* EndOf says what the caller is then told.                                *)
EndOf == [withdrawn |-> "cancelled", interrupted |-> "interrupted",
          misreported |-> "protocol", claimed |-> "claimed"]

Running == outcome = NoOutcome

Init ==
    /\ attempts = 0
    /\ prefix = 0
    /\ committed = FALSE
    /\ rejected = FALSE
    /\ stops = 0
    /\ fault = "none"
    /\ outcome = NoOutcome

(* A new attempt starts only while nothing has been accepted from an       *)
(* earlier one and the caller has not cancelled; opening it may fail.      *)
Open ==
    /\ Running
    /\ stops = 0 /\ fault = "none"
    /\ prefix = 0
    /\ ~committed /\ ~rejected
    /\ attempts < MaxAttempts
    /\ attempts' = attempts + 1
    /\ fault' \in {"none", "withdrawn", "claimed"}
    /\ UNCHANGED <<prefix, committed, rejected, stops, outcome>>

(* One more event is accepted; the last one may be the terminal event.     *)
Accept ==
    /\ Running
    /\ stops = 0 /\ fault = "none"
    /\ attempts > 0
    /\ ~committed /\ ~rejected
    /\ prefix' = prefix + 1
    /\ committed' \in BOOLEAN
    /\ committed' => prefix > 0
    /\ UNCHANGED <<attempts, rejected, stops, fault, outcome>>

Reject ==
    /\ Running
    /\ stops = 0 /\ fault = "none"
    /\ attempts > 0
    /\ ~committed /\ ~rejected
    /\ rejected' = TRUE
    /\ UNCHANGED <<attempts, prefix, committed, stops, fault, outcome>>

Cancel ==
    /\ Running
    /\ stops' = stops + 1
    /\ fault' = "none"
    /\ UNCHANGED <<attempts, prefix, committed, rejected, outcome>>

(* The source fails, in a read or in the cleanup that follows whatever     *)
(* went before: its failure is what the caller sees, in the place of a     *)
(* cancellation or an earlier failure.                                     *)
Fail ==
    /\ Running
    /\ attempts > 0
    /\ ~committed /\ ~rejected
    /\ stops' = 0
    /\ fault' \in {"none", "withdrawn", "interrupted", "misreported"}
    /\ UNCHANGED <<attempts, prefix, committed, rejected, outcome>>

(* The commit point decides the ending, except against a caller that       *)
(* cancels more than once; otherwise a cancellation is what the caller     *)
(* sees; otherwise a failure after an accepted event reports the prefix,   *)
(* and only a source that misreports it gets a plain protocol error.       *)
Ending ==
    IF committed
    THEN {"response"} \cup (IF stops > 1 THEN {"cancelled"} ELSE {})
    ELSE IF rejected THEN {"protocol"}
    ELSE IF stops > 0 THEN {"cancelled"}
    ELSE IF fault # "none" THEN {EndOf[fault]}
    ELSE IF prefix > 0 THEN {"interrupted", "raw_error"}
    ELSE {"timeout", "rate_limited", "client_error", "raw_error", "protocol"}

Finish ==
    /\ Running
    /\ \E k \in Ending : outcome' = [kind |-> k, prefix |-> prefix]
    /\ UNCHANGED <<attempts, prefix, committed, rejected, stops, fault>>

Next == Open \/ Accept \/ Reject \/ Cancel \/ Fail \/ Finish

Spec == Init /\ [][Next]_vars
=============================================================================
