------------------------ MODULE EmailRecoveryProofs ------------------------
(***************************************************************************)
(* Proofs about EmailRecovery for any number of operations and faults.     *)
(* The inductive invariant says that at most one request of an operation   *)
(* is out or accepted, and where none can be: the lookup's answer          *)
(* TERMINALLY_ABSENT carries that knowledge from the service to the next   *)
(* attempt.                                                                *)
(***************************************************************************)
EXTENDS EmailRecovery, TLAPS

(* The requests that were accepted or may still be.                        *)
Live(op) == flying[op] \cup accepted[op]

(* At most one request of an operation is live.                            *)
OneLive == \A op \in Operations : \A a, b \in Live(op) : a = b

(* What the record and the process know of the requests.                   *)
Knowledge ==
    \A op \in Operations :
        /\ Live(op) \subseteq 1..attempts[op]
        /\ stored[op] = "absent" \/ pc[op] = "attempt" => Live(op) = {}
        /\ stored[op] = "succeeded" => accepted[op] # {}
        /\ pc[op] \in {"attempt", "sending"} => stored[op] = "sending"
        /\ pc[op] = "lookup" => stored[op] = "effect_unknown"

(* Every request but the last has been refused.                            *)
Spent ==
    \A op \in Operations : /\ attempts[op] <= faults + 1
                           /\ Live(op) = {} => attempts[op] <= faults

MailInv == TypeOK /\ OneLive /\ Knowledge /\ Spent

----------------------------------------------------------------------------
LEMMA MailInitially == Init => MailInv
<1> SUFFICES ASSUME Init PROVE MailInv
    OBVIOUS
<1>1. TypeOK
    BY EmailAssumption DEF Init, TypeOK, Unfinished
<1>2. OneLive /\ Knowledge
    BY DEF Init, OneLive, Knowledge, Live
<1>3. Spent
  <2> SUFFICES ASSUME NEW op \in Operations
               PROVE  attempts[op] <= faults + 1 /\ attempts[op] <= faults
    BY DEF Spent
  <2>1. attempts[op] = 0 /\ faults = 0
    BY DEF Init
  <2> QED BY <2>1
<1> QED BY <1>1, <1>2, <1>3 DEF MailInv

LEMMA MailTypeStep == TypeOK /\ [Next]_vars => TypeOK'
<1> SUFFICES ASSUME TypeOK, [Next]_vars PROVE TypeOK'
    OBVIOUS
<1> USE EmailAssumption DEF TypeOK, Goto, Mark, Fault, service, Unfinished
<1>1. ASSUME NEW op \in Operations, Start(op) \/ Recover(op) PROVE TypeOK'
    BY <1>1 DEF Start, Recover
<1>2. ASSUME NEW op \in Operations, Send(op) PROVE TypeOK'
    BY <1>2 DEF Send
<1>3. ASSUME NEW op \in Operations, SendReturns(op) \/ SendRaises(op)
      PROVE TypeOK'
    BY <1>3 DEF SendReturns, SendRaises
<1>4. ASSUME NEW op \in Operations,
             LookupFinds(op) \/ LookupExcludes(op) \/ LookupUnknown(op)
      PROVE TypeOK'
    BY <1>4 DEF LookupFinds, LookupExcludes, LookupUnknown
<1>5. ASSUME NEW op \in Operations, Accept(op) PROVE TypeOK'
    BY <1>5 DEF Accept
<1>6. ASSUME NEW op \in Operations, RefuseRequest(op) PROVE TypeOK'
    BY <1>6 DEF RefuseRequest
<1>7. CASE Crash
    BY <1>7 DEF Crash
<1>8. CASE UNCHANGED vars
    BY <1>8 DEF vars
<1> QED BY <1>1, <1>2, <1>3, <1>4, <1>5, <1>6, <1>7, <1>8 DEF Next, Step

(* The requests of an operation change only by its own attempt and by the  *)
(* service's decision on one of them.                                      *)
LEMMA MailStep == MailInv /\ [Next]_vars => (OneLive /\ Knowledge)'
<1> SUFFICES ASSUME MailInv, [Next]_vars PROVE (OneLive /\ Knowledge)'
    OBVIOUS
<1>t. TypeOK /\ TypeOK'
    BY MailTypeStep DEF MailInv
<1> USE DEF MailInv, OneLive, Knowledge, Live, Goto, Mark, Fault, service,
        Unfinished
<1>1. ASSUME NEW op \in Operations, Start(op) PROVE (OneLive /\ Knowledge)'
    BY <1>1, <1>t DEF Start, TypeOK
<1>2. ASSUME NEW op \in Operations, Send(op) PROVE (OneLive /\ Knowledge)'
  <2>1. Live(op)' = {attempts'[op]} /\ attempts'[op] = attempts[op] + 1
    BY <1>2, <1>t DEF Send, TypeOK
  <2>2. \A other \in Operations \ {op} : UNCHANGED <<Live(other), attempts[other]>>
    BY <1>2, <1>t DEF Send, TypeOK
  <2>3. OneLive'
    BY <2>1, <2>2
  <2>4. attempts'[op] \in 1..attempts'[op]
    BY <2>1, <1>t DEF TypeOK
  <2> QED BY <2>1, <2>2, <2>3, <2>4, <1>2, <1>t DEF Send, TypeOK
<1>3. ASSUME NEW op \in Operations, SendReturns(op)
      PROVE (OneLive /\ Knowledge)'
    BY <1>3, <1>t DEF SendReturns, TypeOK
<1>4. ASSUME NEW op \in Operations, SendRaises(op)
      PROVE (OneLive /\ Knowledge)'
    BY <1>4, <1>t DEF SendRaises, TypeOK
<1>5. ASSUME NEW op \in Operations, Recover(op) PROVE (OneLive /\ Knowledge)'
    BY <1>5, <1>t DEF Recover, TypeOK
<1>6. ASSUME NEW op \in Operations, LookupFinds(op)
      PROVE (OneLive /\ Knowledge)'
    BY <1>6, <1>t DEF LookupFinds, TypeOK
<1>7. ASSUME NEW op \in Operations, LookupExcludes(op)
      PROVE (OneLive /\ Knowledge)'
    BY <1>7, <1>t DEF LookupExcludes, TypeOK
<1>8. ASSUME NEW op \in Operations, LookupUnknown(op)
      PROVE (OneLive /\ Knowledge)'
    BY <1>8, <1>t DEF LookupUnknown, TypeOK
<1>9. ASSUME NEW op \in Operations, Accept(op) PROVE (OneLive /\ Knowledge)'
  <2>1. \A other \in Operations : Live(other)' = Live(other)
    BY <1>9, <1>t DEF Accept, TypeOK
  <2>2. UNCHANGED <<stored, pc, attempts>>
    BY <1>9 DEF Accept
  <2>3. \A other \in Operations : accepted[other] \subseteq accepted'[other]
    BY <1>9, <1>t DEF Accept, TypeOK
  <2> QED BY <2>1, <2>2, <2>3
<1>10. ASSUME NEW op \in Operations, RefuseRequest(op)
       PROVE (OneLive /\ Knowledge)'
  <2>1. \A other \in Operations : Live(other)' \subseteq Live(other)
    BY <1>10, <1>t DEF RefuseRequest, TypeOK
  <2>2. UNCHANGED <<stored, pc, attempts, accepted>>
    BY <1>10 DEF RefuseRequest
  <2> QED BY <2>1, <2>2
<1>11. CASE Crash
    BY <1>11, <1>t DEF Crash, TypeOK
<1>12. CASE UNCHANGED vars
    BY <1>12 DEF vars
<1> QED BY <1>1, <1>2, <1>3, <1>4, <1>5, <1>6, <1>7, <1>8, <1>9, <1>10, <1>11,
          <1>12 DEF Next, Step

(* A request that is sent again costs a refused one.                       *)
LEMMA SpentStep == MailInv /\ [Next]_vars => Spent'
<1> SUFFICES ASSUME MailInv, [Next]_vars, NEW op \in Operations
             PROVE  /\ attempts'[op] <= faults' + 1
                    /\ Live(op)' = {} => attempts'[op] <= faults'
    BY DEF Spent
<1>t. TypeOK /\ TypeOK' /\ Spent /\ Knowledge
    BY MailTypeStep DEF MailInv
<1>n. /\ attempts[op] \in Nat /\ attempts'[op] \in Nat
      /\ faults \in Nat /\ faults' \in Nat
    BY <1>t, EmailAssumption DEF TypeOK
<1> USE DEF Goto, Mark, Fault, service, Spent, Live
<1>1. CASE UNCHANGED <<attempts, flying, accepted>> /\ faults' \in {faults, faults + 1}
    BY <1>1, <1>t, <1>n
<1>2. ASSUME NEW other \in Operations, Send(other)
      PROVE  /\ attempts'[op] <= faults' + 1
             /\ Live(op)' = {} => attempts'[op] <= faults'
  <2>1. CASE other = op
    <3>1. attempts'[op] = attempts[op] + 1 /\ Live(op)' # {} /\ faults' = faults
      BY <1>2, <2>1, <1>t DEF Send, TypeOK
    <3>2. attempts[op] <= faults
      BY <1>2, <2>1, <1>t DEF Send, Knowledge
    <3> QED BY <3>1, <3>2, <1>n
  <2>2. CASE other # op
    <3>1. UNCHANGED <<attempts[op], flying[op], accepted[op], faults>>
      BY <1>2, <2>2, <1>t DEF Send, TypeOK
    <3> QED BY <3>1, <1>t
  <2> QED BY <2>1, <2>2
<1>3. ASSUME NEW other \in Operations, Accept(other)
      PROVE  /\ attempts'[op] <= faults' + 1
             /\ Live(op)' = {} => attempts'[op] <= faults'
  <2>1. Live(op)' = Live(op) /\ UNCHANGED <<attempts, faults>>
    BY <1>3, <1>t DEF Accept, TypeOK
  <2> QED BY <2>1, <1>t
<1>4. ASSUME NEW other \in Operations, RefuseRequest(other)
      PROVE  /\ attempts'[op] <= faults' + 1
             /\ Live(op)' = {} => attempts'[op] <= faults'
  <2>1. faults' = faults + 1 /\ UNCHANGED attempts
    BY <1>4 DEF RefuseRequest
  <2> QED BY <2>1, <1>t, <1>n
<1>5. ASSUME NEW other \in Operations,
             \/ Start(other) \/ Recover(other) \/ SendReturns(other)
             \/ SendRaises(other) \/ LookupFinds(other)
             \/ LookupExcludes(other) \/ LookupUnknown(other)
      PROVE  UNCHANGED <<attempts, flying, accepted>> /\ faults' \in {faults, faults + 1}
    BY <1>5 DEF Start, Recover, SendReturns, SendRaises, LookupFinds,
       LookupExcludes, LookupUnknown
<1>6. Crash \/ UNCHANGED vars
      => UNCHANGED <<attempts, flying, accepted>> /\ faults' \in {faults, faults + 1}
    BY DEF Crash, vars
<1> QED BY <1>1, <1>2, <1>3, <1>4, <1>5, <1>6 DEF Next, Step

(* The inductive invariant of the recovery.                                *)
THEOREM MailInvariance == Spec => []MailInv
<1>1. MailInv /\ [Next]_vars => MailInv'
    BY MailTypeStep, MailStep, SpentStep DEF MailInv
<1> QED BY <1>1, MailInitially, PTL DEF Spec

(* The mail of an operation is accepted at most once, whatever crashes and *)
(* however late the service decides                                        *)
(* (test_ambiguous_email_recovery.py:124-149, 249).                        *)
THEOREM MailAcceptedOnce == Spec => []AcceptedOnce
<1>1. MailInv => AcceptedOnce
    BY DEF MailInv, OneLive, Live, AcceptedOnce
<1> QED BY <1>1, MailInvariance, PTL

(* A success is recorded only of a mail that was accepted                  *)
(* (test_ambiguous_email_recovery.py:135-136, 146-149).                    *)
THEOREM SuccessIsTruthful == Spec => []SucceededMeansAccepted
<1>1. MailInv => SucceededMeansAccepted
    BY DEF MailInv, Knowledge, SucceededMeansAccepted
<1> QED BY <1>1, MailInvariance, PTL

(* A request is made again only after an earlier one was refused: there is *)
(* one attempt more than there were faults at most, however often the      *)
(* operation is recovered (test_ambiguous_email_recovery.py:124-149).      *)
THEOREM RetriesArePaidFor ==
    Spec => [](\A op \in Operations : attempts[op] <= faults + 1)
<1>1. MailInv => \A op \in Operations : attempts[op] <= faults + 1
    BY DEF MailInv, Spent
<1> QED BY <1>1, MailInvariance, PTL

(* The recovery implements MailOnce                                        *)
(* (test_ambiguous_email_recovery.py:45-60, 116-149).                      *)
THEOREM MailRefinement == Spec => ImplementsMailOnce
<1> DEFINE asked == { op \in Operations : stored[op] # "absent" }
           done == { op \in Operations : stored[op] = "succeeded" }
<1>1. Init => Application!Init
    BY DEF Init, Application!Init
<1>2. ASSUME MailInv, [Next]_vars PROVE [Application!Next]_(Application!vars)
  <2>t. TypeOK /\ OneLive /\ Knowledge /\ Spent
    BY <1>2 DEF MailInv
  <2> USE DEF Goto, Mark, Fault, service, Unfinished
  <2>1. ASSUME NEW op \in Operations, Start(op) PROVE Application!Next
    <3>1. op \notin asked /\ asked' = asked \cup {op} /\ UNCHANGED <<accepted, done>>
      BY <2>1, <2>t DEF Start, TypeOK
    <3> QED BY <3>1 DEF Application!Next, Application!Ask
  <2>2. ASSUME NEW op \in Operations, SendReturns(op) \/ LookupFinds(op)
        PROVE  Application!Next
    <3>1. accepted[op] # {} /\ done' = done \cup {op} /\ UNCHANGED <<accepted, asked>>
      BY <2>2, <2>t DEF SendReturns, LookupFinds, TypeOK, Knowledge
    <3> QED BY <3>1 DEF Application!Next, Application!Confirm
  <2>3. ASSUME NEW op \in Operations, Accept(op)
        PROVE  Application!Next \/ UNCHANGED Application!vars
    <3>1. PICK request \in flying[op] :
              accepted' = [accepted EXCEPT ![op] = @ \cup {request}]
      BY <2>3 DEF Accept
    <3>2. UNCHANGED <<asked, done>> /\ request \in Live(op)
      BY <2>3, <3>1 DEF Accept, Live
    <3>3. CASE accepted[op] = {}
      <4>1. op \in asked /\ op \notin done
        BY <3>2, <3>3, <2>t DEF Knowledge, TypeOK
      <4>2. request \in 1..MaxFaults + 1
        BY <3>2, <2>t, EmailAssumption DEF Knowledge, Spent, TypeOK
      <4>3. accepted' = [accepted EXCEPT ![op] = {request}]
        BY <3>1, <3>3, <2>t DEF TypeOK
      <4> QED BY <3>2, <3>3, <4>1, <4>2, <4>3 DEF Application!Next, Application!Deliver
    <3>4. CASE accepted[op] # {}
      <4>1. accepted[op] = {request}
        BY <3>2, <3>4, <2>t DEF OneLive, Live
      <4>2. accepted' = accepted
        BY <3>1, <4>1, <2>t DEF TypeOK
      <4> QED BY <3>2, <4>2 DEF Application!vars
    <3> QED BY <3>3, <3>4
  <2>4. ASSUME NEW op \in Operations, Recover(op) \/ LookupExcludes(op)
        PROVE  UNCHANGED Application!vars
    <3>1. UNCHANGED <<asked, done, accepted>>
      BY <2>4, <2>t DEF Recover, LookupExcludes, TypeOK, Knowledge
    <3> QED BY <3>1 DEF Application!vars
  <2>5. ASSUME NEW op \in Operations,
               \/ Send(op) \/ SendRaises(op) \/ LookupUnknown(op) \/ RefuseRequest(op)
        PROVE  UNCHANGED Application!vars
    BY <2>5 DEF Send, SendRaises, LookupUnknown, RefuseRequest, Application!vars
  <2>6. CASE Crash \/ UNCHANGED vars
    BY <2>6 DEF Crash, vars, Application!vars
  <2> QED BY <1>2, <2>1, <2>2, <2>3, <2>4, <2>5, <2>6 DEF Next, Step
<1> QED
  BY <1>1, <1>2, MailInvariance, PTL
  DEF Spec, Application!Spec, ImplementsMailOnce
=============================================================================
