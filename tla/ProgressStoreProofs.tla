------------------------ MODULE ProgressStoreProofs ------------------------
(***************************************************************************)
(* Proofs about ProgressStore for any number of processes, lock files,     *)
(* runs and power failures.  What a document may contain (Documents) is    *)
(* invariant whatever the lock files are; that no update is lost needs one *)
(* lock file for everybody (OneLock).                                      *)
(***************************************************************************)
EXTENDS ProgressStore, TLAPS

(* Each command stands right after the revision it expects.                *)
Ordered(log) == \A i \in 1..Len(log) : expected[log[i]] = i - 1

(* Documents: on every copy of the document the commands stand where their *)
(* authors expected them, and no copy is ever partial.                     *)
Documents ==
    /\ file.state = "synced" /\ disk.state = "synced"
    /\ Ordered(file.log) /\ Ordered(disk.log)
    /\ \A p \in Processes :
          /\ Ordered(document[p])
          /\ pc[p] = "idle" => expected[p] = Unread
          /\ pc[p] = "synced" => temp[p] = "synced"

DocInv == TypeOK /\ Documents /\ TemporarySwept

----------------------------------------------------------------------------
(* A command that has not read a revision is in no ordered document.       *)
LEMMA UnreadIsAbsent ==
    ASSUME NEW log \in Seq(Processes), Ordered(log),
           NEW p \in Processes, expected[p] = Unread
    PROVE  \A i \in 1..Len(log) : log[i] # p
BY DEF Ordered, Unread

(* An ordered document grows in order.                                     *)
LEMMA AppendOrdered ==
    ASSUME NEW log \in Seq(Processes), Ordered(log),
           NEW p \in Processes, expected[p] = Len(log)
    PROVE  /\ Append(log, p) \in Seq(Processes)
           /\ Ordered(Append(log, p))
BY DEF Ordered

LEMMA DocInitially == Init => DocInv
<1> SUFFICES ASSUME Init PROVE DocInv
    OBVIOUS
<1> USE StoreAssumption DEF Init, File
<1>1. TypeOK
    BY DEF TypeOK, Points, Holding, Saving, Refusals, Unread
<1>2. Documents /\ TemporarySwept
    BY DEF Documents, TemporarySwept, Ordered
<1> QED BY <1>1, <1>2 DEF DocInv

LEMMA TypeStep == TypeOK /\ Documents /\ [Next]_vars => TypeOK'
<1> SUFFICES ASSUME TypeOK, Documents, [Next]_vars PROVE TypeOK'
    OBVIOUS
<1> USE StoreAssumption DEF TypeOK, Goto, Conclude, shared, ghosts, Points,
        Holding, Saving, Refusals, File
<1>1. ASSUME NEW p \in Processes, Show(p) PROVE TypeOK'
    BY <1>1 DEF Show
<1>2. ASSUME NEW p \in Processes, Decline(p) PROVE TypeOK'
    BY <1>2 DEF Decline
<1>20. ASSUME NEW p \in Processes, OpenLock(p) PROVE TypeOK'
    BY <1>20 DEF OpenLock
<1>13. ASSUME NEW p \in Processes, Acquire(p) PROVE TypeOK'
    BY <1>13 DEF Acquire
<1>14. ASSUME NEW p \in Processes, Release(p) PROVE TypeOK'
    BY <1>14 DEF Release
<1>3. ASSUME NEW p \in Processes, Load(p) \/ Refuse(p) \/ Reject(p) PROVE TypeOK'
    BY <1>3 DEF Load, Refuse, Reject
<1>4. ASSUME NEW p \in Processes, Mutate(p) PROVE TypeOK'
    BY <1>4 DEF Mutate
<1>5. ASSUME NEW p \in Processes, MakeTemp(p) \/ WriteTemp(p) \/ SyncTemp(p)
      PROVE TypeOK'
    BY <1>5 DEF MakeTemp, WriteTemp, SyncTemp
<1>6. ASSUME NEW p \in Processes, Replace(p) PROVE TypeOK'
    BY <1>6 DEF Replace, Documents
<1>7. ASSUME NEW p \in Processes, SaveFails(p) \/ Saved(p) \/ Exit(p)
      PROVE TypeOK'
    BY <1>7 DEF SaveFails, Saved, Exit
<1>8. ASSUME NEW p \in Processes, Crash(p) PROVE TypeOK'
    BY <1>8 DEF Crash
<1>9. ASSUME NEW p \in Processes, Rerun(p) PROVE TypeOK'
    BY <1>9 DEF Rerun
<1>10. CASE WriteBack
    BY <1>10 DEF WriteBack
<1>11. CASE PowerFails
    BY <1>11 DEF PowerFails
<1>12. CASE UNCHANGED vars
    BY <1>12 DEF vars
<1> QED BY <1>1, <1>2, <1>3, <1>4, <1>5, <1>6, <1>7, <1>8, <1>9, <1>10, <1>11,
          <1>12, <1>13, <1>14, <1>20 DEF Next, Step, Proceed

(* The conditions on documents are preserved by every step.                *)
LEMMA DocumentsStep == DocInv /\ [Next]_vars => Documents'
<1> SUFFICES ASSUME DocInv, [Next]_vars PROVE Documents'
    OBVIOUS
<1>t. TypeOK /\ TypeOK'
    BY TypeStep DEF DocInv
<1> USE StoreAssumption DEF DocInv, Documents, Goto, Conclude, shared, ghosts,
        File
<1>1. ASSUME NEW p \in Processes, Show(p) PROVE Documents'
  <2>1. expected[p] = Unread
    BY <1>1 DEF Show
  <2>2. \A log \in Seq(Processes) : Ordered(log) => Ordered(log)'
    <3> SUFFICES ASSUME NEW log \in Seq(Processes), Ordered(log)
                 PROVE  \A i \in 1..Len(log) : expected'[log[i]] = i - 1
        BY DEF Ordered
    <3>1. \A i \in 1..Len(log) : log[i] # p
        BY <2>1, UnreadIsAbsent
    <3>2. \A q \in Processes : q # p => expected'[q] = expected[q]
        BY <1>1, <1>t DEF Show, TypeOK
    <3>3. \A i \in 1..Len(log) : log[i] \in Processes
        OBVIOUS
    <3> QED BY <3>1, <3>2, <3>3 DEF Ordered
  <2>3. UNCHANGED <<file, disk, document, temp>>
    BY <1>1 DEF Show
  <2>4. \A q \in Processes : pc'[q] = "idle" => expected'[q] = Unread
    BY <1>1, <1>t DEF Show, TypeOK
  <2>5. \A q \in Processes : pc'[q] = "synced" => temp'[q] = "synced"
    BY <1>1, <1>t DEF Show, TypeOK
  <2>6. file.log \in Seq(Processes) /\ disk.log \in Seq(Processes)
        /\ \A q \in Processes : document[q] \in Seq(Processes)
    BY <1>t DEF TypeOK
  <2>7. Ordered(file.log)' /\ Ordered(disk.log)'
    BY <2>2, <2>3, <2>6 DEF Ordered
  <2>8. \A q \in Processes : Ordered(document[q])'
    BY <2>2, <2>3, <2>6 DEF Ordered
  <2> QED BY <2>3, <2>4, <2>5, <2>7, <2>8
<1>2. ASSUME NEW p \in Processes,
             \/ Decline(p) \/ OpenLock(p) \/ Acquire(p) \/ Refuse(p)
             \/ Reject(p) \/ Saved(p) \/ Release(p) \/ Exit(p) \/ Crash(p)
      PROVE Documents'
  <2>1. UNCHANGED <<file, disk, expected, document, temp>>
    BY <1>2 DEF Decline, OpenLock, Acquire, Refuse, Reject, Saved, Release, Exit,
                Crash
  <2>2. \E point \in Points \ {"idle", "synced"} : Goto(p, point)
    BY <1>2 DEF Decline, OpenLock, Acquire, Refuse, Reject, Saved, Release, Exit,
                Crash, Points, Holding, Saving
  <2>3. \A q \in Processes : pc'[q] \in {"idle", "synced"} => pc'[q] = pc[q]
    BY <2>2, <1>t DEF TypeOK
  <2> QED BY <2>1, <2>3 DEF Ordered
<1>3. ASSUME NEW p \in Processes, Load(p) PROVE Documents'
  <2>1. /\ UNCHANGED <<file, disk, expected, temp>>
        /\ document' = [document EXCEPT ![p] = file.log]
        /\ \A q \in Processes : pc'[q] \in {"idle", "synced"} => pc'[q] = pc[q]
    BY <1>3, <1>t DEF Load, TypeOK
  <2>2. \A q \in Processes : document'[q] \in {document[q], file.log}
    BY <2>1, <1>t DEF TypeOK
  <2> QED BY <2>1, <2>2 DEF Ordered
<1>4. ASSUME NEW p \in Processes, Mutate(p) PROVE Documents'
  <2>1. Ordered(Append(document[p], p))
    BY <1>4, <1>t, AppendOrdered DEF Mutate, TypeOK
  <2> QED BY <2>1, <1>4, <1>t DEF Mutate, Ordered, TypeOK
<1>5. ASSUME NEW p \in Processes,
             MakeTemp(p) \/ WriteTemp(p) \/ SyncTemp(p) \/ SaveFails(p)
      PROVE Documents'
  <2>1. UNCHANGED <<file, disk, expected, document>>
    BY <1>5 DEF MakeTemp, WriteTemp, SyncTemp, SaveFails
  <2>2. \A q \in Processes : /\ pc'[q] = "idle" => pc[q] = "idle"
                             /\ pc'[q] = "synced" => temp'[q] = "synced"
    <3>1. CASE MakeTemp(p)
        BY <3>1, <1>t DEF MakeTemp, TypeOK
    <3>2. CASE WriteTemp(p)
        BY <3>2, <1>t DEF WriteTemp, TypeOK
    <3>3. CASE SyncTemp(p)
        BY <3>3, <1>t DEF SyncTemp, TypeOK
    <3>4. CASE SaveFails(p)
        BY <3>4, <1>t DEF SaveFails, TypeOK
    <3> QED BY <1>5, <3>1, <3>2, <3>3, <3>4
  <2> QED BY <2>1, <2>2 DEF Ordered
<1>6. ASSUME NEW p \in Processes, Replace(p) PROVE Documents'
    BY <1>6, <1>t DEF Replace, Ordered, TypeOK
<1>7. ASSUME NEW p \in Processes, Rerun(p) PROVE Documents'
    BY <1>7, <1>t DEF Rerun, Ordered, TypeOK
<1>8. CASE WriteBack
    BY <1>8, <1>t DEF WriteBack, Ordered, TypeOK
<1>9. CASE PowerFails
    BY <1>9, <1>t DEF PowerFails, Ordered, TypeOK
<1>10. CASE UNCHANGED vars
    BY <1>10 DEF vars, Ordered
<1> QED BY <1>1, <1>2, <1>3, <1>4, <1>5, <1>6, <1>7, <1>8, <1>9, <1>10
        DEF Next, Step, Proceed

(* A temporary file belongs to a process that is saving or was killed.     *)
LEMMA TemporaryStep == DocInv /\ [Next]_vars => TemporarySwept'
<1> SUFFICES ASSUME DocInv, [Next]_vars PROVE TemporarySwept'
    OBVIOUS
<1>t. TypeOK /\ TypeOK'
    BY TypeStep DEF DocInv
<1> USE DEF DocInv, TemporarySwept, Goto, Conclude, shared, ghosts, Saving,
        Holding
<1>1. ASSUME NEW p \in Processes, Show(p) PROVE TemporarySwept'
    BY <1>1, <1>t DEF Show, TypeOK
<1>2. ASSUME NEW p \in Processes, Decline(p) PROVE TemporarySwept'
    BY <1>2, <1>t DEF Decline, TypeOK
<1>20. ASSUME NEW p \in Processes, OpenLock(p) PROVE TemporarySwept'
    BY <1>20, <1>t DEF OpenLock, TypeOK
<1>3. ASSUME NEW p \in Processes, Acquire(p) PROVE TemporarySwept'
    BY <1>3, <1>t DEF Acquire, TypeOK
<1>4. ASSUME NEW p \in Processes, Load(p) PROVE TemporarySwept'
    BY <1>4, <1>t DEF Load, TypeOK
<1>5. ASSUME NEW p \in Processes, Mutate(p) PROVE TemporarySwept'
    BY <1>5, <1>t DEF Mutate, TypeOK
<1>6. ASSUME NEW p \in Processes, Refuse(p) \/ Reject(p) PROVE TemporarySwept'
  <2>1. CASE Refuse(p)
    BY <2>1, <1>t DEF Refuse, TypeOK
  <2>2. CASE Reject(p)
    BY <2>2, <1>t DEF Reject, TypeOK
  <2> QED BY <1>6, <2>1, <2>2
<1>7. ASSUME NEW p \in Processes, MakeTemp(p) PROVE TemporarySwept'
    BY <1>7, <1>t DEF MakeTemp, TypeOK
<1>8. ASSUME NEW p \in Processes, WriteTemp(p) PROVE TemporarySwept'
    BY <1>8, <1>t DEF WriteTemp, TypeOK
<1>9. ASSUME NEW p \in Processes, SyncTemp(p) PROVE TemporarySwept'
    BY <1>9, <1>t DEF SyncTemp, TypeOK
<1>10. ASSUME NEW p \in Processes, Replace(p) PROVE TemporarySwept'
    BY <1>10, <1>t DEF Replace, TypeOK
<1>11. ASSUME NEW p \in Processes, SaveFails(p) PROVE TemporarySwept'
    BY <1>11, <1>t DEF SaveFails, TypeOK
<1>12. ASSUME NEW p \in Processes, Saved(p) PROVE TemporarySwept'
    BY <1>12, <1>t DEF Saved, TypeOK
<1>13. ASSUME NEW p \in Processes, Release(p) PROVE TemporarySwept'
    BY <1>13, <1>t DEF Release, TypeOK
<1>14. ASSUME NEW p \in Processes, Exit(p) PROVE TemporarySwept'
    BY <1>14, <1>t DEF Exit, TypeOK
<1>15. ASSUME NEW p \in Processes, Crash(p) PROVE TemporarySwept'
    BY <1>15, <1>t DEF Crash, TypeOK
<1>16. ASSUME NEW p \in Processes, Rerun(p) PROVE TemporarySwept'
    BY <1>16, <1>t DEF Rerun, TypeOK
<1>17. CASE WriteBack
    BY <1>17 DEF WriteBack
<1>18. CASE PowerFails
    BY <1>18, <1>t DEF PowerFails, TypeOK
<1>19. CASE UNCHANGED vars
    BY <1>19 DEF vars
<1> QED BY <1>1, <1>2, <1>3, <1>4, <1>5, <1>6, <1>7, <1>8, <1>9, <1>10, <1>11,
          <1>12, <1>13, <1>14, <1>15, <1>16, <1>17, <1>18, <1>19, <1>20
          DEF Next, Step, Proceed

(* What documents contain, for any lock files and any power failures.      *)
THEOREM DocumentsInvariance == Spec => []DocInv
<1>1. DocInv /\ [Next]_vars => DocInv'
    BY TypeStep, DocumentsStep, TemporaryStep DEF DocInv
<1> QED BY <1>1, DocInitially, PTL DEF Spec

(* Every variable of ProgressStore keeps its type.                         *)
THEOREM StoreTypes == Spec => []TypeOK
BY DocumentsInvariance, PTL DEF DocInv

(* A command changes exactly the revision its author had read, whatever    *)
(* crashes, is repeated or loses power, and even if two processes use      *)
(* different lock files (progress_tracker.py:1406-1410).                   *)
THEOREM CommandsApplyAtExpected == Spec => []AppliedAtExpected
<1>1. DocInv => AppliedAtExpected
    BY DEF DocInv, Documents, Ordered, AppliedAtExpected
<1> QED BY <1>1, DocumentsInvariance, PTL

(* Nobody ever finds a partial document (progress_tracker.py:1384-1389).   *)
THEOREM DocumentsAreWhole == Spec => []WholeDocument
<1>1. DocInv => WholeDocument
    BY DEF DocInv, Documents, WholeDocument
<1> QED BY <1>1, DocumentsInvariance, PTL

(* Only a killed process leaves its temporary file behind                  *)
(* (progress_tracker.py:1390-1391).                                        *)
THEOREM TemporariesAreSwept == Spec => []TemporarySwept
BY DocumentsInvariance, PTL DEF DocInv

----------------------------------------------------------------------------
(* The rest assumes that all processes share one lock file.                *)
OneLock == \A p, q \in Processes : LockFile[p] = LockFile[q]

Preparing == {"mutated"} \cup Saving
Untried == {"idle", "started", "waiting", "locked", "loaded"} \cup Preparing

(* Exactly the processes in the critical section hold their lock file.     *)
LockInv ==
    \A p \in Processes : pc[p] \in Holding <=> lock[LockFile[p]] = p

(* What the lock protects: the copy in memory is still the file's content. *)
CopyInv ==
    \A p \in Processes :
        /\ pc[p] = "loaded" => document[p] = file.log
        /\ pc[p] \in Preparing => /\ document[p] = Append(file.log, p)
                                  /\ expected[p] = Len(file.log)

(* The disk lags behind the file: it holds the oldest of its commands.     *)
DiskInv == Extends(file.log, disk.log)

(* A process of whose command the file has been told and which no power    *)
(* failure has stopped since.                                              *)
Committed(p) ==
    \/ pc[p] = "replaced"
    \/ pc[p] \in {"closing", "unlocked"} /\ verdict[p] = "ok"
    \/ outages = 0 /\ (verdict[p] = "ok" \/ p \in acked)

(* Which commands are in the file, judged by where their process is.       *)
AppliedInv ==
    \A p \in Processes :
        /\ Committed(p) => Applied(p, file.log)
        /\ pc[p] \in Untried \cup {"replaced"} => verdict[p] = "none"
        /\ runs[p] = 0 <=> pc[p] = "idle"
        /\ runs[p] = 1 /\ (pc[p] \in Untried \/ verdict[p] \in Refusals)
              => ~Applied(p, file.log)

SafeInv == DocInv /\ LockInv /\ CopyInv /\ DiskInv /\ AppliedInv

(* Appending a command applies it and nothing else.                        *)
LEMMA AppendApplied ==
    ASSUME NEW log \in Seq(Processes), NEW p \in Processes,
           NEW q \in Processes
    PROVE  Applied(q, Append(log, p)) <=> q = p \/ Applied(q, log)
<1>1. /\ Len(Append(log, p)) = Len(log) + 1
      /\ Append(log, p)[Len(log) + 1] = p
      /\ \A i \in 1..Len(log) : Append(log, p)[i] = log[i]
    OBVIOUS
<1> QED BY <1>1 DEF Applied

(* What a prefix of a document applies, the document applies too.          *)
LEMMA PrefixApplied ==
    ASSUME NEW log, NEW shorter, Len(log) \in Nat, Len(shorter) \in Nat,
           Extends(log, shorter), NEW p, Applied(p, shorter)
    PROVE  Applied(p, log)
BY DEF Applied, Extends

LEMMA SafeInitially == Init => SafeInv
<1> SUFFICES ASSUME Init PROVE SafeInv
    OBVIOUS
<1>1. DocInv
    BY DocInitially
<1>2. LockInv
    BY StoreAssumption DEF Init, LockInv, Holding, Saving
<1>3. CopyInv /\ AppliedInv /\ DiskInv
    BY DEF Init, File, CopyInv, AppliedInv, Preparing, Saving, Untried, Applied,
           Refusals, DiskInv, Extends, Committed
<1> QED BY <1>1, <1>2, <1>3 DEF SafeInv

(* The lock excludes: of two processes that share it one is outside.       *)
LEMMA OneHolder ==
    ASSUME OneLock, LockInv, NEW p \in Processes, NEW q \in Processes,
           pc[p] \in Holding, pc[q] \in Holding
    PROVE  p = q
BY DEF OneLock, LockInv

(* The lock is taken and given up with the critical section.               *)
LEMMA LockStep ==
    DocInv /\ LockInv /\ [Next]_vars => LockInv'
<1> SUFFICES ASSUME DocInv, LockInv, [Next]_vars
             PROVE  LockInv'
    OBVIOUS
<1>t. TypeOK /\ TypeOK'
    BY TypeStep DEF DocInv
<1> USE StoreAssumption DEF LockInv, Goto, Conclude, shared, ghosts, Holding, Saving
<1>1. ASSUME NEW p \in Processes, Show(p) PROVE LockInv'
    BY <1>1, <1>t DEF Show, TypeOK
<1>2. ASSUME NEW p \in Processes, Decline(p) PROVE LockInv'
    BY <1>2, <1>t DEF Decline, TypeOK
<1>20. ASSUME NEW p \in Processes, OpenLock(p) PROVE LockInv'
    BY <1>20, <1>t DEF OpenLock, TypeOK
<1>3. ASSUME NEW p \in Processes, Acquire(p) PROVE LockInv'
    BY <1>3, <1>t DEF Acquire, TypeOK
<1>4. ASSUME NEW p \in Processes, Load(p) PROVE LockInv'
    BY <1>4, <1>t DEF Load, TypeOK
<1>5. ASSUME NEW p \in Processes, Mutate(p) PROVE LockInv'
    BY <1>5, <1>t DEF Mutate, TypeOK
<1>6. ASSUME NEW p \in Processes, Refuse(p) \/ Reject(p) PROVE LockInv'
    BY <1>6, <1>t DEF Refuse, Reject, TypeOK
<1>7. ASSUME NEW p \in Processes, MakeTemp(p) PROVE LockInv'
    BY <1>7, <1>t DEF MakeTemp, TypeOK
<1>8. ASSUME NEW p \in Processes, WriteTemp(p) PROVE LockInv'
    BY <1>8, <1>t DEF WriteTemp, TypeOK
<1>9. ASSUME NEW p \in Processes, SyncTemp(p) PROVE LockInv'
    BY <1>9, <1>t DEF SyncTemp, TypeOK
<1>10. ASSUME NEW p \in Processes, Replace(p) PROVE LockInv'
    BY <1>10, <1>t DEF Replace, TypeOK
<1>11. ASSUME NEW p \in Processes, SaveFails(p) PROVE LockInv'
    BY <1>11, <1>t DEF SaveFails, TypeOK
<1>12. ASSUME NEW p \in Processes, Saved(p) PROVE LockInv'
    BY <1>12, <1>t DEF Saved, TypeOK
<1>13. ASSUME NEW p \in Processes, Release(p) PROVE LockInv'
    BY <1>13, <1>t DEF Release, TypeOK
<1>14. ASSUME NEW p \in Processes, Exit(p) PROVE LockInv'
    BY <1>14, <1>t DEF Exit, TypeOK
<1>15. ASSUME NEW p \in Processes, Crash(p) PROVE LockInv'
    BY <1>15, <1>t DEF Crash, TypeOK
<1>16. ASSUME NEW p \in Processes, Rerun(p) PROVE LockInv'
    BY <1>16, <1>t DEF Rerun, TypeOK
<1>17. CASE WriteBack
    BY <1>17 DEF WriteBack
<1>18. CASE PowerFails
    BY <1>18, <1>t DEF PowerFails, TypeOK
<1>19. CASE UNCHANGED vars
    BY <1>19 DEF vars
<1> QED BY <1>1, <1>2, <1>3, <1>4, <1>5, <1>6, <1>7, <1>8, <1>9, <1>10, <1>11,
          <1>12, <1>13, <1>14, <1>15, <1>16, <1>17, <1>18, <1>19, <1>20
          DEF Next, Step, Proceed

(* Only the holder of the one lock file replaces the document.             *)
LEMMA CopyStep ==
    ASSUME OneLock
    PROVE  DocInv /\ LockInv /\ CopyInv /\ [Next]_vars => CopyInv'
<1> SUFFICES ASSUME DocInv, LockInv, CopyInv, [Next]_vars
             PROVE  CopyInv'
    OBVIOUS
<1>t. TypeOK /\ TypeOK'
    BY TypeStep DEF DocInv
<1> USE StoreAssumption DEF CopyInv, Goto, Conclude, shared, ghosts, Preparing, Saving, File
<1>1. ASSUME NEW p \in Processes, Show(p) PROVE CopyInv'
    BY <1>1, <1>t DEF Show, TypeOK
<1>2. ASSUME NEW p \in Processes, Decline(p) PROVE CopyInv'
    BY <1>2, <1>t DEF Decline, TypeOK
<1>20. ASSUME NEW p \in Processes, OpenLock(p) PROVE CopyInv'
    BY <1>20, <1>t DEF OpenLock, TypeOK
<1>3. ASSUME NEW p \in Processes, Acquire(p) PROVE CopyInv'
    BY <1>3, <1>t DEF Acquire, TypeOK
<1>4. ASSUME NEW p \in Processes, Load(p) PROVE CopyInv'
    BY <1>4, <1>t DEF Load, TypeOK
<1>5. ASSUME NEW p \in Processes, Mutate(p) PROVE CopyInv'
    BY <1>5, <1>t DEF Mutate, TypeOK
<1>6. ASSUME NEW p \in Processes, Refuse(p) \/ Reject(p) PROVE CopyInv'
    BY <1>6, <1>t DEF Refuse, Reject, TypeOK
<1>7. ASSUME NEW p \in Processes, MakeTemp(p) PROVE CopyInv'
    BY <1>7, <1>t DEF MakeTemp, TypeOK
<1>8. ASSUME NEW p \in Processes, WriteTemp(p) PROVE CopyInv'
    BY <1>8, <1>t DEF WriteTemp, TypeOK
<1>9. ASSUME NEW p \in Processes, SyncTemp(p) PROVE CopyInv'
    BY <1>9, <1>t DEF SyncTemp, TypeOK
<1>10. ASSUME NEW p \in Processes, Replace(p) PROVE CopyInv'
  <2>1. \A q \in Processes : q # p => pc[q] \notin {"loaded"} \cup Preparing
    BY <1>10, OneHolder DEF Replace, Holding
  <2> QED BY <2>1, <1>10, <1>t DEF Replace, TypeOK
<1>11. ASSUME NEW p \in Processes, SaveFails(p) PROVE CopyInv'
    BY <1>11, <1>t DEF SaveFails, TypeOK
<1>12. ASSUME NEW p \in Processes, Saved(p) PROVE CopyInv'
    BY <1>12, <1>t DEF Saved, TypeOK
<1>13. ASSUME NEW p \in Processes, Release(p) PROVE CopyInv'
    BY <1>13, <1>t DEF Release, TypeOK
<1>14. ASSUME NEW p \in Processes, Exit(p) PROVE CopyInv'
    BY <1>14, <1>t DEF Exit, TypeOK
<1>15. ASSUME NEW p \in Processes, Crash(p) PROVE CopyInv'
    BY <1>15, <1>t DEF Crash, TypeOK
<1>16. ASSUME NEW p \in Processes, Rerun(p) PROVE CopyInv'
    BY <1>16, <1>t DEF Rerun, TypeOK
<1>17. CASE WriteBack
    BY <1>17 DEF WriteBack
<1>18. CASE PowerFails
    BY <1>18, <1>t DEF PowerFails, TypeOK
<1>19. CASE UNCHANGED vars
    BY <1>19 DEF vars
<1> QED BY <1>1, <1>2, <1>3, <1>4, <1>5, <1>6, <1>7, <1>8, <1>9, <1>10, <1>11,
          <1>12, <1>13, <1>14, <1>15, <1>16, <1>17, <1>18, <1>19, <1>20
          DEF Next, Step, Proceed

(* A command enters the document when its process replaces the file, and   *)
(* only a power failure takes it out.                                      *)
LEMMA AppliedStep == SafeInv /\ [Next]_vars => AppliedInv'
<1> SUFFICES ASSUME SafeInv, [Next]_vars
             PROVE  AppliedInv'
    OBVIOUS
<1>t. TypeOK /\ TypeOK'
    BY TypeStep DEF SafeInv, DocInv
<1> USE StoreAssumption DEF SafeInv, AppliedInv, Committed, Goto, Conclude,
        shared, ghosts, Untried, Preparing, Saving, Refusals, File
<1>1. ASSUME NEW p \in Processes, Show(p) PROVE AppliedInv'
  <2>1. ~Applied(p, file.log)
    BY <1>1, <1>t, UnreadIsAbsent DEF Show, DocInv, Documents, Applied, TypeOK
  <2> QED BY <2>1, <1>1, <1>t DEF Show, TypeOK
<1>2. ASSUME NEW p \in Processes, Decline(p) PROVE AppliedInv'
    BY <1>2, <1>t DEF Decline, TypeOK
<1>20. ASSUME NEW p \in Processes, OpenLock(p) PROVE AppliedInv'
    BY <1>20, <1>t DEF OpenLock, TypeOK
<1>3. ASSUME NEW p \in Processes, Acquire(p) PROVE AppliedInv'
    BY <1>3, <1>t DEF Acquire, TypeOK
<1>4. ASSUME NEW p \in Processes, Load(p) PROVE AppliedInv'
    BY <1>4, <1>t DEF Load, TypeOK
<1>5. ASSUME NEW p \in Processes, Mutate(p) PROVE AppliedInv'
    BY <1>5, <1>t DEF Mutate, TypeOK
<1>6. ASSUME NEW p \in Processes, Refuse(p) \/ Reject(p) PROVE AppliedInv'
    BY <1>6, <1>t DEF Refuse, Reject, TypeOK
<1>7. ASSUME NEW p \in Processes, MakeTemp(p) PROVE AppliedInv'
    BY <1>7, <1>t DEF MakeTemp, TypeOK
<1>8. ASSUME NEW p \in Processes, WriteTemp(p) PROVE AppliedInv'
    BY <1>8, <1>t DEF WriteTemp, TypeOK
<1>9. ASSUME NEW p \in Processes, SyncTemp(p) PROVE AppliedInv'
    BY <1>9, <1>t DEF SyncTemp, TypeOK
<1>10. ASSUME NEW p \in Processes, Replace(p) PROVE AppliedInv'
  <2>1. file'.log = Append(file.log, p)
    BY <1>10 DEF Replace, CopyInv
  <2>2. \A q \in Processes : Applied(q, file'.log) <=> q = p \/ Applied(q, file.log)
    <3>1. file.log \in Seq(Processes)
        BY <1>t DEF TypeOK
    <3> QED BY <2>1, <3>1, AppendApplied
  <2> QED BY <2>2, <1>10, <1>t DEF Replace, TypeOK
<1>11. ASSUME NEW p \in Processes, SaveFails(p) PROVE AppliedInv'
    BY <1>11, <1>t DEF SaveFails, TypeOK
<1>12. ASSUME NEW p \in Processes, Saved(p) PROVE AppliedInv'
    BY <1>12, <1>t DEF Saved, TypeOK
<1>13. ASSUME NEW p \in Processes, Release(p) PROVE AppliedInv'
    BY <1>13, <1>t DEF Release, TypeOK
<1>14. ASSUME NEW p \in Processes, Exit(p) PROVE AppliedInv'
    BY <1>14, <1>t DEF Exit, TypeOK
<1>15. ASSUME NEW p \in Processes, Crash(p) PROVE AppliedInv'
  <2>1. UNCHANGED <<file, verdict, acked, runs, outages>> /\ pc[p] # "idle"
    BY <1>15 DEF Crash, Holding
  <2>2. \A q \in Processes : pc'[q] = IF q = p THEN "crashed" ELSE pc[q]
    BY <1>15, <1>t DEF Crash, TypeOK
  <2> QED BY <2>1, <2>2
<1>16. ASSUME NEW p \in Processes, Rerun(p) PROVE AppliedInv'
    BY <1>16, <1>t DEF Rerun, TypeOK
<1>17. CASE WriteBack
    BY <1>17 DEF WriteBack
<1>18. CASE PowerFails
  <2>1. /\ UNCHANGED <<verdict, acked, runs>>
        /\ outages' # 0
        /\ \A q \in Processes : pc'[q] = IF pc[q] \in {"idle", "done"}
                                        THEN pc[q] ELSE "crashed"
    BY <1>18, <1>t DEF PowerFails, TypeOK
  <2>2. file'.log = disk.log
    BY <1>18 DEF PowerFails
  <2>3. \A q \in Processes : Applied(q, file'.log) => Applied(q, file.log)
    <3>1. /\ Len(file.log) \in Nat /\ Len(disk.log) \in Nat
          /\ Extends(file.log, disk.log)
        BY <1>t DEF DiskInv, TypeOK
    <3>2. \A q \in Processes : Applied(q, disk.log) => Applied(q, file.log)
        BY <3>1, PrefixApplied
    <3> QED BY <3>2, <2>2
  <2>4. \A q \in Processes : pc'[q] # "idle" => pc'[q] \in {"done", "crashed"}
    BY <2>1
  <2>5. \A q \in Processes : pc'[q] = "idle" <=> pc[q] = "idle"
    BY <2>1
  <2>6. \A q \in Processes : ~Committed(q)'
    BY <2>1, <2>4 DEF Committed
  <2>7. ASSUME NEW q \in Processes,
               runs'[q] = 1 /\ (pc'[q] \in Untried \/ verdict'[q] \in Refusals)
        PROVE  ~Applied(q, file'.log)
    BY <2>1, <2>3, <2>4, <2>5, <2>7
  <2> QED BY <2>1, <2>4, <2>5, <2>6, <2>7
<1>19. CASE UNCHANGED vars
    BY <1>19 DEF vars
<1> QED BY <1>1, <1>2, <1>3, <1>4, <1>5, <1>6, <1>7, <1>8, <1>9, <1>10, <1>11,
          <1>12, <1>13, <1>14, <1>15, <1>16, <1>17, <1>18, <1>19, <1>20
          DEF Next, Step, Proceed

(* The file changes by the command of one process, which is appended, or   *)
(* by a power failure, which leaves what was on the disk.                  *)
LEMMA FileStep ==
    DocInv /\ CopyInv /\ [Next]_vars =>
        \/ UNCHANGED <<file, outages>>
        \/ PowerFails
        \/ \E p \in Processes : /\ Replace(p)
                                /\ expected[p] = Len(file.log)
                                /\ file'.log = Append(file.log, p)
<1> SUFFICES ASSUME DocInv, CopyInv, [Next]_vars, ~UNCHANGED <<file, outages>>,
                    ~PowerFails
             PROVE  \E p \in Processes : /\ Replace(p)
                                         /\ expected[p] = Len(file.log)
                                         /\ file'.log = Append(file.log, p)
    OBVIOUS
<1> USE DEF shared, ghosts
<1>2. PICK p \in Processes : Replace(p)
  <2>1. ASSUME NEW p \in Processes, Show(p) \/ Crash(p) \/ Rerun(p) PROVE FALSE
    BY <2>1 DEF Show, Crash, Rerun
  <2>2. ASSUME NEW p \in Processes, Step(p), ~Replace(p) PROVE FALSE
    BY <2>2 DEF Step, Proceed, Decline, OpenLock, Acquire, Load, Mutate, Refuse,
                Reject, MakeTemp, WriteTemp, SyncTemp, SaveFails, Saved,
                Release, Exit
  <2> QED BY <2>1, <2>2 DEF Next, WriteBack, vars
<1>3. expected[p] = Len(file.log) /\ document[p] = Append(file.log, p)
    BY <1>2 DEF Replace, CopyInv, Preparing, Saving
<1>4. file'.log = Append(file.log, p)
    BY <1>2, <1>3 DEF Replace, File
<1> QED BY <1>2, <1>3, <1>4

(* The disk keeps a prefix of the file.                                    *)
LEMMA DiskStep == DocInv /\ CopyInv /\ DiskInv /\ [Next]_vars => DiskInv'
<1> SUFFICES ASSUME DocInv, CopyInv, DiskInv, [Next]_vars PROVE DiskInv'
    OBVIOUS
<1>t. file.log \in Seq(Processes) /\ disk.log \in Seq(Processes)
    BY DEF DocInv, TypeOK
<1>1. CASE WriteBack
    BY <1>1, <1>t DEF WriteBack, DiskInv, Extends
<1>2. CASE PowerFails
    BY <1>2, <1>t DEF PowerFails, DiskInv, Extends, DocInv, Documents
<1>3. ASSUME NEW p \in Processes, Replace(p), file'.log = Append(file.log, p)
      PROVE  DiskInv'
  <2>1. UNCHANGED disk
    BY <1>3 DEF Replace
  <2> QED BY <2>1, <1>3, <1>t DEF DiskInv, Extends
<1>4. CASE UNCHANGED <<file, disk>>
    BY <1>4 DEF DiskInv
<1>5. ~WriteBack /\ ~PowerFails => UNCHANGED disk
  <2>1. ASSUME NEW p \in Processes, Show(p) \/ Step(p) \/ Crash(p) \/ Rerun(p)
        PROVE  UNCHANGED disk
    BY <2>1 DEF Step, Proceed, Decline, OpenLock, Acquire, Load, Mutate, Refuse,
                Reject, MakeTemp, WriteTemp, SyncTemp, SaveFails, Saved, Release, Exit, Replace, Show,
        Crash, Rerun, shared, ghosts
  <2> QED BY <2>1 DEF Next, vars
<1> QED BY <1>1, <1>2, <1>3, <1>4, <1>5, FileStep

(* The inductive invariant of the store with one lock file.                *)
THEOREM SafeInvariance ==
    ASSUME OneLock
    PROVE  Spec => []SafeInv
<1>1. SafeInv /\ [Next]_vars => SafeInv'
    BY TypeStep, DocumentsStep, TemporaryStep, LockStep, CopyStep, DiskStep,
       AppliedStep
    DEF SafeInv, DocInv
<1> QED BY <1>1, SafeInitially, PTL DEF Spec

(* An acknowledged command is in the document (progress_tracker.py:1387,   *)
(* 1413, 1736).                                                            *)
THEOREM AcknowledgedIsStored ==
    ASSUME OneLock
    PROVE  Spec => []AckedIsStored
<1>1. SafeInv => AckedIsStored
    BY DEF SafeInv, DocInv, TypeOK, AppliedInv, Committed, AckedIsStored
<1> QED BY <1>1, SafeInvariance, PTL

(* A command that failed its only run has changed nothing                  *)
(* (progress_tracker.py:1376-1391, 1411-1413).                             *)
THEOREM FailuresChangeNothing ==
    ASSUME OneLock
    PROVE  Spec => []FailureChangesNothing
<1>1. SafeInv => FailureChangesNothing
    BY DEF SafeInv, AppliedInv, FailureChangesNothing
<1> QED BY <1>1, SafeInvariance, PTL

(* No command overwrites another that was committed                        *)
(* (progress_tracker.py:1364-1373, 1403-1413).                             *)
THEOREM UpdatesAreNotLost ==
    ASSUME OneLock
    PROVE  Spec => NoLostUpdate
<1>1. ASSUME SafeInv, [Next]_vars
      PROVE  [outages' = outages => Extends(file'.log, file.log)]_vars
  <2>1. CASE UNCHANGED file
    BY <2>1, <1>1 DEF Extends, SafeInv, DocInv, TypeOK
  <2>2. ASSUME NEW p \in Processes, file'.log = Append(file.log, p)
        PROVE  Extends(file'.log, file.log)
    BY <2>2, <1>1 DEF Extends, SafeInv, DocInv, TypeOK
  <2>3. PowerFails => outages' # outages
    BY <1>1 DEF PowerFails, SafeInv, DocInv, TypeOK
  <2> QED BY <2>1, <2>2, <2>3, <1>1, FileStep DEF SafeInv
<1> QED BY <1>1, SafeInvariance, PTL DEF Spec, NoLostUpdate

(* The processes implement an atomic versioned log: only os.replace commits*)
(* a command, only an exit with status 0 acknowledges one, and only a power*)
(* failure takes commands back, the newest first.                          *)
THEOREM StoreRefinement ==
    ASSUME OneLock
    PROVE  Spec => ImplementsVersionedDocument
<1>1. Init => Promise!Init
    BY DEF Init, Promise!Init, File
<1>2. ASSUME SafeInv, [Next]_vars PROVE [Promise!Next]_(Promise!vars)
  <2> USE <1>2 DEF Goto, shared, ghosts, Promise!vars
  <2>1. ASSUME NEW p \in Processes, Show(p) PROVE Promise!Read(p)
    <3>1. expected[p] = Unread
        BY <2>1 DEF Show, SafeInv, DocInv, Documents
    <3> QED BY <2>1, <3>1 DEF Show, Promise!Read
  <2>2. ASSUME NEW p \in Processes, Replace(p) PROVE Promise!Commit(p)
    <3>1. expected[p] = Len(file.log) /\ document[p] = Append(file.log, p)
        BY <2>2 DEF Replace, SafeInv, CopyInv, Preparing, Saving
    <3> QED BY <2>2, <3>1 DEF Replace, Promise!Commit, File
  <2>3. ASSUME NEW p \in Processes, Exit(p)
        PROVE  Promise!Acknowledge(p) \/ UNCHANGED Promise!vars
    <3>1. verdict[p] = "ok" => Applied(p, file.log)
        BY <2>3 DEF Exit, SafeInv, AppliedInv, Committed
    <3> QED BY <2>3, <3>1 DEF Exit, Promise!Acknowledge, Applied
  <2>4. ASSUME NEW p \in Processes, Crash(p) \/ Rerun(p)
        PROVE  UNCHANGED Promise!vars
    BY <2>4 DEF Crash, Rerun
  <2>5. ASSUME NEW p \in Processes, Step(p), ~Replace(p), ~Exit(p)
        PROVE  UNCHANGED Promise!vars
    BY <2>5 DEF Step, Proceed, Decline, OpenLock, Acquire, Load, Mutate, Refuse,
                Reject, MakeTemp, WriteTemp, SyncTemp, SaveFails, Saved, Release
  <2>6. WriteBack \/ UNCHANGED vars => UNCHANGED Promise!vars
    BY DEF WriteBack, vars
  <2>7. ASSUME PowerFails PROVE Promise!Outage
    <3>1. /\ file.log \in Seq(Processes) /\ disk.log \in Seq(Processes)
          /\ Extends(file.log, disk.log)
        BY DEF SafeInv, DocInv, TypeOK, DiskInv
    <3>2. disk.log = SubSeq(file.log, 1, Len(disk.log))
        BY <3>1 DEF Extends
    <3>3. Len(disk.log) \in 0..Len(file.log)
        BY <3>1 DEF Extends
    <3>4. file'.log = disk.log
        BY <2>7 DEF PowerFails, File
    <3> QED BY <2>7, <3>2, <3>3, <3>4 DEF PowerFails, Promise!Outage
  <2> QED BY <2>1, <2>2, <2>3, <2>4, <2>5, <2>6, <2>7
          DEF Next, Promise!Next
<1> QED BY <1>1, <1>2, SafeInvariance, PTL
        DEF Spec, ImplementsVersionedDocument, Promise!Spec
=============================================================================
