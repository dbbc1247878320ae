--------------------------- MODULE ProgressStore ---------------------------
(***************************************************************************)
(* Concurrent runs of progress_tracker.py on one progress.json.  Each      *)
(* process runs one mutating command: its author reads a revision with     *)
(* `show`, then mutate_progress loads, checks, mutates and validates the   *)
(* document under a lock file and replaces it through a temporary file.    *)
(* Any step may fail with an OSError, the process may be killed anywhere,  *)
(* the author may run the same command line again, and the power may fail. *)
(* What a mutation does to the document is the subject of ProgressTracker: *)
(* here a document is the sequence of the commands applied to it, and its  *)
(* length stands for the revision.                                         *)
(***************************************************************************)
EXTENDS Integers, Sequences

CONSTANTS
    Processes,   \* the command lines that are run, one process each
    LockFiles,   \* lock files: <tempfile.gettempdir()>/learning-<id>.lock
    LockFile,    \* LockFile[p]: the one p opens; it depends on p's TMPDIR
    Nobody,      \* the holder of a free lock file
    MaxRuns,     \* bound: runs of one command line
    MaxOutages   \* bound: power failures

ASSUME StoreAssumption ==
    /\ LockFile \in [Processes -> LockFiles]
    /\ Nobody \notin Processes
    /\ MaxRuns \in Nat \ {0}
    /\ MaxOutages \in Nat

VARIABLES
    file,      \* progress.json as every process sees it
    disk,      \* progress.json as it would be found after a power failure
    lock,      \* who holds each lock file
    pc,        \* where each process is, see Points
    expected,  \* --expected-revision
    document,  \* the document in the memory of each process
    temp,      \* its temporary file: none, empty, written or synced
    verdict,   \* what mutate_progress returned or raised
    acked,     \* ghost: commands whose process exited with status 0
    runs,      \* ghost: how often each command line was started
    outages    \* ghost: power failures so far

vars == <<file, disk, lock, pc, expected, document, temp, verdict, acked, runs,
          outages>>

shared == <<file, disk, lock>>
ghosts == <<acked, runs, outages>>

----------------------------------------------------------------------------
Unread == -1
Refusals == {"conflict", "rejected", "error"}

Saving == {"temp", "written", "synced"}
Holding == {"locked", "loaded", "mutated", "replaced", "closing"} \cup Saving
Points == {"idle", "started", "waiting", "unlocked", "done", "crashed"}
          \cup Holding

File(log, state) == [log |-> log, state |-> state]

Goto(p, point) == pc' = [pc EXCEPT ![p] = point]
Conclude(p, result) == verdict' = [verdict EXCEPT ![p] = result]

Init ==
    /\ file = File(<< >>, "synced")
    /\ disk = file
    /\ lock = [l \in LockFiles |-> Nobody]
    /\ pc = [p \in Processes |-> "idle"]
    /\ expected = [p \in Processes |-> Unread]
    /\ document = [p \in Processes |-> << >>]
    /\ temp = [p \in Processes |-> "none"]
    /\ verdict = [p \in Processes |-> "none"]
    /\ acked = {}
    /\ runs = [p \in Processes |-> 0]
    /\ outages = 0

----------------------------------------------------------------------------
(* The author reads the revision without a lock and prepares the command;  *)
(* main builds its evidence before the lock is requested.                  *)
Show(p) ==
    /\ pc[p] = "idle"
    /\ file.state # "torn"
    /\ expected' = [expected EXCEPT ![p] = Len(file.log)]
    /\ runs' = [runs EXCEPT ![p] = 1]
    /\ Goto(p, "started")
    /\ UNCHANGED <<shared, document, temp, verdict, acked, outages>>

(* The evidence is not acceptable, or the lock file cannot be opened.      *)
Decline(p) ==
    /\ pc[p] = "started"
    /\ \E e \in {"rejected", "error"} : Conclude(p, e)
    /\ Goto(p, "unlocked")
    /\ UNCHANGED <<shared, expected, document, temp, ghosts>>

(* The lock file is open: flock blocks until nobody else holds it, and     *)
(* there is no way back.                                                   *)
OpenLock(p) ==
    /\ pc[p] = "started"
    /\ Goto(p, "waiting")
    /\ UNCHANGED <<shared, expected, document, temp, verdict, ghosts>>

Acquire(p) ==
    /\ pc[p] = "waiting"
    /\ lock[LockFile[p]] = Nobody
    /\ lock' = [lock EXCEPT ![LockFile[p]] = p]
    /\ Goto(p, "locked")
    /\ UNCHANGED <<file, disk, expected, document, temp, verdict, ghosts>>

Load(p) ==
    /\ pc[p] = "locked"
    /\ file.state # "torn"
    /\ document' = [document EXCEPT ![p] = file.log]
    /\ Goto(p, "loaded")
    /\ UNCHANGED <<shared, expected, temp, verdict, ghosts>>

MutateUnchecked(p) ==  \* mutant: the expected revision is not compared
    /\ pc[p] = "loaded"
    /\ document' = [document EXCEPT ![p] = Append(@, p)]
    /\ Goto(p, "mutated")
    /\ UNCHANGED <<shared, expected, temp, verdict, ghosts>>

(* The mutation and the validation of its result work on the copy.         *)
Mutate(p) ==
    /\ pc[p] = "loaded"
    /\ Len(document[p]) = expected[p]
    /\ document' = [document EXCEPT ![p] = Append(@, p)]
    /\ Goto(p, "mutated")
    /\ UNCHANGED <<shared, expected, temp, verdict, ghosts>>

(* A ProgressError nobody can avoid: the document cannot be parsed, or the *)
(* revision has moved on.                                                  *)
Refuse(p) ==
    /\ \/ pc[p] = "locked" /\ file.state = "torn" /\ Conclude(p, "rejected")
       \/ pc[p] = "loaded" /\ Len(document[p]) # expected[p]
             /\ Conclude(p, "conflict")
    /\ Goto(p, "closing")
    /\ UNCHANGED <<shared, expected, document, temp, ghosts>>

(* A ProgressError that may come up: the document is not valid (any more), *)
(* or the mutation or its result is rejected.                              *)
Reject(p) ==
    /\ pc[p] \in {"locked", "loaded", "mutated"}
    /\ Conclude(p, "rejected")
    /\ Goto(p, "closing")
    /\ UNCHANGED <<shared, expected, document, temp, ghosts>>

----------------------------------------------------------------------------
(* _write: a temporary file beside the document, synced before it takes    *)
(* the document's name.                                                    *)
MakeTempLocked(p) ==  \* mutant: _write takes the lock once more
    /\ pc[p] = "mutated"
    /\ lock[LockFile[p]] = Nobody
    /\ temp' = [temp EXCEPT ![p] = "empty"]
    /\ Goto(p, "temp")
    /\ UNCHANGED <<shared, expected, document, verdict, ghosts>>

MakeTemp(p) ==
    /\ pc[p] = "mutated"
    /\ temp' = [temp EXCEPT ![p] = "empty"]
    /\ Goto(p, "temp")
    /\ UNCHANGED <<shared, expected, document, verdict, ghosts>>

WriteTemp(p) ==
    /\ pc[p] = "temp"
    /\ temp' = [temp EXCEPT ![p] = "written"]
    /\ Goto(p, "written")
    /\ UNCHANGED <<shared, expected, document, verdict, ghosts>>

FlushOnly(p) ==  \* mutant: flush without fsync
    /\ pc[p] = "written"
    /\ Goto(p, "synced")
    /\ UNCHANGED <<shared, expected, document, temp, verdict, ghosts>>

SyncTemp(p) ==
    /\ pc[p] = "written"
    /\ temp' = [temp EXCEPT ![p] = "synced"]
    /\ Goto(p, "synced")
    /\ UNCHANGED <<shared, expected, document, verdict, ghosts>>

Replace(p) ==
    /\ pc[p] = "synced"
    /\ file' = File(document[p], temp[p])
    /\ temp' = [temp EXCEPT ![p] = "none"]
    /\ Goto(p, "replaced")
    /\ UNCHANGED <<disk, lock, expected, document, verdict, ghosts>>

SaveFailsLate(p) ==  \* mutant: an error is also reported after the replace
    /\ pc[p] \in {"mutated", "replaced"} \cup Saving
    /\ temp' = [temp EXCEPT ![p] = "none"]
    /\ Conclude(p, "error")
    /\ Goto(p, "closing")
    /\ UNCHANGED <<shared, expected, document, ghosts>>

SaveFailsQuietly(p) ==  \* mutant: OSError is swallowed
    /\ pc[p] \in {"mutated"} \cup Saving
    /\ temp' = [temp EXCEPT ![p] = "none"]
    /\ Conclude(p, "ok")
    /\ Goto(p, "closing")
    /\ UNCHANGED <<shared, expected, document, ghosts>>

(* An OSError in mkstemp, write, flush, fsync or replace: the finally      *)
(* clause removes the temporary file and the error goes on.                *)
SaveFails(p) ==
    /\ pc[p] \in {"mutated"} \cup Saving
    /\ temp' = [temp EXCEPT ![p] = "none"]
    /\ Conclude(p, "error")
    /\ Goto(p, "closing")
    /\ UNCHANGED <<shared, expected, document, ghosts>>

Saved(p) ==
    /\ pc[p] = "replaced"
    /\ Conclude(p, "ok")
    /\ Goto(p, "closing")
    /\ UNCHANGED <<shared, expected, document, temp, ghosts>>

Release(p) ==
    /\ pc[p] = "closing"
    /\ lock' = [lock EXCEPT ![LockFile[p]] = Nobody]
    /\ Goto(p, "unlocked")
    /\ UNCHANGED <<file, disk, expected, document, temp, verdict, ghosts>>

(* main prints the new document and returns 0, or the error and returns 2. *)
Exit(p) ==
    /\ pc[p] = "unlocked"
    /\ acked' = IF verdict[p] = "ok" THEN acked \cup {p} ELSE acked
    /\ Goto(p, "done")
    /\ UNCHANGED <<shared, expected, document, temp, verdict, runs, outages>>

----------------------------------------------------------------------------
(* The environment.  A killed process loses its flock; its temporary file  *)
(* stays behind, under a name nobody reads.                                *)
Crash(p) ==
    /\ pc[p] \in {"started", "waiting", "unlocked"} \cup Holding
    /\ lock' = [l \in LockFiles |-> IF lock[l] = p THEN Nobody ELSE lock[l]]
    /\ Goto(p, "crashed")
    /\ UNCHANGED <<file, disk, expected, document, temp, verdict, ghosts>>

(* The author, unsure of the outcome, runs the same command line again.    *)
Rerun(p) ==
    /\ pc[p] \in {"done", "crashed"}
    /\ runs[p] < MaxRuns
    /\ runs' = [runs EXCEPT ![p] = @ + 1]
    /\ document' = [document EXCEPT ![p] = << >>]
    /\ temp' = [temp EXCEPT ![p] = "none"]
    /\ Conclude(p, "none")
    /\ Goto(p, "started")
    /\ UNCHANGED <<shared, expected, acked, outages>>

(* os.replace reaches the disk some time later: the directory is not synced. *)
WriteBack ==
    /\ outages < MaxOutages
    /\ disk' = file
    /\ UNCHANGED <<file, lock, pc, expected, document, temp, verdict, ghosts>>

PowerFails ==
    /\ outages < MaxOutages
    /\ outages' = outages + 1
    /\ file' = IF disk.state = "synced" THEN disk ELSE File(disk.log, "torn")
    /\ disk' = file'
    /\ lock' = [l \in LockFiles |-> Nobody]
    /\ pc' = [p \in Processes |-> IF pc[p] \in {"idle", "done"} THEN pc[p]
                                  ELSE "crashed"]
    /\ UNCHANGED <<expected, document, temp, verdict, acked, runs>>

(* What a process does when nothing goes wrong, and what may go wrong.     *)
Proceed(p) ==
    \/ OpenLock(p) \/ Acquire(p) \/ Load(p) \/ Mutate(p) \/ Refuse(p)
    \/ MakeTemp(p) \/ WriteTemp(p) \/ SyncTemp(p) \/ Replace(p) \/ Saved(p)
    \/ Release(p) \/ Exit(p)

Step(p) == Proceed(p) \/ Decline(p) \/ Reject(p) \/ SaveFails(p)

Next ==
    \/ \E p \in Processes : Show(p) \/ Step(p) \/ Crash(p) \/ Rerun(p)
    \/ WriteBack \/ PowerFails

(* The operating system runs every process that can go on and grants a     *)
(* free lock to one that waits.  No error is obliged to happen, and nobody *)
(* has to start or to repeat a command.                                    *)
Spec == Init /\ [][Next]_vars
FairSpec == Spec /\ \A p \in Processes : WF_vars(Proceed(p))

----------------------------------------------------------------------------
(* Every variable has its type (progress_tracker.py:1364-1414).            *)
TypeOK ==
    /\ file \in [log : Seq(Processes), state : {"synced", "torn"}]
    /\ disk \in [log : Seq(Processes), state : {"synced", "torn"}]
    /\ lock \in [LockFiles -> Processes \cup {Nobody}]
    /\ pc \in [Processes -> Points]
    /\ expected \in [Processes -> Nat \cup {Unread}]
    /\ document \in [Processes -> Seq(Processes)]
    /\ temp \in [Processes -> {"none", "empty", "written", "synced"}]
    /\ verdict \in [Processes -> {"none", "ok"} \cup Refusals]
    /\ acked \subseteq Processes
    /\ runs \in [Processes -> 0..MaxRuns]
    /\ outages \in 0..MaxOutages

Applied(p, log) == \E i \in 1..Len(log) : log[i] = p
Extends(longer, shorter) ==
    /\ Len(shorter) <= Len(longer)
    /\ \A i \in 1..Len(shorter) : longer[i] = shorter[i]

(* A committed command stays in the document, at its place, unless the     *)
(* power fails: no command writes back a document it loaded before another *)
(* one was committed (progress_tracker.py:1364-1373, 1403-1413).           *)
NoLostUpdate == [][outages' = outages => Extends(file'.log, file.log)]_vars

(* A command changes exactly the revision its author had read, so it is    *)
(* applied at most once however often it is run again after a crash, an    *)
(* error or a success that went unnoticed (progress_tracker.py:1406-1410). *)
AppliedAtExpected ==
    \A i \in 1..Len(file.log) : expected[file.log[i]] = i - 1

(* Exit status 0 means that the command is in the document and stays there *)
(* until the power fails: the directory is not synced after os.replace     *)
(* (progress_tracker.py:1388-1389, 1413, 1736).                            *)
AckedIsStored == outages = 0 => \A p \in acked : Applied(p, file.log)

(* A command that failed the only time it was run has changed nothing      *)
(* (progress_tracker.py:1376-1391, 1411-1413).                             *)
FailureChangesNothing ==
    \A p \in Processes :
        verdict[p] \in Refusals /\ runs[p] = 1 => ~Applied(p, file.log)

(* Readers, who take no lock, and the next start after a power failure     *)
(* find a complete document, never a part of one                           *)
(* (progress_tracker.py:1384-1389).                                        *)
WholeDocument == file.state # "torn"

(* Only a killed process leaves a temporary file in the repository         *)
(* (progress_tracker.py:1390-1391).                                        *)
TemporarySwept ==
    \A p \in Processes : temp[p] # "none" => pc[p] \in Saving \cup {"crashed"}

(* Every command that was started ends, and not because an error saves it: *)
(* flock has no timeout, so whoever holds the lock must give it up on      *)
(* every path and may wait for nothing meanwhile                           *)
(* (progress_tracker.py:1364-1373, 1403-1413).                             *)
EveryCommandEnds ==
    \A p \in Processes : pc[p] = "started" ~> pc[p] \in {"done", "crashed"}

Promise == INSTANCE VersionedDocument WITH
    Commands <- Processes, log <- file.log, based <- expected

(* The processes implement an atomic versioned log, and a power failure    *)
(* takes back only its newest commands.                                    *)
ImplementsVersionedDocument == Promise!Spec
=============================================================================
