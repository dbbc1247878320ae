------------------------- MODULE VersionedDocument -------------------------
(***************************************************************************)
(* What progress_tracker.py promises to those who run it concurrently: the *)
(* progress document is a log of commands; a command is based on the       *)
(* revision its author read and is appended only while the document is     *)
(* still at that revision; an acknowledged command is in the log.  A power *)
(* failure may take the newest commands back, never one from the middle.   *)
(***************************************************************************)
EXTENDS Integers, Sequences

CONSTANTS Commands,  \* the mutating commands that are run
          Unread     \* a command whose author has read no revision yet

VARIABLES log,     \* the committed commands, oldest first
          based,   \* based[c]: the revision c was prepared for
          acked,   \* the commands reported as done
          outages  \* power failures so far

vars == <<log, based, acked, outages>>

Init ==
    /\ log = << >>
    /\ based = [c \in Commands |-> Unread]
    /\ acked = {}
    /\ outages = 0

Read(c) ==
    /\ based[c] = Unread
    /\ based' = [based EXCEPT ![c] = Len(log)]
    /\ UNCHANGED <<log, acked, outages>>

Commit(c) ==
    /\ based[c] = Len(log)
    /\ log' = Append(log, c)
    /\ UNCHANGED <<based, acked, outages>>

Acknowledge(c) ==
    /\ \E i \in 1..Len(log) : log[i] = c
    /\ acked' = acked \cup {c}
    /\ UNCHANGED <<log, based, outages>>

Outage ==
    /\ \E n \in 0..Len(log) : log' = SubSeq(log, 1, n)
    /\ outages' = outages + 1
    /\ UNCHANGED <<based, acked>>

Next ==
    \/ \E c \in Commands : Read(c) \/ Commit(c) \/ Acknowledge(c)
    \/ Outage

Spec == Init /\ [][Next]_vars
=============================================================================
