------------------------ MODULE MCStreamingRuntime ------------------------
(* Small instances of StreamingRuntime for TLC: a deadline a few ticks     *)
(* away, so that two retries fit and a third does not, and two             *)
(* cancellations, so that the second can meet the cleanup of the first.    *)
EXTENDS StreamingRuntime

MCRetryHints == {0, 2}
MCNoHint == -1
=============================================================================
