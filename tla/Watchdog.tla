------------------------------ MODULE Watchdog ------------------------------
(***************************************************************************)
(* WatchdogThread (src/iceguard/watchdog.py): a daemon thread polls the    *)
(* remaining Lambda time and calls its callback once when the time is at   *)
(* or below the threshold.  The callback SafeWriter installs sets the      *)
(* rollback event, so `rollback' also stands for _callback_done: the two   *)
(* are set by the same thread, one after the other, and only this thread   *)
(* looks at _callback_done.  `armed' stands for _armed and not _stop,      *)
(* which disarm() changes together and the loop tests together.            *)
(*                                                                         *)
(* A sleep of the thread is the gap between two of its steps, and a value  *)
(* of the clock is `low': the remaining time is at or below the threshold. *)
(***************************************************************************)

VARIABLES
    wpc,       \* where the watchdog thread is
    armed,     \* the loop condition: _armed is set and _stop is not
    rollback,  \* the threading.Event SafeWriter and the callback share
    low        \* the clock of the invocation has reached the threshold

watchdogVars == <<wpc, armed, rollback, low>>

WatchdogTypeOK ==
    /\ wpc \in {"unstarted", "test", "read", "fire", "exited"}
    /\ armed \in BOOLEAN
    /\ rollback \in BOOLEAN
    /\ low \in BOOLEAN

WatchdogInit ==
    /\ wpc = "unstarted"
    /\ armed = TRUE
    /\ rollback = FALSE
    /\ low = FALSE

-----------------------------------------------------------------------------

(* A new SafeWriter, hence a new WatchdogThread, in a new invocation.      *)
NewWatchdog ==
    /\ wpc' = "unstarted"
    /\ armed' = TRUE
    /\ rollback' = FALSE
    /\ low' = FALSE

(* start(): the thread exists and is about to test its loop condition.     *)
StartThread ==
    /\ wpc = "unstarted"
    /\ wpc' = "test"
    /\ UNCHANGED <<armed, rollback, low>>

(* The loop test; the thread exits once it sees that it was disarmed.      *)
TestLoop ==
    /\ wpc = "test"
    /\ wpc' = IF armed THEN "read" ELSE "exited"
    /\ UNCHANGED <<armed, rollback, low>>

(* get_remaining_time_in_millis() answers.                                 *)
ReadClock ==
    /\ wpc = "read"
    /\ wpc' = IF low THEN "fire" ELSE "test"
    /\ UNCHANGED <<armed, rollback, low>>

(* mutant: the exception of the clock ends the thread *)
ReadClockFatal ==
    /\ wpc = "read"
    /\ wpc' = "exited"
    /\ UNCHANGED <<armed, rollback, low>>

(* get_remaining_time_in_millis() raises: log, sleep, test again.          *)
ReadClockFails ==
    /\ wpc = "read"
    /\ wpc' = "test"
    /\ UNCHANGED <<armed, rollback, low>>

(* _invoke_callback_once() runs the callback, whatever disarm() did since  *)
(* the loop test; then the loop is left.                                   *)
InvokeCallbackOnce ==
    /\ wpc = "fire"
    /\ rollback' = TRUE
    /\ wpc' = "exited"
    /\ UNCHANGED <<armed, low>>

(* disarm(): its join gives up after 0.6 s, so the caller goes on whether  *)
(* or not the thread has left its loop.                                    *)
Disarm ==
    /\ armed' = FALSE
    /\ UNCHANGED <<wpc, rollback, low>>

(* The clock of the invocation reaches rollback_threshold_ms.              *)
TimeRunsLow ==
    /\ ~low
    /\ low' = TRUE
    /\ UNCHANGED <<wpc, armed, rollback>>

WatchdogStep == TestLoop \/ ReadClock \/ InvokeCallbackOnce

=============================================================================
