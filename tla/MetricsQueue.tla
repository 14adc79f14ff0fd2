--------------------------- MODULE MetricsQueue ---------------------------
(***************************************************************************)
(* BackgroundMetricsEmitter of src/iceguard/metrics.py.  The thread of the *)
(* writer puts metrics into an unbounded queue and never waits for a       *)
(* publication; a daemon thread takes them out one by one and publishes    *)
(* them through its delegate, which may raise and may never return.        *)
(* close() sets the stop flag, puts the poison that wakes the worker and   *)
(* waits for it, but not for ever.                                         *)
(*                                                                         *)
(* Metrics are numbered in the order in which they are emitted.  close()   *)
(* may be called more than once, and metrics may be emitted after it: they *)
(* stay in the queue.                                                      *)
(***************************************************************************)
EXTENDS Integers, Sequences

CONSTANTS
    MaxItems,   \* bound: metrics emitted
    MaxCloses,  \* bound: calls of close()
    Faults      \* "raise": the delegate raises; "hang": it never returns

ASSUME MetricsAssumption ==
    /\ MaxItems \in Nat
    /\ MaxCloses \in Nat
    /\ Faults \subseteq {"raise", "hang"}

VARIABLES
    emitted,  \* metrics emitted so far: 1..emitted
    queue,    \* _queue
    stop,     \* _stop is set
    closes,   \* calls of close() so far
    cpc,      \* where the writer's thread is in close(), "out" if outside
    wpc,      \* where the worker is
    item,     \* what the worker took last
    tried     \* the metrics handed to the delegate, published or logged as failed

vars == <<emitted, queue, stop, closes, cpc, wpc, item, tried>>

Poison == 0

TypeOK ==
    /\ emitted \in 0..MaxItems
    /\ queue \in Seq(0..MaxItems)
    /\ stop \in BOOLEAN
    /\ closes \in 0..MaxCloses
    /\ cpc \in {"out", "poison", "join"}
    /\ wpc \in {"test", "get", "publish", "hung", "ended"}
    /\ item \in 0..MaxItems
    /\ tried \in Seq(1..MaxItems)

Init ==
    /\ emitted = 0
    /\ queue = <<>>
    /\ stop = FALSE
    /\ closes = 0
    /\ cpc = "out"
    /\ wpc = "test"
    /\ item = Poison
    /\ tried = <<>>

-----------------------------------------------------------------------------
(* The thread of the writer                                                *)

(* Any of the emit_ methods.                                               *)
Emit ==
    /\ cpc = "out"
    /\ emitted < MaxItems
    /\ emitted' = emitted + 1
    /\ queue' = Append(queue, emitted')
    /\ UNCHANGED <<stop, closes, cpc, wpc, item, tried>>

Close ==
    /\ cpc = "out"
    /\ closes < MaxCloses
    /\ closes' = closes + 1
    /\ stop' = TRUE
    /\ cpc' = "poison"
    /\ UNCHANGED <<emitted, queue, wpc, item, tried>>

PutPoison ==
    /\ cpc = "poison"
    /\ queue' = Append(queue, Poison)
    /\ cpc' = "join"
    /\ UNCHANGED <<emitted, stop, closes, wpc, item, tried>>

(* mutant: join() without a timeout *)
JoinPatiently == wpc = "ended"

(* The worker has ended, or the timeout of join() has passed.              *)
JoinReturns == TRUE

Join ==
    /\ cpc = "join"
    /\ JoinReturns
    /\ cpc' = "out"
    /\ UNCHANGED <<emitted, queue, stop, closes, wpc, item, tried>>

-----------------------------------------------------------------------------
(* The worker                                                              *)

TestStop ==
    /\ wpc = "test"
    /\ wpc' = IF stop THEN "ended" ELSE "get"
    /\ UNCHANGED <<emitted, queue, stop, closes, cpc, item, tried>>

(* mutant: the poison is taken for a metric *)
NoPoison(i) == FALSE

IsPoison(i) == i = Poison

Get ==
    /\ wpc = "get"
    /\ queue # <<>>
    /\ item' = Head(queue)
    /\ queue' = Tail(queue)
    /\ wpc' = IF IsPoison(item') THEN "ended" ELSE "publish"
    /\ UNCHANGED <<emitted, stop, closes, cpc, tried>>

GetTimesOut ==
    /\ wpc = "get"
    /\ queue = <<>>
    /\ wpc' = "test"
    /\ UNCHANGED <<emitted, queue, stop, closes, cpc, item, tried>>

Publish ==
    /\ wpc = "publish"
    /\ tried' = Append(tried, item)
    /\ wpc' = "test"
    /\ UNCHANGED <<emitted, queue, stop, closes, cpc, item>>

(* mutant: an exception of the delegate ends the worker *)
FailureEnds == wpc' = "ended" /\ tried' = Append(tried, item) /\ queue' = queue

(* mutant: a metric that failed is tried again before anything else *)
FailureRetries ==
    wpc' = "get" /\ tried' = tried /\ queue' = <<item>> \o queue

(* mutant: a metric that failed goes back to the queue *)
FailureRequeues == wpc' = "test" /\ tried' = tried /\ queue' = Append(queue, item)

(* The exception is logged and the metric forgotten.                       *)
Failure == wpc' = "test" /\ tried' = Append(tried, item) /\ queue' = queue

PublishRaises ==
    /\ wpc = "publish"
    /\ "raise" \in Faults
    /\ Failure
    /\ UNCHANGED <<emitted, stop, closes, cpc, item>>

PublishHangs ==
    /\ wpc = "publish"
    /\ "hang" \in Faults
    /\ wpc' = "hung"
    /\ UNCHANGED <<emitted, queue, stop, closes, cpc, item, tried>>

Closing == PutPoison \/ Join
Working == TestStop \/ Get \/ GetTimesOut \/ Publish \/ PublishRaises

Next == Emit \/ Close \/ Closing \/ Working \/ PublishHangs

Spec == Init /\ [][Next]_vars

(* Both threads keep running; a publication that does not hang ends.       *)
FairSpec == Spec /\ WF_vars(Closing) /\ WF_vars(Working)

-----------------------------------------------------------------------------
(* Properties                                                              *)

(* Metrics reach the delegate in the order of their emission, none twice   *)
(* and none before an earlier one, also when the delegate raises and when  *)
(* close() comes in between (_worker, _enqueue).                           *)
InOrder == \A i \in DOMAIN tried : tried[i] = i

(* As long as close() has not been called every metric reaches the         *)
(* delegate, whatever the publications before it raised; only one that     *)
(* never returns keeps the others waiting.                                 *)
Delivered ==
    \A i \in 1..MaxItems :
        emitted >= i ~> (Len(tried) >= i \/ stop \/ wpc = "hung")

(* The with block of the writer ends: close() returns also when the        *)
(* delegate never does.                                                    *)
CloseReturns == (cpc # "out") ~> cpc = "out"

(* After close() the worker ends, whether it was testing the flag, waiting *)
(* for a metric or publishing one that raises.                             *)
WorkerEnds == stop ~> wpc \in {"ended", "hung"}

=============================================================================
