------------------------ MODULE MetricsQueueProofs ------------------------
(* Theorems about MetricsQueue, checked by TLAPS. *)
EXTENDS MetricsQueue, TLAPS

(* Metrics the worker has taken out of the queue.                          *)
Taken == Len(tried) + IF wpc \in {"publish", "hung"} THEN 1 ELSE 0

(* No poison lies among the first k elements of the queue.                 *)
CleanTo(k) == \A j \in 1..k : queue[j] # Poison

(* Up to the first poison the queue continues where the worker is, without *)
(* a gap; what lies behind a poison is never taken.                        *)
QueueInOrder ==
    wpc # "ended" =>
      /\ \A k \in 1..Len(queue) : CleanTo(k) => queue[k] = Taken + k
      /\ CleanTo(Len(queue)) => emitted = Taken + Len(queue)

HeldInOrder == wpc \in {"publish", "hung"} => item = Len(tried) + 1

IInv == TypeOK /\ InOrder /\ QueueInOrder /\ HeldInOrder

(* Every variable of the emitter keeps its type: in particular the poison  *)
(* is never handed to the delegate.                                        *)
LEMMA TypeInvariant == IInv /\ [Next]_vars => TypeOK'
<1> SUFFICES ASSUME TypeOK, IInv, Next
             PROVE  TypeOK'
  BY DEF IInv, TypeOK, vars
<1> USE MetricsAssumption DEF TypeOK, Poison
<1>1. CASE Emit
  BY <1>1 DEF Emit
<1>2. CASE Close
  BY <1>2 DEF Close
<1>3. CASE PutPoison
  BY <1>3 DEF PutPoison
<1>4. CASE Join
  BY <1>4 DEF Join
<1>5. CASE TestStop
  BY <1>5 DEF TestStop
<1>6. CASE Get
  BY <1>6 DEF Get, IsPoison
<1>7. CASE GetTimesOut
  BY <1>7 DEF GetTimesOut
<1>8. CASE Publish
  <2>1. item \in 1..MaxItems
    BY <1>8 DEF IInv, HeldInOrder, Publish
  <2> QED BY <1>8, <2>1 DEF Publish
<1>9. CASE PublishRaises
  <2>1. item \in 1..MaxItems
    BY <1>9 DEF IInv, HeldInOrder, PublishRaises
  <2> QED BY <1>9, <2>1 DEF PublishRaises, Failure
<1>10. CASE PublishHangs
  BY <1>10 DEF PublishHangs
<1> QED
  BY <1>1, <1>2, <1>3, <1>4, <1>5, <1>6, <1>7, <1>8, <1>9, <1>10
  DEF Next, Closing, Working

(* A step that changes neither the queue nor what the worker has taken     *)
(* keeps the order of what is queued.                                      *)
LEMMA SameQueueInOrder ==
    ASSUME IInv, queue' = queue, emitted' = emitted, Taken' = Taken,
           wpc' # "ended" => wpc # "ended"
    PROVE  QueueInOrder'
BY DEF IInv, QueueInOrder, CleanTo

(* IInv is inductive.                                                      *)
LEMMA Inductive == IInv /\ [Next]_vars => IInv'
<1> SUFFICES ASSUME IInv, [Next]_vars
             PROVE  InOrder' /\ QueueInOrder' /\ HeldInOrder'
  BY TypeInvariant DEF IInv
<1>0. TypeOK /\ TypeOK'
  BY TypeInvariant DEF IInv
<1>1. CASE Emit
  <2>1. InOrder' /\ HeldInOrder'
    BY <1>1 DEF IInv, InOrder, HeldInOrder, Emit
  <2>2. ASSUME wpc' # "ended"
        PROVE  /\ \A k \in 1..Len(queue') : CleanTo(k)' => queue'[k] = Taken' + k
               /\ CleanTo(Len(queue))' => emitted' = Taken' + Len(queue')
    <3>1. /\ Len(queue') = Len(queue) + 1
          /\ \A k \in 1..Len(queue) : queue'[k] = queue[k]
          /\ queue'[Len(queue) + 1] = emitted + 1
          /\ Taken' = Taken
      BY <1>0, <1>1 DEF Emit, TypeOK, Taken
    <3>2. /\ Len(queue) \in Nat /\ Taken \in Nat
          /\ emitted' = emitted + 1
          /\ \A k \in 1..Len(queue) : CleanTo(k) => queue[k] = Taken + k
          /\ CleanTo(Len(queue)) => emitted = Taken + Len(queue)
      BY <1>0, <1>1, <2>2 DEF IInv, QueueInOrder, Emit, TypeOK, Taken
    <3>3. CleanTo(Len(queue))' => CleanTo(Len(queue))
      BY <3>1, <3>2 DEF CleanTo
    <3>4. \A k \in 1..Len(queue) : CleanTo(k)' => CleanTo(k)
      BY <3>1, <3>2 DEF CleanTo
    <3>5. CleanTo(Len(queue))' => emitted + 1 = Taken + (Len(queue) + 1)
      BY <3>1, <3>2, <3>3
    <3>6. ASSUME NEW k \in 1..Len(queue'), CleanTo(k)'
          PROVE  queue'[k] = Taken' + k
      <4>1. CASE k \in 1..Len(queue)
        BY <3>1, <3>2, <3>4, <3>6, <4>1
      <4>2. CASE k = Len(queue) + 1
        <5>1. k = Len(queue')
          BY <3>1, <4>2
        <5>2. CleanTo(Len(queue))'
          BY <3>6, <5>1
        <5> QED BY <3>1, <3>2, <3>5, <4>2, <5>2
      <4> QED BY <3>1, <3>2, <4>1, <4>2
    <3>7. CleanTo(Len(queue))' => emitted' = Taken' + Len(queue')
      BY <3>1, <3>2, <3>3
    <3> QED BY <3>6, <3>7
  <2> QED BY <2>1, <2>2 DEF QueueInOrder
<1>2. CASE PutPoison
  <2>1. InOrder' /\ HeldInOrder'
    BY <1>2 DEF IInv, InOrder, HeldInOrder, PutPoison
  <2>2. /\ Len(queue') = Len(queue) + 1
        /\ \A k \in 1..Len(queue) : queue'[k] = queue[k]
        /\ queue'[Len(queue) + 1] = Poison
        /\ Taken' = Taken
        /\ wpc' = wpc
        /\ Len(queue) \in Nat
    BY <1>0, <1>2 DEF PutPoison, TypeOK, Taken, Poison
  <2>3. QueueInOrder'
    BY <2>2 DEF IInv, QueueInOrder, CleanTo
  <2> QED BY <2>1, <2>3
<1>3. CASE Get
  <2>1. InOrder'
    BY <1>3 DEF IInv, InOrder, Get
  <2>2. /\ Len(queue) \in Nat \ {0}
        /\ Len(queue') = Len(queue) - 1
        /\ \A k \in 1..Len(queue') : queue'[k] = queue[k + 1]
        /\ item' = queue[1]
        /\ Taken = Len(tried)
        /\ Len(tried) \in Nat
    BY <1>0, <1>3 DEF Get, TypeOK, Taken
  <2>3. CASE item' = Poison
    <3>1. wpc' = "ended"
      BY <1>3, <2>3 DEF Get, IsPoison
    <3> QED BY <2>1, <3>1 DEF QueueInOrder, HeldInOrder
  <2>4. CASE item' # Poison
    <3>1. wpc' = "publish" /\ Taken' = Taken + 1 /\ tried' = tried
      BY <1>3, <2>2, <2>4 DEF Get, IsPoison, Taken
    <3>2. CleanTo(1)
      BY <2>2, <2>4 DEF CleanTo
    <3>3. HeldInOrder'
      BY <1>3, <2>2, <3>1, <3>2 DEF IInv, QueueInOrder, HeldInOrder, Get
    <3>4. ASSUME NEW k \in 1..Len(queue'), CleanTo(k)'
          PROVE  queue'[k] = Taken' + k
      <4>1. CleanTo(k + 1)
        <5> SUFFICES ASSUME NEW j \in 1..(k + 1)
                     PROVE  queue[j] # Poison
          BY DEF CleanTo
        <5>1. CASE j = 1
          BY <2>2, <2>4, <5>1
        <5>2. CASE j # 1
          <6>1. j - 1 \in 1..k /\ j - 1 \in 1..Len(queue') /\ (j - 1) + 1 = j
            BY <5>2, <2>2
          <6> QED BY <6>1, <2>2, <3>4 DEF CleanTo
        <5> QED BY <5>1, <5>2
      <4>2. k + 1 \in 1..Len(queue)
        BY <2>2
      <4>3. queue[k + 1] = Taken + (k + 1)
        BY <1>3, <4>1, <4>2 DEF IInv, QueueInOrder, Get
      <4> QED BY <2>2, <3>1, <4>3
    <3>5. ASSUME CleanTo(Len(queue))'
          PROVE  emitted' = Taken' + Len(queue')
      <4>1. CleanTo(Len(queue))
        <5> SUFFICES ASSUME NEW j \in 1..Len(queue)
                     PROVE  queue[j] # Poison
          BY DEF CleanTo
        <5>1. CASE j = 1
          BY <2>2, <2>4, <5>1
        <5>2. CASE j # 1
          <6>1. j - 1 \in 1..Len(queue') /\ (j - 1) + 1 = j
            BY <5>2, <2>2
          <6> QED BY <6>1, <2>2, <3>5 DEF CleanTo
        <5> QED BY <5>1, <5>2
      <4>2. emitted = Taken + Len(queue)
        BY <1>3, <4>1 DEF IInv, QueueInOrder, Get
      <4> QED BY <1>3, <2>2, <3>1, <4>2 DEF Get
    <3> QED BY <2>1, <3>3, <3>4, <3>5 DEF QueueInOrder
  <2> QED BY <2>3, <2>4
<1>4. CASE Publish \/ PublishRaises
  <2>1. /\ item = Len(tried) + 1
        /\ tried' = Append(tried, item)
        /\ wpc = "publish" /\ wpc' = "test"
        /\ queue' = queue /\ emitted' = emitted
    BY <1>4 DEF IInv, HeldInOrder, Publish, PublishRaises, Failure
  <2>2. /\ Taken' = Taken
        /\ \A k \in DOMAIN tried : k \in DOMAIN tried' /\ tried'[k] = tried[k]
        /\ \A k \in DOMAIN tried' : k \in DOMAIN tried \/ k = Len(tried) + 1
        /\ tried'[Len(tried) + 1] = item
    BY <1>0, <2>1 DEF Taken, TypeOK
  <2>3. InOrder'
    BY <2>1, <2>2 DEF IInv, InOrder
  <2> QED BY <2>1, <2>2, <2>3, SameQueueInOrder DEF HeldInOrder
<1>5. CASE Close \/ Join \/ TestStop \/ GetTimesOut \/ PublishHangs
  <2>1. /\ UNCHANGED <<queue, emitted, tried, item>>
        /\ Taken' = Taken
        /\ wpc' \in {"publish", "hung"} => wpc \in {"publish", "hung"}
        /\ wpc' # "ended" => wpc # "ended"
    BY <1>5 DEF Close, Join, TestStop, GetTimesOut, PublishHangs, Taken
  <2> QED BY <2>1, SameQueueInOrder DEF IInv, InOrder, HeldInOrder
<1>6. CASE UNCHANGED vars
  <2>1. UNCHANGED <<queue, emitted, tried, item, wpc, Taken>>
    BY <1>6 DEF vars, Taken
  <2> QED BY <2>1, SameQueueInOrder DEF IInv, InOrder, HeldInOrder
<1> QED
  BY <1>1, <1>2, <1>3, <1>4, <1>5, <1>6 DEF Next, Closing, Working

(* The invariant holds initially.                                          *)
LEMMA Initially == Init => IInv
<1> SUFFICES ASSUME Init
             PROVE  IInv
  OBVIOUS
<1>0. <<>> \in Seq(0..MaxItems) /\ <<>> \in Seq(1..MaxItems)
  OBVIOUS
<1>1. TypeOK
  <2>1. queue \in Seq(0..MaxItems) /\ tried \in Seq(1..MaxItems)
    BY <1>0, Zenon DEF Init
  <2>2. stop \in BOOLEAN
    BY Zenon DEF Init
  <2>3. emitted \in 0..MaxItems /\ closes \in 0..MaxCloses /\ item \in 0..MaxItems
    BY MetricsAssumption DEF Init, Poison
  <2> QED BY <2>1, <2>2, <2>3, Zenon DEF Init, TypeOK
<1>2. InOrder /\ HeldInOrder
  BY DEF Init, InOrder, HeldInOrder
<1>3. Len(queue) = 0 /\ Taken = 0 /\ emitted = 0
  BY DEF Init, Taken
<1>4. QueueInOrder
  BY <1>3 DEF QueueInOrder
<1> QED BY <1>1, <1>2, <1>4 DEF IInv

(* The emitter keeps its types whatever the bounds and the faults.         *)
THEOREM TypeCorrect == Spec => []TypeOK
<1>1. IInv => TypeOK
  BY DEF IInv
<1> QED BY <1>1, Initially, Inductive, PTL DEF Spec

(* However many metrics are emitted and however close() falls between the  *)
(* steps of the worker, the delegate receives them in order, none twice    *)
(* and none left out (_worker, close).                                     *)
THEOREM OrderIsKept == Spec => []InOrder
<1>1. IInv => InOrder
  BY DEF IInv
<1> QED BY <1>1, Initially, Inductive, PTL DEF Spec

=============================================================================
