-------------------------- MODULE CoordinatorProofs --------------------------
(***************************************************************************)
(* Proofs about Coordinator: what one coordinator at a time achieves, for  *)
(* any number of participants and calls.                                   *)
(***************************************************************************)
EXTENDS Coordinator, TLAPS

USE CoordinatorAssumption

(* What the pieces the actions are made of do to the types.                *)
Places == {"idle", "vote", "abort", "notify", "commit", "hung"}
Answers == Statuses \cup {"none", "raised"}
States == {"idle", "prepared", "committed", "aborted"}

LEMMA GotoTypes ==
  ASSUME TypeOK, NEW c \in Coordinators, NEW label \in Places,
         NEW i \in 1..(N + 1), Goto(c, label, i)
  PROVE  pc' \in [Coordinators -> Places] /\ idx' \in [Coordinators -> 1..(N + 1)]
BY DEF TypeOK, Goto, Places

LEMMA ReplyTypes ==
  ASSUME TypeOK, NEW c \in Coordinators, NEW value \in Answers, Reply(c, value)
  PROVE  reply' \in [Coordinators -> Answers]
BY DEF TypeOK, Reply, Answers

LEMMA ReturnTypes ==
  ASSUME TypeOK, NEW c \in Coordinators, NEW value \in Answers, Return(c, value)
  PROVE  /\ pc' \in [Coordinators -> Places]
         /\ idx' \in [Coordinators -> 1..(N + 1)]
         /\ reply' \in [Coordinators -> Answers]
<1>1. Goto(c, "idle", 1) /\ Reply(c, value)
  BY DEF Return
<1>2. "idle" \in Places /\ 1 \in 1..(N + 1)
  BY DEF Places
<1> QED
  BY <1>1, <1>2, GotoTypes, ReplyTypes

LEMMA PersistTypes ==
  ASSUME TypeOK, NEW c \in Coordinators, NEW status \in Statuses,
         Persist(c, status)
  PROVE  /\ doc' \in Statuses \cup {"NONE"}
         /\ cached' \in [Coordinators -> Statuses \cup {"NONE"}]
BY DEF TypeOK, Persist

LEMMA PartTypes ==
  ASSUME TypeOK, NEW p \in P,
         part' \in {part, Prepared(p), Aborted(p), [part EXCEPT ![p] = "committed"]}
  PROVE  part' \in [P -> States]
BY DEF TypeOK, States, Prepared, Aborted

LEMMA TypeParts ==
  TypeOK <=> /\ doc \in Statuses \cup {"NONE"}
             /\ part \in [P -> States]
             /\ cached \in [Coordinators -> Statuses \cup {"NONE"}]
             /\ pc \in [Coordinators -> Places]
             /\ idx \in [Coordinators -> 1..(N + 1)]
             /\ reply \in [Coordinators -> Answers]
             /\ calls \in 0..MaxCalls
             /\ broken \in BOOLEAN
BY DEF TypeOK, Places, Answers, States

LEMMA Atoms ==
  /\ {"idle", "vote", "abort", "notify", "commit", "hung"} \subseteq Places
  /\ {"INITIATED", "PREPARING", "PREPARED", "COMMITTING", "COMMITTED",
      "ABORTING", "ABORTED"} \subseteq Statuses
  /\ {"none", "raised"} \cup Statuses \subseteq Answers
  /\ 1 \in 1..(N + 1)
BY DEF Places, Statuses, Answers

LEMMA AtParticipant ==
  ASSUME TypeOK, NEW c \in Coordinators, More(c)
  PROVE  idx[c] \in P /\ idx[c] + 1 \in 1..(N + 1)
BY DEF TypeOK, More, P

LEMMA CountTypes ==
  ASSUME TypeOK, NEW c \in Coordinators, Call(c)
  PROVE  calls' \in 0..MaxCalls
BY DEF TypeOK, Call

LEMMA HistoryTypes ==
  ASSUME TypeOK, broken' = broken \/ \E condition : BrokenIf(condition)
  PROVE  broken' \in BOOLEAN
BY DEF TypeOK, BrokenIf

(* What the history remembers it does not forget.                          *)
LEMMA HistoryStep ==
  ASSUME [Next]_vars
  PROVE  /\ broken' = broken \/ \E condition : BrokenIf(condition)
         /\ broken => broken'
<1>1. CASE UNCHANGED vars
  BY <1>1 DEF vars
<1>2. ASSUME NEW c \in Coordinators, Calls(c)
      PROVE  broken' = broken \/ \E condition : BrokenIf(condition)
  BY <1>2 DEF Calls, CallPrepare, CallCommit, CallAbort, CallRecover
<1>3. ASSUME NEW c \in Coordinators, Work(c) \/ Hang(c) \/ Crash(c)
      PROVE  broken' = broken \/ \E condition : BrokenIf(condition)
  BY <1>3 DEF Work, Hang, Crash, VoteYes, VoteNo, VoteRaises, VotesIn, CommitOne,
     CommitOneFails, CommitsIn, BeginAbort, NotifyAbort, AbortDone
<1> QED
  BY <1>1, <1>2, <1>3 DEF Next, BrokenIf

LEMMA TypeStep == TypeOK /\ [Next]_vars => TypeOK'
<1> SUFFICES ASSUME TypeOK, [Next]_vars PROVE TypeOK'
  OBVIOUS
<1> USE TypeParts
<1>0. (/\ doc \in Statuses \cup {"NONE"}
       /\ part \in [P -> States]
       /\ cached \in [Coordinators -> Statuses \cup {"NONE"}]
       /\ pc \in [Coordinators -> Places]
       /\ idx \in [Coordinators -> 1..(N + 1)]
       /\ reply \in [Coordinators -> Answers]
       /\ calls \in 0..MaxCalls)' => TypeOK'
  <2>1. (broken \in BOOLEAN)'
    BY HistoryStep, HistoryTypes
  <2> QED
    BY <2>1, TypeParts, PTL
<1>1. CASE UNCHANGED vars
  BY <1>0, <1>1 DEF vars
<1>2. ASSUME NEW c \in Coordinators, Calls(c) \/ Work(c) \/ Hang(c) \/ Crash(c)
      PROVE  TypeOK'
  <2> USE <1>0, <1>2, Atoms
  <2>1. CASE CallPrepare(c)
    BY <2>1, CountTypes, PersistTypes, GotoTypes, ReplyTypes DEF CallPrepare
  <2>2. CASE CallCommit(c)
    <3>1. calls' \in 0..MaxCalls /\ part' = part
      BY <2>2, CountTypes DEF CallCommit
    <3>2. \/ Return(c, "raised") /\ UNCHANGED <<doc, cached>>
          \/ Persist(c, "COMMITTING") /\ Goto(c, "commit", 1) /\ Reply(c, "none")
      BY <2>2 DEF CallCommit
    <3> QED
      BY <3>1, <3>2, ReturnTypes, PersistTypes, GotoTypes, ReplyTypes
  <2>3. CASE CallAbort(c)
    <3>1. calls' \in 0..MaxCalls /\ UNCHANGED <<part, doc, cached>>
      BY <2>3, CountTypes DEF CallAbort
    <3>2. \/ \E start \in StartStates(c) : Terminal(start) /\ Return(c, start)
          \/ Goto(c, "abort", 1) /\ Reply(c, "ABORTED")
      BY <2>3 DEF CallAbort
    <3>3. \A start : Terminal(start) => start \in Answers
      BY DEF Terminal
    <3> QED
      BY <3>1, <3>2, <3>3, ReturnTypes, GotoTypes, ReplyTypes
  <2>4. CASE CallRecover(c)
    <3>1. calls' \in 0..MaxCalls /\ UNCHANGED <<doc, part>>
      BY <2>4, CountTypes DEF CallRecover
    <3>2. \/ /\ doc # "NONE"
             /\ cached' = [cached EXCEPT ![c] = doc]
             /\ Return(c, doc)
          \/ UNCHANGED cached /\ Return(c, "raised")
      BY <2>4 DEF CallRecover
    <3>3. cached' \in [Coordinators -> Statuses \cup {"NONE"}]
      BY <3>2
    <3>4. \E value \in Answers : Return(c, value)
      BY <3>2
    <3> QED
      BY <3>1, <3>3, <3>4, ReturnTypes
  <2>5. CASE VoteYes(c)
    BY <2>5, AtParticipant, PartTypes, GotoTypes DEF VoteYes
  <2>6. CASE VoteNo(c)
    <3>1. part' \in [P -> States]
      BY <2>6, AtParticipant, PartTypes DEF VoteNo, MayHaveVoted
    <3>2. reply' \in [Coordinators -> Answers]
      BY <2>6, ReplyTypes DEF VoteNo
    <3> QED
      BY <2>6, <3>1, <3>2, PersistTypes, GotoTypes DEF VoteNo
  <2>7. CASE VoteRaises(c)
    BY <2>7, AtParticipant, PartTypes, ReturnTypes DEF VoteRaises, MayHaveVoted
  <2>8. CASE VotesIn(c) \/ CommitsIn(c)
    BY <2>8, PersistTypes, ReturnTypes DEF VotesIn, CommitsIn
  <2>9. CASE BeginAbort(c)
    BY <2>9, PersistTypes, GotoTypes DEF BeginAbort
  <2>10. CASE AbortDone(c)
    BY <2>10, PersistTypes, ReturnTypes DEF AbortDone
  <2>11. CASE CommitOne(c)
    BY <2>11, AtParticipant, PartTypes, GotoTypes DEF CommitOne
  <2>12. CASE CommitOneFails(c)
    <3>1. part' \in [P -> States]
      BY <2>12, AtParticipant, PartTypes DEF CommitOneFails
    <3> QED
      BY <2>12, <3>1, GotoTypes, ReplyTypes DEF CommitOneFails
  <2>13. CASE NotifyAbort(c)
    BY <2>13, AtParticipant, PartTypes, GotoTypes DEF NotifyAbort
  <2>14. CASE Hang(c)
    BY <2>14, GotoTypes DEF Hang
  <2>15. CASE Crash(c)
    BY <2>15, ReturnTypes DEF Crash
  <2> QED
    BY <2>1, <2>2, <2>3, <2>4, <2>5, <2>6, <2>7, <2>8, <2>9, <2>10, <2>11,
       <2>12, <2>13, <2>14, <2>15 DEF Calls, Work
<1> QED
  BY <1>1, <1>2 DEF Next

LEMMA StepTypes ==
  ASSUME TypeOK, [Next]_vars
  PROVE  part' \in [P -> States] /\ broken' \in BOOLEAN
<1>1. TypeOK'
  BY TypeStep
<1> QED
  BY <1>1 DEF TypeOK, States

LEMMA TypeInit == Init => TypeOK
<1> SUFFICES ASSUME Init PROVE TypeOK
  OBVIOUS
<1>1. broken \in BOOLEAN
  BY DEF Init
<1>2. /\ doc \in Statuses \cup {"NONE"}
      /\ part \in [P -> States]
      /\ cached \in [Coordinators -> Statuses \cup {"NONE"}]
  BY DEF Init, States
<1>3. /\ pc \in [Coordinators -> Places]
      /\ idx \in [Coordinators -> 1..(N + 1)]
      /\ reply \in [Coordinators -> Answers]
      /\ calls \in 0..MaxCalls
  BY DEF Init, Places, Answers
<1> QED
  BY <1>1, <1>2, <1>3, TypeParts

(* Every variable keeps its type, for any number of participants and       *)
(* coordinators and whatever fails.                                        *)
THEOREM TypeCorrect == Spec => []TypeOK
BY TypeInit, TypeStep, PTL DEF Spec

-----------------------------------------------------------------------------
(* A step of a process while the others are outside their calls            *)

Acts(c) == Calls(c) \/ Work(c) \/ Hang(c)

(* Whoever is in a call at all is c, or is held for ever by a participant. *)
Alone(c) == \A d \in Coordinators : d # c => pc[d] \in {"idle", "hung"}

(* There is one process, which then is alone.                              *)
Sole == \A c, d \in Coordinators : c = d

(* The bucket keeps what is saved, and a participant says YES only when it *)
(* has prepared.                                                           *)
Faithful == "put" \notin Faults /\ "garble" \notin Faults

LEMMA SoleProcess ==
  ASSUME Sole, NEW c \in Coordinators
  PROVE  Alone(c) /\ \A d \in Coordinators : d = c
BY DEF Sole, Alone

LEMMA Persisted ==
  ASSUME TypeOK, NEW c \in Coordinators, NEW status, Persist(c, status)
  PROVE  /\ doc' \in {doc, status}
         /\ cached'[c] = status
         /\ "put" \notin Faults => doc' = status
BY DEF Persist, Outcomes, TypeOK

LEMMA Moved ==
  ASSUME TypeOK, NEW c \in Coordinators, NEW label, NEW i, Goto(c, label, i)
  PROVE  pc'[c] = label /\ idx'[c] = i
BY DEF Goto, TypeOK

LEMMA Returned ==
  ASSUME TypeOK, NEW c \in Coordinators, NEW value, Return(c, value)
  PROVE  pc'[c] = "idle"
BY Moved DEF Return

(* What another process knows and where it is stays the same.              *)
LEMMA CallFrame ==
  ASSUME TypeOK, NEW c \in Coordinators, Acts(c) \/ Crash(c)
  PROVE  \A d \in Coordinators : d # c => pc'[d] = pc[d] /\ cached'[d] = cached[d]
<1>1. \/ \E label, i : Goto(c, label, i)
      \/ \E value : Return(c, value)
  BY DEF Acts, Calls, Work, Hang, Crash, CallPrepare, CallCommit, CallAbort,
       CallRecover, VoteYes, VoteNo, VoteRaises, VotesIn, CommitOne,
       CommitOneFails, CommitsIn, BeginAbort, NotifyAbort, AbortDone
<1>2. \E label : pc' = [pc EXCEPT ![c] = label]
  BY <1>1 DEF Goto, Return
<1>3. cached' = cached \/ \E status : cached' = [cached EXCEPT ![c] = status]
  <2>1. UNCHANGED cached \/ (\E status : Persist(c, status)) \/ CallRecover(c) \/ Crash(c)
    BY DEF Acts, Calls, Work, Hang, CallPrepare, CallCommit, CallAbort,
         VoteYes, VoteNo, VoteRaises, VotesIn, CommitOne, CommitOneFails,
         CommitsIn, BeginAbort, NotifyAbort, AbortDone
  <2> QED
    BY <2>1 DEF Persist, CallRecover, Crash
<1> QED
  BY <1>2, <1>3 DEF TypeOK

(* Nothing happens to the transaction itself when a process dies.          *)
LEMMA CrashFrame ==
  ASSUME TypeOK, NEW c \in Coordinators, Crash(c)
  PROVE  UNCHANGED <<doc, part>> /\ pc'[c] = "idle" /\ cached'[c] = "NONE"
BY Returned DEF Crash, TypeOK

LEMMA CrashIndex ==
  ASSUME TypeOK, NEW c \in Coordinators, Crash(c)
  PROVE  \A d \in Coordinators : d # c => idx'[d] = idx[d]
<1>1. idx' = [idx EXCEPT ![c] = 1]
  BY DEF Crash, Return, Goto
<1> QED
  BY <1>1 DEF TypeOK

LEMMA CallDisjuncts ==
  ASSUME [Next]_vars
  PROVE  UNCHANGED vars \/ \E c \in Coordinators : Acts(c) \/ Crash(c)
BY DEF Next, Acts

-----------------------------------------------------------------------------
(* What the document says while nothing that is saved is lost              *)

Ready(p) == part[p] \in {"prepared", "committed"}

(* Where a process is, what the document says and what has been done to    *)
(* the participants before and after the one it is at.                     *)
AtVote(c) ==
    pc[c] = "vote" => doc = "PREPARING" /\ \A p \in P : p < idx[c] => Ready(p)

AtCommit(c) ==
    pc[c] = "commit" =>
      /\ doc = "COMMITTING"
      /\ \A p \in P : Ready(p) /\ (p < idx[c] => part[p] = "committed")

AtNotify(c) ==
    pc[c] = "notify" => doc = "ABORTING"

Unanimous == doc = "PREPARED" => \A p \in P : Ready(p)

Steady ==
    /\ TypeOK
    /\ \A c \in Coordinators : AtVote(c) /\ AtCommit(c) /\ AtNotify(c)
    /\ Unanimous

(* A process has in mind what the document says, or nothing.               *)
InMind(c) == cached[c] \in {"NONE", doc}

(* While the other processes are outside their calls, a process that acts  *)
(* upon what the document says keeps the document right.                   *)
LEMMA SteadyStep ==
  ASSUME Faithful, Steady, NEW c \in Coordinators, Acts(c), Alone(c),
         InMind(c) \/ CallRecover(c)
  PROVE  Steady'
<1> USE DEF Steady, Ready, AtVote, AtCommit, AtNotify, InMind, Unanimous
<1>1. TypeOK'
  BY TypeStep DEF Next, Acts
<1>2. \A d \in Coordinators : d # c => AtVote(d)' /\ AtCommit(d)' /\ AtNotify(d)'
  BY CallFrame DEF Alone
<1>3. "put" \notin Faults /\ "garble" \notin Faults
  BY DEF Faithful
<1> SUFFICES AtVote(c)' /\ AtCommit(c)' /\ AtNotify(c)' /\ Unanimous'
  BY <1>1, <1>2
<1>4. CASE CallRecover(c)
  <2>1. UNCHANGED <<doc, part>> /\ pc'[c] = "idle"
    BY <1>4, Returned DEF CallRecover
  <2> QED
    BY <2>1
<1> SUFFICES ASSUME InMind(c)
             PROVE  AtVote(c)' /\ AtCommit(c)' /\ AtNotify(c)' /\ Unanimous'
  BY <1>4
<1> USE <1>3
<1>5. CASE CallPrepare(c)
  <2>1. doc' = "PREPARING" /\ pc'[c] = "vote" /\ idx'[c] = 1
    BY <1>5, Persisted, Moved DEF CallPrepare
  <2> QED
    BY <2>1 DEF P
<1>6. CASE CallCommit(c)
  <2>1. part' = part
    BY <1>6 DEF CallCommit
  <2>2. CASE Return(c, "raised") /\ UNCHANGED <<doc, cached>>
    BY <2>1, <2>2, Returned
  <2>3. CASE /\ \E start \in StartStates(c) : MayCommit(start)
             /\ Persist(c, "COMMITTING") /\ Goto(c, "commit", 1)
    <3>1. doc = "PREPARED"
      BY <2>3 DEF StartStates, MayCommit
    <3>2. doc' = "COMMITTING" /\ pc'[c] = "commit" /\ idx'[c] = 1
      BY <2>3, Persisted, Moved
    <3> QED
      BY <2>1, <3>1, <3>2 DEF P
  <2> QED
    BY <1>6, <2>2, <2>3 DEF CallCommit
<1>7. CASE CallAbort(c) \/ Hang(c)
  <2>1. UNCHANGED <<doc, part>> /\ pc'[c] \in {"idle", "abort", "hung"}
    BY <1>7, Moved, Returned DEF CallAbort, Hang
  <2> QED
    BY <2>1
<1>8. CASE VoteYes(c)
  <2>1. /\ pc[c] = "vote" /\ doc' = doc
        /\ pc'[c] = "vote" /\ idx'[c] = idx[c] + 1
        /\ part' = Prepared(idx[c])
    BY <1>8, Moved DEF VoteYes
  <2>2. \A p \in P : p < idx[c] + 1 => part'[p] \in {"prepared", "committed"}
    BY <2>1 DEF Prepared, TypeOK, P
  <2> QED
    BY <2>1, <2>2
<1>9. CASE VoteNo(c)
  <2>1. doc' = "PREPARING" /\ pc'[c] = "abort"
    BY <1>9, Persisted, Moved DEF VoteNo
  <2> QED
    BY <2>1
<1>10. CASE VoteRaises(c)
  BY <1>10, Returned DEF VoteRaises
<1>11. CASE VotesIn(c)
  <2>1. /\ pc[c] = "vote" /\ idx[c] = N + 1 /\ part' = part
        /\ doc' = "PREPARED" /\ pc'[c] = "idle"
    BY <1>11, Persisted, Returned DEF VotesIn, All
  <2> QED
    BY <2>1 DEF P
<1>12. CASE CommitOne(c)
  <2>1. /\ pc[c] = "commit" /\ doc' = doc
        /\ pc'[c] = "commit" /\ idx'[c] = idx[c] + 1
        /\ part' = [part EXCEPT ![idx[c]] = "committed"]
    BY <1>12, Moved DEF CommitOne
  <2>2. /\ \A p \in P : Ready(p) /\ (p < idx[c] => part[p] = "committed")
        /\ idx[c] \in Int /\ part \in [P -> States]
    BY <2>1, TypeParts
  <2>3. \A p \in P : /\ part'[p] \in {"prepared", "committed"}
                     /\ p < idx[c] + 1 => part'[p] = "committed"
    BY <2>1, <2>2 DEF P
  <2> QED
    BY <2>1, <2>3
<1>13. CASE CommitOneFails(c)
  <2>1. pc[c] = "commit" /\ pc'[c] = "abort" /\ doc' = doc
    BY <1>13, Moved DEF CommitOneFails
  <2> QED
    BY <2>1
<1>14. CASE CommitsIn(c) \/ AbortDone(c)
  <2>1. doc' \in {"COMMITTED", "ABORTED"} /\ pc'[c] = "idle"
    BY <1>14, Persisted, Returned DEF CommitsIn, AbortDone
  <2> QED
    BY <2>1
<1>15. CASE BeginAbort(c)
  <2>1. doc' = "ABORTING" /\ pc'[c] = "notify"
    BY <1>15, Persisted, Moved DEF BeginAbort
  <2> QED
    BY <2>1
<1>16. CASE NotifyAbort(c)
  <2>1. pc[c] = "notify" /\ pc'[c] = "notify" /\ doc' = doc
    BY <1>16, Moved DEF NotifyAbort
  <2> QED
    BY <2>1
<1> QED
  BY <1>4, <1>5, <1>6, <1>7, <1>8, <1>9, <1>10, <1>11, <1>12, <1>13, <1>14,
     <1>15, <1>16 DEF Acts, Calls, Work

LEMMA SteadyRest ==
  ASSUME Steady, UNCHANGED vars \/ \E c \in Coordinators : Crash(c)
  PROVE  Steady'
<1> USE DEF Steady, Ready, AtVote, AtCommit, AtNotify, Unanimous
<1>1. CASE UNCHANGED vars
  <2>1. TypeOK'
    BY <1>1, TypeStep
  <2> QED
    BY <1>1, <2>1 DEF vars
<1>2. ASSUME NEW c \in Coordinators, Crash(c)
      PROVE  Steady'
  <2>1. TypeOK'
    BY <1>2, TypeStep DEF Next
  <2>2. UNCHANGED <<doc, part>> /\ pc'[c] = "idle"
    BY <1>2, CrashFrame
  <2>3. \A d \in Coordinators : d # c => pc'[d] = pc[d] /\ idx'[d] = idx[d]
    BY <1>2, CallFrame, CrashIndex
  <2>4. ASSUME NEW d \in Coordinators
        PROVE  AtVote(d)' /\ AtCommit(d)' /\ AtNotify(d)'
    <3>1. CASE d = c
      BY <2>2, <3>1
    <3>2. CASE d # c
      BY <2>2, <2>3, <3>2
    <3> QED
      BY <3>1, <3>2
  <2> QED
    BY <2>1, <2>2, <2>4
<1> QED
  BY <1>1, <1>2

LEMMA SteadyInit == Init => Steady
<1> SUFFICES ASSUME Init PROVE Steady
  OBVIOUS
<1>1. TypeOK
  BY TypeInit
<1> QED
  BY <1>1 DEF Init, Steady, AtVote, AtCommit, AtNotify, Unanimous

(* What a process saves it has in mind, and what it recovers.              *)
Unborn == doc = "NONE" => \A c \in Coordinators : cached[c] = "NONE"

LEMMA MindStep ==
  ASSUME "put" \notin Faults, TypeOK, NEW c \in Coordinators, Acts(c),
         InMind(c) \/ (CallRecover(c) /\ "get" \notin Faults /\ Unborn)
  PROVE  InMind(c)'
<1>0. CASE CallRecover(c)
  <2>1. doc' = doc /\ cached'[c] \in {cached[c], doc}
    BY <1>0 DEF CallRecover, TypeOK
  <2>2. "get" \notin Faults /\ doc # "NONE" => cached'[c] = doc
    BY <1>0 DEF CallRecover, Outcomes, TypeOK
  <2> QED
    BY <2>1, <2>2 DEF InMind, Unborn
<1> SUFFICES ASSUME InMind(c)
             PROVE  InMind(c)'
  BY <1>0
<1>1. CASE \E status : Persist(c, status)
  BY <1>1, Persisted DEF InMind
<1>2. CASE UNCHANGED <<doc, cached>>
  BY <1>2 DEF InMind
<1> QED
  BY <1>0, <1>1, <1>2 DEF Acts, Calls, Work, Hang, CallPrepare, CallCommit,
     CallAbort, VoteYes, VoteNo, VoteRaises, VotesIn, CommitOne,
     CommitOneFails, CommitsIn, BeginAbort, NotifyAbort, AbortDone

LEMMA UnbornStep ==
  ASSUME "put" \notin Faults, TypeOK, Unborn, [Next]_vars
  PROVE  Unborn'
<1> USE DEF Unborn
<1>1. CASE UNCHANGED vars
  BY <1>1 DEF vars
<1>2. ASSUME NEW c \in Coordinators, \E status \in Statuses : Persist(c, status)
      PROVE  Unborn'
  BY <1>2, Persisted DEF Statuses
<1>3. CASE UNCHANGED <<doc, cached>>
  BY <1>3
<1>4. ASSUME NEW c \in Coordinators, CallRecover(c)
      PROVE  Unborn'
  BY <1>4 DEF CallRecover
<1>5. ASSUME NEW c \in Coordinators, Crash(c)
      PROVE  Unborn'
  BY <1>5 DEF Crash, TypeOK
<1>6. ASSUME NEW c \in Coordinators, Acts(c)
      PROVE  Unborn'
  <2>1. \/ \E status \in Statuses : Persist(c, status)
        \/ UNCHANGED <<doc, cached>>
        \/ CallRecover(c)
    BY <1>6, Atoms DEF Acts, Calls, Work, Hang, CallPrepare, CallCommit, CallAbort,
       VoteYes, VoteNo, VoteRaises, VotesIn, CommitOne, CommitOneFails,
       CommitsIn, BeginAbort, NotifyAbort, AbortDone
  <2> QED
    BY <1>2, <1>3, <1>4, <2>1
<1> QED
  BY <1>1, <1>5, <1>6, CallDisjuncts

(* With one process, what is known stays so.                               *)
SteadySole == Steady /\ \A c \in Coordinators : InMind(c)

LEMMA SteadySoleStep ==
  ASSUME Sole, Faithful, SteadySole, [Next]_vars
  PROVE  SteadySole'
<1> USE DEF SteadySole
<1>0. TypeOK
  BY DEF Steady
<1>1. CASE UNCHANGED vars
  BY <1>1, SteadyRest DEF vars, InMind
<1>2. ASSUME NEW c \in Coordinators, Acts(c)
      PROVE  SteadySole'
  <2>1. InMind(c)'
    BY <1>0, <1>2, MindStep DEF Faithful
  <2> QED
    BY <1>2, <2>1, SoleProcess, SteadyStep
<1>3. ASSUME NEW c \in Coordinators, Crash(c)
      PROVE  SteadySole'
  <2>1. InMind(c)'
    BY <1>0, <1>3, CrashFrame DEF InMind
  <2> QED
    BY <1>3, <2>1, SoleProcess, SteadyRest
<1> QED
  BY <1>1, <1>2, <1>3, CallDisjuncts

LEMMA SteadySoleInit == Init => SteadySole
BY SteadyInit DEF Init, SteadySole, InMind

(* PREPARED means that every participant voted YES, across crashes,        *)
(* recoveries, late and failed calls.                                      *)
THEOREM PreparedMeansAll ==
  Sole /\ Faithful => (Spec => []PreparedIsUnanimous)
<1> SUFFICES ASSUME Sole, Faithful PROVE Spec => []PreparedIsUnanimous
  OBVIOUS
<1>1. SteadySole /\ [Next]_vars => SteadySole'
  BY SteadySoleStep
<1>2. SteadySole => PreparedIsUnanimous
  BY DEF SteadySole, Steady, Unanimous, Ready, PreparedIsUnanimous
<1> QED
  BY <1>1, <1>2, SteadySoleInit, PTL DEF Spec

Asked == \A p \in P : part[p] # "committed" /\ part'[p] = "committed" =>
                       part[p] = "prepared"

LEMMA AskedStep ==
  ASSUME Steady, NEW c \in Coordinators, Acts(c) \/ Crash(c)
  PROVE  Asked
<1>1. CASE CommitOne(c) \/ CommitOneFails(c)
  BY <1>1 DEF CommitOne, CommitOneFails, Steady, AtCommit, Ready, TypeOK, P, Asked
<1>2. CASE VoteYes(c) \/ VoteNo(c) \/ VoteRaises(c) \/ NotifyAbort(c)
  <2>1. part' \in {part, Prepared(idx[c]), Aborted(idx[c])}
    BY <1>2 DEF VoteYes, VoteNo, VoteRaises, MayHaveVoted, NotifyAbort
  <2> QED
    BY <2>1 DEF Prepared, Aborted, Steady, TypeOK, Asked
<1>3. CASE \/ Calls(c) \/ VotesIn(c) \/ CommitsIn(c) \/ BeginAbort(c)
           \/ AbortDone(c) \/ Hang(c) \/ Crash(c)
  BY <1>3 DEF Calls, CallPrepare, CallCommit, CallAbort, CallRecover,
       VotesIn, CommitsIn, BeginAbort, AbortDone, Hang, Crash, Asked
<1> QED
  BY <1>1, <1>2, <1>3 DEF Acts, Work

(* Nobody is told to commit unless it is prepared.                         *)
THEOREM OnlyPreparedCommit ==
  Sole /\ Faithful => (Spec => CommitsOnlyPrepared)
<1> SUFFICES ASSUME Sole, Faithful PROVE Spec => CommitsOnlyPrepared
  OBVIOUS
<1>1. SteadySole /\ [Next]_vars => SteadySole'
  BY SteadySoleStep
<1>2. SteadySole /\ [Next]_vars => [Asked]_vars
  BY CallDisjuncts, AskedStep DEF SteadySole
<1> QED
  BY <1>1, <1>2, SteadySoleInit, PTL DEF Spec, CommitsOnlyPrepared, Asked

-----------------------------------------------------------------------------
(* What the document says at the end, also when documents are lost         *)

(* A transaction is not begun a second time over a document that a lost    *)
(* save left behind.                                                       *)
BegunOnce == Reuse => "put" \notin Faults

Voting(c) == pc[c] = "vote" => doc # "ABORTED"

Committed(c) ==
    pc[c] = "commit" => \A p \in P : p < idx[c] => part[p] = "committed"

Notified(c) ==
    pc[c] = "notify" => \A p \in P : p < idx[c] => part[p] # "prepared"

Told ==
    /\ TypeOK
    /\ \A c \in Coordinators : Voting(c) /\ Committed(c) /\ Notified(c)
    /\ DecisionReachesAll

LEMMA ToldStep ==
  ASSUME BegunOnce, "abortRaises" \notin Faults, Told,
         NEW c \in Coordinators, Acts(c), Alone(c)
  PROVE  Told'
<1> USE DEF Told, Voting, Committed, Notified, DecisionReachesAll
<1>1. TypeOK'
  BY TypeStep DEF Next, Acts
<1>2. \A d \in Coordinators : d # c => Voting(d)' /\ Committed(d)' /\ Notified(d)'
  BY CallFrame DEF Alone
<1> SUFFICES Voting(c)' /\ Committed(c)' /\ Notified(c)' /\ DecisionReachesAll'
  BY <1>1, <1>2
<1>3. CASE CallPrepare(c)
  <2>1. pc'[c] = "vote" /\ part' = part /\ doc' \in {doc, "PREPARING"}
    BY <1>3, Moved, Persisted DEF CallPrepare
  <2>2. doc' # "ABORTED"
    BY <1>3, Persisted DEF CallPrepare, BegunOnce
  <2> QED
    BY <2>1, <2>2
<1>4. CASE CallCommit(c)
  <2>1. CASE Return(c, "raised") /\ UNCHANGED <<doc, part>>
    BY <2>1, Returned
  <2>2. CASE Persist(c, "COMMITTING") /\ Goto(c, "commit", 1) /\ part' = part
    <3>1. /\ doc' \in {doc, "COMMITTING"} /\ part' = part
          /\ pc'[c] = "commit" /\ idx'[c] = 1
      BY <2>2, Moved, Persisted
    <3> QED
      BY <3>1 DEF P
  <2> QED
    BY <1>4, <2>1, <2>2 DEF CallCommit
<1>5. CASE CallAbort(c) \/ CallRecover(c) \/ Hang(c)
  <2>1. UNCHANGED <<doc, part>> /\ pc'[c] \in {"idle", "abort", "hung"}
    BY <1>5, Moved, Returned DEF CallAbort, CallRecover, Hang
  <2> QED
    BY <2>1
<1>6. CASE VoteYes(c) \/ VoteNo(c) \/ VoteRaises(c)
  <2>1. /\ pc[c] = "vote" /\ idx[c] \in P
        /\ part' \in {part, Prepared(idx[c]), Aborted(idx[c])}
    BY <1>6, AtParticipant DEF VoteYes, VoteNo, VoteRaises, MayHaveVoted
  <2>2. doc' \in {doc, "PREPARING"} /\ pc'[c] \in {"vote", "abort", "idle"}
    BY <1>6, Moved, Returned, Persisted DEF VoteYes, VoteNo, VoteRaises
  <2>3. \A p \in P : part[p] = "committed" => part'[p] = "committed"
    BY <2>1 DEF Prepared, Aborted, TypeOK
  <2> QED
    BY <2>1, <2>2, <2>3
<1>7. CASE VotesIn(c)
  <2>1. doc' \in {doc, "PREPARED"} /\ pc'[c] = "idle" /\ part' = part
    BY <1>7, Returned, Persisted DEF VotesIn
  <2> QED
    BY <2>1
<1>8. CASE CommitOne(c) \/ CommitOneFails(c)
  <2>1. /\ pc[c] = "commit" /\ doc' = doc
        /\ part' \in {part, [part EXCEPT ![idx[c]] = "committed"]}
    BY <1>8 DEF CommitOne, CommitOneFails
  <2>2. \A p \in P : part'[p] \in {part[p], "committed"}
    BY <2>1 DEF TypeOK
  <2>3. CASE CommitOne(c)
    <3>1. /\ pc'[c] = "commit" /\ idx'[c] = idx[c] + 1 /\ idx[c] \in Int
          /\ part \in [P -> States]
          /\ part' = [part EXCEPT ![idx[c]] = "committed"]
      BY <2>3, Moved, TypeParts DEF CommitOne
    <3>2. \A p \in P : p < idx[c] + 1 => part'[p] = "committed"
      BY <2>1, <3>1 DEF P
    <3> QED
      BY <2>1, <2>2, <3>1, <3>2
  <2>4. CASE CommitOneFails(c)
    <3>1. pc'[c] = "abort"
      BY <2>4, Moved DEF CommitOneFails
    <3> QED
      BY <2>1, <2>2, <3>1
  <2> QED
    BY <1>8, <2>3, <2>4
<1>9. CASE CommitsIn(c)
  <2>1. /\ pc[c] = "commit" /\ idx[c] = N + 1 /\ part' = part
        /\ doc' \in {doc, "COMMITTED"} /\ pc'[c] = "idle"
    BY <1>9, Returned, Persisted DEF CommitsIn, All
  <2> QED
    BY <2>1 DEF P
<1>10. CASE BeginAbort(c)
  <2>1. doc' \in {doc, "ABORTING"} /\ pc'[c] = "notify" /\ idx'[c] = 1 /\ part' = part
    BY <1>10, Moved, Persisted DEF BeginAbort
  <2> QED
    BY <2>1 DEF P
<1>11. CASE NotifyAbort(c)
  <2>1. /\ pc[c] = "notify" /\ doc' = doc /\ idx[c] \in P
        /\ pc'[c] = "notify" /\ idx'[c] = idx[c] + 1
        /\ part' = Aborted(idx[c])
    BY <1>11, Moved, AtParticipant DEF NotifyAbort
  <2>2. \A p \in P : /\ part[p] = "committed" => part'[p] = "committed"
                     /\ part[p] # "prepared" => part'[p] # "prepared"
                     /\ p = idx[c] => part'[p] # "prepared"
    BY <2>1 DEF Aborted, TypeOK
  <2>3. \A p \in P : p < idx[c] + 1 => p < idx[c] \/ p = idx[c]
    BY <2>1 DEF P
  <2> QED
    BY <2>1, <2>2, <2>3
<1>12. CASE AbortDone(c)
  <2>1. /\ pc[c] = "notify" /\ idx[c] = N + 1 /\ part' = part
        /\ doc' \in {doc, "ABORTED"} /\ pc'[c] = "idle"
    BY <1>12, Returned, Persisted DEF AbortDone, All
  <2> QED
    BY <2>1 DEF P
<1> QED
  BY <1>3, <1>4, <1>5, <1>6, <1>7, <1>8, <1>9, <1>10, <1>11, <1>12
     DEF Acts, Calls, Work

LEMMA ToldRest ==
  ASSUME Told, UNCHANGED vars \/ \E c \in Coordinators : Crash(c)
  PROVE  Told'
<1> USE DEF Told, Voting, Committed, Notified, DecisionReachesAll
<1>1. CASE UNCHANGED vars
  <2>1. TypeOK'
    BY <1>1, TypeStep
  <2> QED
    BY <1>1, <2>1 DEF vars
<1>2. ASSUME NEW c \in Coordinators, Crash(c)
      PROVE  Told'
  <2>1. TypeOK'
    BY <1>2, TypeStep DEF Next
  <2>2. UNCHANGED <<doc, part>> /\ pc'[c] = "idle"
    BY <1>2, CrashFrame
  <2>3. \A d \in Coordinators : d # c => pc'[d] = pc[d] /\ idx'[d] = idx[d]
    BY <1>2, CrashIndex, CallFrame
  <2>4. ASSUME NEW d \in Coordinators
        PROVE  Voting(d)' /\ Committed(d)' /\ Notified(d)'
    <3>1. CASE d = c
      BY <2>2, <3>1
    <3>2. CASE d # c
      BY <2>2, <2>3, <3>2
    <3> QED
      BY <3>1, <3>2
  <2> QED
    BY <2>1, <2>2, <2>4
<1> QED
  BY <1>1, <1>2

LEMMA ToldInit == Init => Told
<1> SUFFICES ASSUME Init PROVE Told
  OBVIOUS
<1>1. TypeOK
  BY TypeInit
<1> QED
  BY <1>1 DEF Init, Told, Voting, Committed, Notified, DecisionReachesAll

(* If every abort call takes effect, COMMITTED is written only after every *)
(* participant has committed, and ABORTED only when none is left prepared: *)
(* after crashes and failures of any call, whatever the participants       *)
(* answered and although documents were lost.  (That none has committed    *)
(* when ABORTED is written is AbortedIsRight, below.)                      *)
THEOREM DecisionIsComplete ==
  Sole /\ BegunOnce /\ "abortRaises" \notin Faults =>
    (Spec => []DecisionReachesAll)
<1> SUFFICES ASSUME Sole, BegunOnce, "abortRaises" \notin Faults
             PROVE  Spec => []DecisionReachesAll
  OBVIOUS
<1>1. Told /\ [Next]_vars => Told'
  BY CallDisjuncts, ToldStep, ToldRest, SoleProcess
<1>2. Told => DecisionReachesAll
  BY DEF Told
<1> QED
  BY <1>1, <1>2, ToldInit, PTL DEF Spec

-----------------------------------------------------------------------------
(* A decided transaction                                                   *)

Decided == doc \in {"COMMITTED", "ABORTED"}

(* A call that is under way is about what is not decided.                  *)
Undecided(c) == pc[c] \notin {"idle", "hung"} => ~Decided

(* A process that remembers anything of a decided transaction remembers    *)
(* the decision.                                                           *)
Informed(c) == Decided => cached[c] \in {"NONE", doc}

Stays == Decided => doc' \in {doc, "PREPARING"}

LEMMA UndecidedStep ==
  ASSUME BegunOnce, "get" \notin Faults, TypeOK,
         NEW c \in Coordinators, Acts(c), Alone(c),
         \A d \in Coordinators : Undecided(d),
         Informed(c) \/ CallRecover(c)
  PROVE  /\ \A d \in Coordinators : Undecided(d)'
         /\ Informed(c)'
         /\ Stays
<1> USE DEF Undecided, Informed, Decided, Stays
<1>1. \A d \in Coordinators : d # c => Undecided(d)'
  BY CallFrame DEF Alone
<1> SUFFICES Undecided(c)' /\ Informed(c)' /\ Stays
  BY <1>1
<1>2. CASE CallRecover(c)
  <2>1. doc' = doc /\ pc'[c] = "idle"
    BY <1>2, Returned DEF CallRecover
  <2>2. doc # "NONE" => cached'[c] = doc
    BY <1>2 DEF CallRecover, Outcomes, TypeOK
  <2> QED
    BY <2>1, <2>2
<1> SUFFICES ASSUME Informed(c)
             PROVE  Undecided(c)' /\ Informed(c)' /\ Stays
  BY <1>2
<1>5. CASE CallPrepare(c)
  <2>1. doc' \in {doc, "PREPARING"}
    BY <1>5, Persisted DEF CallPrepare
  <2>2. doc' = "PREPARING" \/ doc = "NONE"
    BY <1>5, Persisted DEF CallPrepare, BegunOnce
  <2> QED
    BY <2>1, <2>2
<1>3. CASE CallCommit(c)
  <2>1. CASE UNCHANGED <<doc, cached>> /\ Return(c, "raised")
    BY <2>1, Returned
  <2>2. CASE (\E start \in StartStates(c) : MayCommit(start)) /\ Persist(c, "COMMITTING")
    <3>1. ~Decided
      BY <2>2 DEF StartStates, MayCommit
    <3>2. doc' \in {doc, "COMMITTING"}
      BY <2>2, Persisted
    <3> QED
      BY <3>1, <3>2
  <2> QED
    BY <1>3, <2>1, <2>2 DEF CallCommit
<1>4. CASE CallAbort(c)
  <2>1. UNCHANGED <<doc, cached>>
    BY <1>4 DEF CallAbort
  <2>2. CASE \E start \in StartStates(c) : ~Terminal(start)
    <3>1. ~Decided
      BY <2>2 DEF StartStates, Terminal, Outcomes
    <3> QED
      BY <2>1, <3>1
  <2>3. CASE \E start \in StartStates(c) : Return(c, start)
    <3>1. pc'[c] = "idle"
      BY <2>3, Returned
    <3> QED
      BY <2>1, <3>1
  <2> QED
    BY <1>4, <2>2, <2>3 DEF CallAbort
<1>6. CASE Hang(c) \/ VoteRaises(c)
  <2>1. UNCHANGED <<doc, cached>> /\ pc'[c] \in {"idle", "hung"}
    BY <1>6, Moved, Returned DEF Hang, VoteRaises
  <2> QED
    BY <2>1
<1>7. CASE VoteYes(c) \/ CommitOne(c) \/ CommitOneFails(c) \/ NotifyAbort(c)
  <2>1. UNCHANGED <<doc, cached>> /\ pc[c] \notin {"idle", "hung"}
    BY <1>7 DEF VoteYes, CommitOne, CommitOneFails, NotifyAbort
  <2> QED
    BY <2>1
<1>8. CASE VoteNo(c) \/ BeginAbort(c)
  <2>1. pc[c] \notin {"idle", "hung"} /\ doc' \in {doc, "PREPARING", "ABORTING"}
    BY <1>8, Persisted DEF VoteNo, BeginAbort
  <2> QED
    BY <2>1
<1>9. CASE VotesIn(c) \/ CommitsIn(c) \/ AbortDone(c)
  <2>1. pc[c] \notin {"idle", "hung"} /\ pc'[c] = "idle"
    BY <1>9, Returned DEF VotesIn, CommitsIn, AbortDone
  <2>2. doc' \in {doc, cached'[c]}
    BY <1>9, Persisted DEF VotesIn, CommitsIn, AbortDone
  <2> QED
    BY <2>1, <2>2
<1> QED
  BY <1>2, <1>3, <1>4, <1>5, <1>6, <1>7, <1>8, <1>9 DEF Acts, Calls, Work

Settling == TypeOK /\ \A c \in Coordinators : Undecided(c) /\ Informed(c)

LEMMA SettlingStep ==
  ASSUME Sole, BegunOnce, "get" \notin Faults, Settling, [Next]_vars
  PROVE  Settling' /\ Stays
<1> USE DEF Settling
<1>1. TypeOK'
  BY TypeStep
<1>2. CASE UNCHANGED vars
  BY <1>1, <1>2 DEF vars, Undecided, Informed, Decided, Stays
<1>3. ASSUME NEW c \in Coordinators, Acts(c)
      PROVE  Settling' /\ Stays
  BY <1>1, <1>3, SoleProcess, UndecidedStep
<1>4. ASSUME NEW c \in Coordinators, Crash(c)
      PROVE  Settling' /\ Stays
  <2>1. UNCHANGED doc /\ pc'[c] = "idle" /\ cached'[c] = "NONE"
    BY <1>4, CrashFrame
  <2> QED
    BY <1>1, <2>1, SoleProcess DEF Undecided, Informed, Decided, Stays
<1> QED
  BY <1>2, <1>3, <1>4, CallDisjuncts

(* If the bucket answers every load, only a new prepare() moves a decided  *)
(* document on, although documents were lost on the way to the decision.   *)
THEOREM DecidedIsFinal ==
  Sole /\ BegunOnce /\ "get" \notin Faults => (Spec => TerminalIsFinal)
<1> SUFFICES ASSUME Sole, BegunOnce, "get" \notin Faults
             PROVE  Spec => TerminalIsFinal
  OBVIOUS
<1>1. Init => Settling
  BY TypeInit DEF Init, Settling, Undecided, Informed, Decided
<1>2. Settling /\ [Next]_vars => Settling'
  BY SettlingStep
<1>3. Settling /\ [Next]_vars =>
        [(doc \in {"COMMITTED", "ABORTED"}) => doc' \in {doc, "PREPARING"}]_vars
  BY SettlingStep DEF Stays, Decided
<1> QED
  BY <1>1, <1>2, <1>3, PTL DEF Spec, TerminalIsFinal

-----------------------------------------------------------------------------
(* What ABORTED says of the participants                                   *)

NoneCommitted == \A p \in P : part[p] # "committed"
AllCommitted == \A p \in P : part[p] = "committed"

(* A commit that is not broken off is seen in the document from its first  *)
(* save to its last: a participant is committed only in its course, and    *)
(* COMMITTING is there only as long as it goes on.                         *)
Recorded ==
    ~broken =>
      /\ \A c \in Coordinators : pc[c] = "commit" => doc = "COMMITTING"
      /\ doc = "COMMITTING" => \E c \in Coordinators : pc[c] = "commit"
      /\ NoneCommitted \/ doc \in {"COMMITTING", "COMMITTED"}

(* Outside a commit, a transaction under way has nothing committed.        *)
LEMMA NothingYet ==
  ASSUME Recorded, ~broken, NEW c \in Coordinators, Alone(c), pc[c] # "commit"
  PROVE  /\ doc # "COMMITTING"
         /\ ~Decided => NoneCommitted
BY DEF Recorded, Alone, Decided

LEMMA RecordedStep ==
  ASSUME ~Reuse, TypeOK, Recorded, NEW c \in Coordinators, Acts(c), Alone(c),
         \A d \in Coordinators : Undecided(d),
         Informed(c) \/ CallRecover(c)
  PROVE  Recorded'
<1> SUFFICES ASSUME ~broken'
             PROVE  Recorded'
  BY DEF Recorded
<1>0. ~broken
  BY HistoryStep DEF Next, Acts
<1>1. \A d \in Coordinators : d # c => pc'[d] = pc[d] /\ pc'[d] # "commit"
  BY CallFrame DEF Alone
<1>2. CASE CallRecover(c) \/ CallAbort(c) \/ Hang(c) \/ CallPrepare(c) \/ BeginAbort(c)
  <2>1. part' = part /\ pc'[c] # "commit" /\ pc[c] # "commit"
    <3>1. CASE CallRecover(c) \/ CallAbort(c) \/ CallPrepare(c) \/ BeginAbort(c)
      BY <3>1, Moved, Returned DEF CallRecover, CallAbort, CallPrepare, BeginAbort, Call
    <3>2. CASE Hang(c)
      BY <3>2, Moved DEF Hang, BrokenIf
    <3> QED
      BY <1>2, <3>1, <3>2
  <2>2. doc # "COMMITTING" /\ (~Decided => NoneCommitted)
    BY <1>0, <2>1, NothingYet
  <2>3. doc' = doc \/ (doc' \in {"PREPARING", "ABORTING"} /\ ~Decided)
    BY <1>2, Persisted DEF CallRecover, CallAbort, Hang, CallPrepare, BeginAbort,
       Undecided, Decided
  <2> QED
    BY <1>0, <1>1, <2>1, <2>2, <2>3 DEF Recorded, Decided, NoneCommitted
<1>3. CASE CallCommit(c) /\ Informed(c)
  <2>1. pc[c] # "commit" /\ part' = part
    BY <1>3 DEF CallCommit, Call
  <2>2. doc # "COMMITTING" /\ (~Decided => NoneCommitted)
    BY <1>0, <2>1, NothingYet
  <2>3. CASE Return(c, "raised") /\ UNCHANGED <<doc, cached>>
    <3>1. pc'[c] = "idle"
      BY <2>3, Returned
    <3> QED
      BY <1>0, <1>1, <2>1, <2>2, <2>3, <3>1 DEF Recorded, Decided, NoneCommitted
  <2>4. CASE /\ \E start \in StartStates(c) : MayCommit(start)
             /\ BrokenIf(doc' # "COMMITTING") /\ Goto(c, "commit", 1)
    <3>1. ~Decided
      BY <1>3, <2>4 DEF StartStates, MayCommit, Informed, Decided
    <3>2. doc' = "COMMITTING" /\ pc'[c] = "commit"
      BY <2>4, Moved DEF BrokenIf
    <3> QED
      BY <1>1, <2>1, <2>2, <3>1, <3>2 DEF Recorded, NoneCommitted
  <2> QED
    BY <1>3, <2>3, <2>4 DEF CallCommit
<1>4. CASE VoteYes(c) \/ VoteNo(c) \/ VoteRaises(c) \/ NotifyAbort(c)
  <2>1. /\ pc[c] \in {"vote", "notify"} /\ pc'[c] # "commit" /\ idx[c] \in P
        /\ part' \in {part, Prepared(idx[c]), Aborted(idx[c])}
        /\ doc' \in {doc, "PREPARING"}
    BY <1>4, Moved, Returned, Persisted, AtParticipant
       DEF VoteYes, VoteNo, VoteRaises, NotifyAbort, MayHaveVoted
  <2>2. doc # "COMMITTING" /\ NoneCommitted
    BY <1>0, <2>1, NothingYet DEF Undecided
  <2>3. NoneCommitted'
    BY <2>1, <2>2 DEF NoneCommitted, Prepared, Aborted, TypeOK
  <2> QED
    BY <1>1, <2>1, <2>2, <2>3 DEF Recorded
<1>5. CASE VotesIn(c) \/ AbortDone(c)
  <2>1. /\ pc[c] \in {"vote", "notify"} /\ pc'[c] = "idle" /\ part' = part
        /\ doc' \in {doc, "PREPARED", "ABORTED"}
    BY <1>5, Returned, Persisted DEF VotesIn, AbortDone
  <2>2. doc # "COMMITTING" /\ NoneCommitted
    BY <1>0, <2>1, NothingYet DEF Undecided
  <2> QED
    BY <1>1, <2>1, <2>2 DEF Recorded, NoneCommitted
<1>6. CASE CommitOne(c)
  <2>1. pc[c] = "commit" /\ pc'[c] = "commit" /\ doc' = doc
    BY <1>6, Moved DEF CommitOne
  <2>2. doc = "COMMITTING"
    BY <1>0, <2>1 DEF Recorded
  <2> QED
    BY <1>1, <2>1, <2>2 DEF Recorded
<1>7. CASE CommitsIn(c)
  <2>1. doc' = "COMMITTED" /\ pc'[c] = "idle"
    BY <1>7, Returned DEF CommitsIn, BrokenIf
  <2> QED
    BY <1>1, <2>1 DEF Recorded
<1>8. ~CommitOneFails(c)
  BY DEF CommitOneFails, BrokenIf
<1> QED
  BY <1>2, <1>3, <1>4, <1>5, <1>6, <1>7, <1>8 DEF Acts, Calls, Work

LEMMA RecordedRest ==
  ASSUME TypeOK, Recorded, UNCHANGED vars \/ \E c \in Coordinators : Crash(c)
  PROVE  Recorded'
<1>1. CASE UNCHANGED vars
  BY <1>1 DEF vars, Recorded, NoneCommitted
<1>2. ASSUME NEW c \in Coordinators, Crash(c)
      PROVE  Recorded'
  <2>1. UNCHANGED <<doc, part>> /\ pc'[c] = "idle"
    BY <1>2, CrashFrame
  <2>2. \A d \in Coordinators : d # c => pc'[d] = pc[d]
    BY <1>2, CallFrame
  <2>3. ~broken' => ~broken /\ pc[c] # "commit"
    BY <1>2 DEF Crash, BrokenIf
  <2>4. ~broken' => \A d \in Coordinators : pc'[d] = "commit" <=> pc[d] = "commit"
    BY <2>1, <2>2, <2>3
  <2> QED
    BY <2>1, <2>3, <2>4 DEF Recorded, NoneCommitted
<1> QED
  BY <1>1, <1>2

LEMMA RecordedInit == Init => Recorded
BY DEF Init, Recorded, NoneCommitted

LEMMA RecordedIsRight == Recorded => AbortedMeansNone
BY DEF Recorded, AbortedMeansNone, NoneCommitted

(* If the transaction is prepared once and every load is answered, ABORTED *)
(* in the document means that no participant has committed, unless a       *)
(* commit was broken off or what it saved was lost: whatever the votes,    *)
(* whatever else was lost, and after any crashes and recoveries.           *)
THEOREM AbortedIsRight ==
  Sole /\ ~Reuse /\ "get" \notin Faults => (Spec => []AbortedMeansNone)
<1> SUFFICES ASSUME Sole, ~Reuse, "get" \notin Faults
             PROVE  Spec => []AbortedMeansNone
  OBVIOUS
<1> DEFINE Inv == Settling /\ Recorded
<1>1. Init => Inv
  BY TypeInit, RecordedInit DEF Init, Settling, Undecided, Informed, Decided
<1>2. Inv /\ [Next]_vars => Inv'
  <2> SUFFICES ASSUME Inv, [Next]_vars PROVE Inv'
    OBVIOUS
  <2>1. Settling'
    BY SettlingStep DEF BegunOnce
  <2>2. Recorded'
    BY CallDisjuncts, RecordedStep, RecordedRest, SoleProcess DEF Settling
  <2> QED
    BY <2>1, <2>2
<1>3. Inv => AbortedMeansNone
  BY RecordedIsRight
<1> HIDE DEF Inv
<1> QED
  BY <1>1, <1>2, <1>3, PTL DEF Spec

-----------------------------------------------------------------------------
(* Atomicity                                                               *)

(* Unless one was broken off, participants are committed one by one only   *)
(* in a commit that is going on, and then every one of them is prepared.   *)
Whole ==
    ~broken =>
      \/ NoneCommitted
      \/ AllCommitted
      \/ /\ \A p \in P : Ready(p)
         /\ \E c \in Coordinators : pc[c] = "commit"

LEMMA WholeOutside ==
  ASSUME Whole, ~broken, NEW c \in Coordinators, Alone(c), pc[c] # "commit"
  PROVE  NoneCommitted \/ AllCommitted
BY DEF Whole, Alone

(* A vote or an abort makes nothing committed and takes no commit back.    *)
LEMMA VotesKeep ==
  ASSUME TypeOK, NEW p \in P, NoneCommitted \/ AllCommitted,
         part' \in {part, Prepared(p), Aborted(p)}
  PROVE  (NoneCommitted \/ AllCommitted)'
BY DEF TypeOK, NoneCommitted, AllCommitted, Prepared, Aborted

LEMMA WholeStep ==
  ASSUME Steady, Whole, NEW c \in Coordinators, Acts(c), Alone(c)
  PROVE  Whole'
<1> SUFFICES ASSUME ~broken'
             PROVE  Whole'
  BY DEF Whole
<1>0. TypeOK /\ ~broken
  BY HistoryStep DEF Steady, Next, Acts
<1>1. CASE Calls(c) \/ VotesIn(c) \/ BeginAbort(c) \/ AbortDone(c) \/ Hang(c)
  <2>1. part' = part /\ pc[c] # "commit"
    BY <1>1 DEF Calls, Call, CallPrepare, CallCommit, CallAbort, CallRecover,
         VotesIn, BeginAbort, AbortDone, Hang, BrokenIf
  <2> QED
    BY <1>0, <2>1, WholeOutside DEF Whole, NoneCommitted, AllCommitted
<1>2. CASE VoteYes(c) \/ VoteNo(c) \/ VoteRaises(c) \/ NotifyAbort(c)
  <2>1. /\ pc[c] # "commit" /\ idx[c] \in P
        /\ part' \in {part, Prepared(idx[c]), Aborted(idx[c])}
    BY <1>0, <1>2, AtParticipant
       DEF VoteYes, VoteNo, VoteRaises, NotifyAbort, MayHaveVoted
  <2> QED
    BY <1>0, <2>1, WholeOutside, VotesKeep DEF Whole
<1>3. CASE CommitOne(c)
  <2>1. /\ pc[c] = "commit" /\ pc'[c] = "commit"
        /\ part' = [part EXCEPT ![idx[c]] = "committed"]
    BY <1>0, <1>3, Moved DEF CommitOne
  <2>2. \A p \in P : Ready(p)
    BY <2>1 DEF Steady, AtCommit
  <2>3. \A p \in P : Ready(p)'
    BY <1>0, <2>1, <2>2 DEF Ready, TypeOK
  <2> QED
    BY <2>1, <2>3 DEF Whole
<1>4. CASE CommitsIn(c)
  <2>1. pc[c] = "commit" /\ idx[c] = N + 1 /\ part' = part
    BY <1>4 DEF CommitsIn, All
  <2>2. \A p \in P : part[p] = "committed"
    BY <2>1 DEF Steady, AtCommit, P
  <2> QED
    BY <2>1, <2>2 DEF Whole, AllCommitted
<1>5. ~CommitOneFails(c)
  BY DEF CommitOneFails, BrokenIf
<1> QED
  BY <1>1, <1>2, <1>3, <1>4, <1>5 DEF Acts, Work

LEMMA WholeRest ==
  ASSUME TypeOK, Whole, UNCHANGED vars \/ \E c \in Coordinators : Crash(c)
  PROVE  Whole'
<1>1. CASE UNCHANGED vars
  BY <1>1 DEF vars, Whole, NoneCommitted, AllCommitted, Ready
<1>2. ASSUME NEW c \in Coordinators, Crash(c)
      PROVE  Whole'
  <2>1. UNCHANGED <<doc, part>>
    BY <1>2, CrashFrame
  <2>2. \A d \in Coordinators : d # c => pc'[d] = pc[d]
    BY <1>2, CallFrame
  <2>3. ~broken' => ~broken /\ pc[c] # "commit"
    BY <1>2 DEF Crash, BrokenIf
  <2> QED
    BY <2>1, <2>2, <2>3 DEF Whole, NoneCommitted, AllCommitted, Ready
<1> QED
  BY <1>1, <1>2

LEMMA WholeIsAtomic == Whole => AtomicUnlessBroken
BY DEF Whole, AtomicUnlessBroken, Atomic, NoneCommitted, AllCommitted, Ready

LEMMA WholeInit == Init => Whole
BY DEF Init, Whole, NoneCommitted

LEMMA WholeSoleStep ==
  ASSUME Sole, SteadySole, Whole, [Next]_vars
  PROVE  Whole'
BY CallDisjuncts, SoleProcess, WholeStep, WholeRest DEF SteadySole, Steady

(* Only a commit that was broken off, by a call of it that failed, by the  *)
(* death of the process or by a participant that holds it for ever, leaves *)
(* a participant committed while another is aborted: however late, refused *)
(* or raising the votes and the aborts, after crashes and recoveries       *)
(* elsewhere, and if prepare() is called again.                            *)
THEOREM CommitIsAtomic == Sole /\ Faithful => (Spec => []AtomicUnlessBroken)
<1> SUFFICES ASSUME Sole, Faithful PROVE Spec => []AtomicUnlessBroken
  OBVIOUS
<1> DEFINE Inv == SteadySole /\ Whole
<1>1. Init => Inv
  BY SteadySoleInit, WholeInit
<1>2. Inv /\ [Next]_vars => Inv'
  BY SteadySoleStep, WholeSoleStep
<1>3. Inv => AtomicUnlessBroken
  BY WholeIsAtomic
<1> HIDE DEF Inv
<1> QED
  BY <1>1, <1>2, <1>3, PTL DEF Spec

-----------------------------------------------------------------------------
(* The refinement of AtomicCommit                                          *)

(* A step of the abstract commitment as far as the participants go.        *)
Lawful ==
    \/ part' = part
    \/ \E p \in P : Abstract!Prepare(p) \/ Abstract!GiveUp(p) \/ Abstract!Commit(p)

(* A prepare or an abort call prepares, gives up, or changes nothing.      *)
LEMMA VoteIsLawful ==
  ASSUME TypeOK, NEW p \in P, NoneCommitted \/ AllCommitted,
         part' \in {part, Prepared(p), Aborted(p)}
  PROVE  Lawful
<1>1. CASE part[p] = "committed"
  <2>1. part' = part
    BY <1>1 DEF Prepared, Aborted, TypeOK
  <2> QED
    BY <2>1 DEF Lawful
<1>2. CASE part[p] # "committed"
  <2>1. \A q \in P : part[q] # "committed"
    BY <1>2 DEF NoneCommitted, AllCommitted
  <2>2. /\ part[p] \in {"idle", "prepared", "aborted"}
        /\ \/ part' = part
           \/ part' = [part EXCEPT ![p] = "prepared"]
           \/ part' = [part EXCEPT ![p] = "aborted"]
    BY <1>2 DEF Prepared, Aborted, TypeOK
  <2>3. CASE part' = [part EXCEPT ![p] = "prepared"]
    <3>1. part' = part \/ Abstract!Prepare(p)
      BY <2>1, <2>2, <2>3 DEF Abstract!Prepare, TypeOK
    <3> QED
      BY <3>1 DEF Lawful
  <2>4. CASE part' = [part EXCEPT ![p] = "aborted"]
    <3>1. part' = part \/ Abstract!GiveUp(p)
      BY <2>1, <2>2, <2>4 DEF Abstract!GiveUp, TypeOK
    <3> QED
      BY <3>1 DEF Lawful
  <2> QED
    BY <2>2, <2>3, <2>4 DEF Lawful
<1> QED
  BY <1>1, <1>2

LEMMA LawfulStep ==
  ASSUME Steady, Whole, ~broken', NEW c \in Coordinators, Acts(c), Alone(c)
  PROVE  Lawful
<1>0. TypeOK /\ ~broken
  BY HistoryStep DEF Steady, Next, Acts
<1>1. CASE \/ Calls(c) \/ VotesIn(c) \/ CommitsIn(c) \/ BeginAbort(c)
           \/ AbortDone(c) \/ Hang(c)
  BY <1>1 DEF Calls, CallPrepare, CallCommit, CallAbort, CallRecover, VotesIn,
     CommitsIn, BeginAbort, AbortDone, Hang, Lawful
<1>2. CASE VoteYes(c) \/ VoteNo(c) \/ VoteRaises(c) \/ NotifyAbort(c)
  <2>1. /\ pc[c] # "commit" /\ idx[c] \in P
        /\ part' \in {part, Prepared(idx[c]), Aborted(idx[c])}
    BY <1>0, <1>2, AtParticipant
       DEF VoteYes, VoteNo, VoteRaises, NotifyAbort, MayHaveVoted
  <2> QED
    BY <1>0, <2>1, WholeOutside, VoteIsLawful
<1>3. CASE CommitOne(c)
  <2>1. /\ pc[c] = "commit" /\ idx[c] \in P
        /\ part' = [part EXCEPT ![idx[c]] = "committed"]
    BY <1>0, <1>3, AtParticipant DEF CommitOne
  <2>2. \A p \in P : part[p] \in {"prepared", "committed"}
    BY <2>1 DEF Steady, AtCommit, Ready
  <2>3. part' = part \/ Abstract!Commit(idx[c])
    BY <1>0, <2>1, <2>2 DEF Abstract!Commit, TypeOK
  <2> QED
    BY <2>1, <2>3 DEF Lawful
<1>4. ~CommitOneFails(c)
  BY DEF CommitOneFails, BrokenIf
<1> QED
  BY <1>1, <1>2, <1>3, <1>4 DEF Acts, Work

LEMMA AbstractStep ==
  ASSUME Sole, SteadySole, Whole, [Next]_vars
  PROVE  [Abstract!Next]_<<part, broken>>
<1>1. CASE broken'
  <2>1. part' \in [P -> States] /\ broken' = TRUE
    BY <1>1, StepTypes DEF SteadySole, Steady
  <2> QED
    BY <2>1 DEF Abstract!Next, Abstract!Break, States
<1>2. CASE ~broken'
  <2>1. ~broken /\ broken' = broken
    BY <1>2, HistoryStep, HistoryTypes DEF SteadySole, Steady, TypeOK
  <2>2. Lawful
    <3>1. CASE UNCHANGED vars
      BY <3>1 DEF vars, Lawful
    <3>2. ASSUME NEW c \in Coordinators, Acts(c)
          PROVE  Lawful
      BY <1>2, <3>2, SoleProcess, LawfulStep DEF SteadySole
    <3>3. ASSUME NEW c \in Coordinators, Crash(c)
          PROVE  Lawful
      BY <3>3 DEF Crash, Lawful
    <3> QED
      BY <3>1, <3>2, <3>3, CallDisjuncts
  <2> QED
    BY <2>1, <2>2 DEF Lawful, Abstract!Next, Abstract!Keep
<1> QED
  BY <1>1, <1>2

(* Under the same conditions the coordinator implements the abstract       *)
(* atomic commitment: participants give up only before any has committed,  *)
(* and commit only when all have prepared.                                 *)
THEOREM CoordinatorImplementsAtomicCommit ==
  Sole /\ Faithful => (Spec => ImplementsAtomicCommit)
<1> SUFFICES ASSUME Sole, Faithful
             PROVE  Spec => ImplementsAtomicCommit
  OBVIOUS
<1> DEFINE Inv == SteadySole /\ Whole
<1>1. Init => Inv
  BY SteadySoleInit, WholeInit
<1>2. Inv /\ [Next]_vars => Inv' /\ [Abstract!Next]_<<part, broken>>
  BY SteadySoleStep, WholeSoleStep, AbstractStep
<1>3. Init => Abstract!Init
  BY DEF Init, Abstract!Init
<1> HIDE DEF Inv
<1> QED
  BY <1>1, <1>2, <1>3, PTL DEF Spec, ImplementsAtomicCommit, Abstract!Spec

(* What the abstract specification promises, and with it whoever           *)
(* implements it: participants only ever prepare, give up or commit on     *)
(* their own, and yet, until a commit is broken off, no one is committed   *)
(* while another has given up.                                             *)
THEOREM AtomicCommitIsAtomic == Abstract!Spec => []AtomicUnlessBroken
<1> DEFINE Inv == part \in [P -> States] /\ AtomicUnlessBroken
<1>1. Abstract!Init => Inv
  BY DEF Abstract!Init, AtomicUnlessBroken, Atomic, States
<1>2. Inv /\ [Abstract!Next]_<<part, broken>> => Inv'
  <2> SUFFICES ASSUME Inv, [Abstract!Next]_<<part, broken>>
               PROVE  Inv'
    OBVIOUS
  <2>1. CASE UNCHANGED <<part, broken>>
    BY <2>1 DEF AtomicUnlessBroken, Atomic
  <2>2. CASE Abstract!Break
    BY <2>2 DEF Abstract!Break, AtomicUnlessBroken, States
  <2>3. ASSUME Abstract!Keep, NEW p \in P,
               Abstract!Prepare(p) \/ Abstract!GiveUp(p) \/ Abstract!Commit(p)
        PROVE  Inv'
    BY <2>3 DEF AtomicUnlessBroken, Atomic, States, Abstract!Keep,
       Abstract!Prepare, Abstract!GiveUp, Abstract!Commit
  <2> QED
    BY <2>1, <2>2, <2>3 DEF Abstract!Next
<1>3. Inv => AtomicUnlessBroken
  OBVIOUS
<1> HIDE DEF Inv
<1> QED
  BY <1>1, <1>2, <1>3, PTL DEF Abstract!Spec

=============================================================================
