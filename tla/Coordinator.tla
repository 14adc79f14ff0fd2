---------------------------- MODULE Coordinator ----------------------------
(***************************************************************************)
(* The two-phase commit of src/iceguard/coordinator.py.  Coordinator       *)
(* objects, one per process of `Coordinators', drive the participants of   *)
(* one transaction id and persist its status as a document in the          *)
(* checkpoint bucket, which a later object can recover.  A client calls    *)
(* prepare, commit, abort and recover; a process may crash between any two *)
(* steps; a save that fails is logged and forgotten (fail_open), a load    *)
(* that fails looks like no document.                                      *)
(*                                                                         *)
(* Of the document only the status is ever acted upon: votes and phase     *)
(* flags are written, never read.  A participant is the state of its data; *)
(* once its data is committed no abort takes it back.  Both phases wait    *)
(* for the worker thread of a call even when its result timed out (the     *)
(* `with' block of the executor), so a call that times out has ended, and  *)
(* one that never ends holds the coordinator for ever.                     *)
(***************************************************************************)
EXTENDS Integers

CONSTANTS
    N,             \* the participants are 1..N, in this order
    Coordinators,  \* processes that hold a Coordinator of this transaction
    MaxCalls,      \* bound: calls of the clients
    Reuse,         \* prepare() may be called on a transaction begun before
    Faults         \* what may go wrong, see FaultKinds

FaultKinds ==
    {"crash",         \* a coordinator process dies
     "put",           \* saving the document fails
     "get",           \* loading the document fails
     "slowVote",      \* a prepare call ends after the timeout
     "voteRaises",    \* a prepare call raises, whatever it has done
     "garble",        \* a participant that did not prepare answers neither
                      \* YES nor NO
     "slowCommit",    \* a commit call ends after the timeout
     "commitRaises",  \* a commit call raises without effect
     "commitBreaks",  \* a commit call raises after it took effect
     "abortRaises",   \* an abort call raises without effect
     "hang"}          \* a prepare, commit or abort call never ends

ASSUME CoordinatorAssumption ==
    /\ N \in Nat \ {0}
    /\ MaxCalls \in Nat
    /\ Reuse \in BOOLEAN
    /\ Faults \subseteq FaultKinds

P == 1..N

VARIABLES
    doc,     \* status in the persisted document, "NONE" if there is none
    part,    \* the state of every participant
    cached,  \* status of _state in each process, "NONE" if not set
    pc,      \* where each process is
    idx,     \* the participant each process is at
    reply,   \* what the call in progress will return, or has returned
    calls,   \* calls made so far
    broken   \* history: a commit that had begun was broken off, or a status
             \* it saved was lost

vars == <<doc, part, cached, pc, idx, reply, calls, broken>>

Statuses == {"INITIATED", "PREPARING", "PREPARED", "COMMITTING", "COMMITTED",
             "ABORTING", "ABORTED"}

TypeOK ==
    /\ doc \in Statuses \cup {"NONE"}
    /\ part \in [P -> {"idle", "prepared", "committed", "aborted"}]
    /\ cached \in [Coordinators -> Statuses \cup {"NONE"}]
    /\ pc \in [Coordinators -> {"idle", "vote", "abort", "notify", "commit", "hung"}]
    /\ idx \in [Coordinators -> 1..(N + 1)]
    /\ reply \in [Coordinators -> Statuses \cup {"none", "raised"}]
    /\ calls \in 0..MaxCalls
    /\ broken \in BOOLEAN

Init ==
    /\ doc = "NONE"
    /\ part = [p \in P |-> "idle"]
    /\ cached = [c \in Coordinators |-> "NONE"]
    /\ pc = [c \in Coordinators |-> "idle"]
    /\ idx = [c \in Coordinators |-> 1]
    /\ reply = [c \in Coordinators |-> "none"]
    /\ calls = 0
    /\ broken = FALSE

Outcomes(fault) == {TRUE} \cup (IF fault \in Faults THEN {FALSE} ELSE {})

(* _persist: the document, unless S3 fails, and the cached state.          *)
Persist(c, status) ==
    /\ \E ok \in Outcomes("put") : doc' = IF ok THEN status ELSE doc
    /\ cached' = [cached EXCEPT ![c] = status]

(* mutant: the loop over the participants does not move on *)
GotoStuck(c, label, i) == pc' = [pc EXCEPT ![c] = label] /\ idx' = idx

Goto(c, label, i) ==
    /\ pc' = [pc EXCEPT ![c] = label]
    /\ idx' = [idx EXCEPT ![c] = i]

(* What the history remembers of a step of a commit.                       *)
BrokenIf(condition) == broken' = (broken \/ condition)

Reply(c, value) == reply' = [reply EXCEPT ![c] = value]

Return(c, value) == Goto(c, "idle", 1) /\ Reply(c, value)

(* mutant: one participant too many *)
MorePast(c) == idx[c] <= N + 1

(* The loops over the participants: one more to call, or all called.       *)
More(c) == idx[c] <= N

(* mutant: one participant too few *)
AllButOne(c) == idx[c] = N

All(c) == idx[c] = N + 1

(* mutant: a commit may begin while votes are still out *)
MayCommitEarly(status) == status \in {"PREPARING", "PREPARED"}

MayCommit(status) == status = "PREPARED"

(* mutant: an abort after the commit is not refused *)
OnlyAborted(status) == status = "ABORTED"

Terminal(status) == status \in {"ABORTED", "COMMITTED"}

(* The status commit() and abort() start from: the cached state, else the  *)
(* document, else a new state.                                             *)
StartStates(c) ==
    IF cached[c] # "NONE" THEN {cached[c]}
    ELSE {IF ok /\ doc # "NONE" THEN doc ELSE "INITIATED" : ok \in Outcomes("get")}

-----------------------------------------------------------------------------
(* Calls of the client                                                     *)

Call(c) ==
    /\ pc[c] = "idle"
    /\ calls < MaxCalls
    /\ calls' = calls + 1

(* prepare() loads the document and then overwrites its status, so what it *)
(* loaded makes no difference.                                             *)
CallPrepare(c) ==
    /\ Call(c)
    /\ Reuse \/ (doc = "NONE" /\ \A d \in Coordinators : cached[d] = "NONE")
    /\ Persist(c, "PREPARING")
    /\ Goto(c, "vote", 1)
    /\ Reply(c, "none")
    /\ UNCHANGED <<part, broken>>

CallCommit(c) ==
    /\ Call(c)
    /\ \E start \in StartStates(c) :
         \/ /\ ~MayCommit(start)
            /\ Return(c, "raised")
            /\ UNCHANGED <<doc, cached, broken>>
         \/ /\ MayCommit(start)
            /\ Persist(c, "COMMITTING")
            /\ BrokenIf(doc' # "COMMITTING")
            /\ Goto(c, "commit", 1)
            /\ Reply(c, "none")
    /\ UNCHANGED part

CallAbort(c) ==
    /\ Call(c)
    /\ \E start \in StartStates(c) :
         \/ /\ Terminal(start)
            /\ Return(c, start)
            /\ UNCHANGED <<doc, cached>>
         \/ /\ ~Terminal(start)
            /\ Goto(c, "abort", 1)
            /\ Reply(c, "ABORTED")
            /\ UNCHANGED <<doc, cached>>
    /\ UNCHANGED <<part, broken>>

CallRecover(c) ==
    /\ Call(c)
    /\ \E ok \in Outcomes("get") :
         IF ok /\ doc # "NONE"
         THEN cached' = [cached EXCEPT ![c] = doc] /\ Return(c, doc)
         ELSE UNCHANGED cached /\ Return(c, "raised")
    /\ UNCHANGED <<doc, part, broken>>

-----------------------------------------------------------------------------
(* Phase 1                                                                 *)

(* Preparing again does not take a commit back.                            *)
Prepared(p) ==
    [part EXCEPT ![p] = IF @ = "committed" THEN "committed" ELSE "prepared"]

Aborted(p) ==
    [part EXCEPT ![p] = IF @ = "committed" THEN "committed" ELSE "aborted"]

(* A prepare call that raises, or is too late, may have done anything.     *)
MayHaveVoted(p) == part' \in {part, Prepared(p), Aborted(p)}

(* The reply of a participant that did not prepare is taken for a YES      *)
(* unless it is a NO.                                                      *)
VoteYes(c) ==
    /\ pc[c] = "vote"
    /\ More(c)
    /\ \/ part' = Prepared(idx[c])
       \/ "garble" \in Faults /\ part' = part
    /\ Goto(c, "vote", idx[c] + 1)
    /\ UNCHANGED <<doc, cached, reply, calls, broken>>

(* A NO, or an answer too late: persist what is known and abort.           *)
VoteNo(c) ==
    /\ pc[c] = "vote"
    /\ More(c)
    /\ \/ part' = Aborted(idx[c]) /\ Reply(c, "ABORTED")
       \/ /\ "slowVote" \in Faults
          /\ MayHaveVoted(idx[c])
          /\ Reply(c, "raised")
    /\ Persist(c, "PREPARING")
    /\ Goto(c, "abort", 1)
    /\ UNCHANGED <<calls, broken>>

(* Any other exception of a prepare call leaves prepare() at once.         *)
VoteRaises(c) ==
    /\ pc[c] = "vote"
    /\ More(c)
    /\ "voteRaises" \in Faults
    /\ MayHaveVoted(idx[c])
    /\ Return(c, "raised")
    /\ UNCHANGED <<doc, cached, calls, broken>>

VotesIn(c) ==
    /\ pc[c] = "vote"
    /\ All(c)
    /\ Persist(c, "PREPARED")
    /\ Return(c, "PREPARED")
    /\ UNCHANGED <<part, calls, broken>>

-----------------------------------------------------------------------------
(* Phase 2                                                                 *)

(* A participant without a commit method has nothing left to do: it counts *)
(* as committed when its turn comes.                                       *)
CommitOne(c) ==
    /\ pc[c] = "commit"
    /\ More(c)
    /\ part' = [part EXCEPT ![idx[c]] = "committed"]
    /\ Goto(c, "commit", idx[c] + 1)
    /\ UNCHANGED <<doc, cached, reply, calls, broken>>

(* A commit call raises, or ends too late but does end: abort and raise.   *)
CommitOneFails(c) ==
    /\ pc[c] = "commit"
    /\ More(c)
    /\ \/ {"commitRaises", "slowCommit"} \cap Faults # {} /\ part' = part
       \/ /\ {"commitBreaks", "slowCommit"} \cap Faults # {}
          /\ part' = [part EXCEPT ![idx[c]] = "committed"]
    /\ Goto(c, "abort", 1)
    /\ Reply(c, "raised")
    /\ BrokenIf(TRUE)
    /\ UNCHANGED <<doc, cached, calls>>

CommitsIn(c) ==
    /\ pc[c] = "commit"
    /\ All(c)
    /\ Persist(c, "COMMITTED")
    /\ BrokenIf(doc' # "COMMITTED")
    /\ Return(c, "COMMITTED")
    /\ UNCHANGED <<part, calls>>

-----------------------------------------------------------------------------
(* Abort: _finalize_abort() and abort()                                    *)

BeginAbort(c) ==
    /\ pc[c] = "abort"
    /\ Persist(c, "ABORTING")
    /\ Goto(c, "notify", 1)
    /\ UNCHANGED <<part, reply, calls, broken>>

(* Each participant is told; one that raises is passed over.               *)
NotifyAbort(c) ==
    /\ pc[c] = "notify"
    /\ More(c)
    /\ \/ part' = Aborted(idx[c])
       \/ "abortRaises" \in Faults /\ part' = part
    /\ Goto(c, "notify", idx[c] + 1)
    /\ UNCHANGED <<doc, cached, reply, calls, broken>>

AbortDone(c) ==
    /\ pc[c] = "notify"
    /\ All(c)
    /\ Persist(c, "ABORTED")
    /\ Return(c, reply[c])
    /\ UNCHANGED <<part, calls, broken>>

-----------------------------------------------------------------------------
(* A participant that never ends its call, and the death of a process      *)

Hang(c) ==
    /\ "hang" \in Faults
    /\ pc[c] \in {"vote", "commit", "notify"}
    /\ More(c)
    /\ Goto(c, "hung", 1)
    /\ BrokenIf(pc[c] = "commit")
    /\ UNCHANGED <<doc, part, cached, reply, calls>>

Crash(c) ==
    /\ "crash" \in Faults
    /\ cached' = [cached EXCEPT ![c] = "NONE"]
    /\ Return(c, "none")
    /\ BrokenIf(pc[c] = "commit")
    /\ UNCHANGED <<doc, part, calls>>

Work(c) ==
    \/ VoteYes(c) \/ VoteNo(c) \/ VoteRaises(c) \/ VotesIn(c)
    \/ CommitOne(c) \/ CommitOneFails(c) \/ CommitsIn(c)
    \/ BeginAbort(c) \/ NotifyAbort(c) \/ AbortDone(c)

Calls(c) == CallPrepare(c) \/ CallCommit(c) \/ CallAbort(c) \/ CallRecover(c)

Next == \E c \in Coordinators : Calls(c) \/ Work(c) \/ Hang(c) \/ Crash(c)

Spec == Init /\ [][Next]_vars

(* A coordinator that is in a call keeps running.                          *)
FairSpec == Spec /\ \A c \in Coordinators : WF_vars(Work(c))

-----------------------------------------------------------------------------
(* Properties                                                              *)

(* Atomicity, docs/TUTORIAL.md: no participant's data is committed while   *)
(* another's is aborted.  The code does not ensure it once a commit has    *)
(* begun: what fails then is not tried again.                              *)
Atomic == \A p, q \in P : ~(part[p] = "committed" /\ part[q] = "aborted")

(* Late, refused and raising votes, failed aborts, a participant that      *)
(* never answers, crashes, recoveries, unanswered loads and a second       *)
(* prepare() do not split the participants: only a commit broken off does. *)
AtomicUnlessBroken == ~broken => Atomic

(* A participant is told to commit only while it is prepared: not before   *)
(* it voted and not after an abort reached it, also across a crash, a      *)
(* recovery by another call and a commit that failed half way.             *)
CommitsOnlyPrepared ==
    [][\A p \in P : part[p] # "committed" /\ part'[p] = "committed" =>
                      part[p] = "prepared"]_vars

(* A decided document is no promise still to be kept: COMMITTED is written *)
(* after every participant has committed, and ABORTED after every one has  *)
(* been told, so that none is left prepared.  One that committed before    *)
(* the abort of a commit that failed stays committed.                      *)
DecisionReachesAll ==
    /\ doc = "COMMITTED" => \A p \in P : part[p] = "committed"
    /\ doc = "ABORTED" => \A p \in P : part[p] # "prepared"

(* ABORTED says that nothing of the transaction was committed, unless a    *)
(* commit was broken off: no abort, crash, recovery or lost save of phase  *)
(* 1 ends a commit as aborted.  Not so if prepare() is called once more on *)
(* a transaction that has committed, which the code does not refuse.       *)
AbortedMeansNone ==
    ~broken /\ doc = "ABORTED" => \A p \in P : part[p] # "committed"

(* COMMITTED and ABORTED are final: no crash, recovery, late commit or     *)
(* late abort moves a decided document on, and only a new prepare() starts *)
(* it over.                                                                *)
TerminalIsFinal ==
    [][(doc \in {"COMMITTED", "ABORTED"}) => doc' \in {doc, "PREPARING"}]_vars

(* PREPARED means that all participants voted YES.                         *)
PreparedIsUnanimous ==
    doc = "PREPARED" => \A p \in P : part[p] \in {"prepared", "committed"}

(* Every call of the coordinator returns or raises, also when participants *)
(* are late, raise or answer nonsense; only a participant that never ends  *)
(* its call keeps the coordinator (_call_vote, commit).                    *)
CallsReturn ==
    \A c \in Coordinators : (pc[c] # "idle") ~> (pc[c] \in {"idle", "hung"})

(* The coordinator implements the abstract atomic commitment.              *)
Abstract == INSTANCE AtomicCommit

ImplementsAtomicCommit == Abstract!Spec

=============================================================================
