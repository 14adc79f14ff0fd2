--------------------------- MODULE MCCoordinator ---------------------------
(* Instances of Coordinator for TLC. *)
EXTENDS Coordinator

(* Anything but documents whose save is lost and garbled votes.            *)
OneFaults ==
    {"crash", "get", "hang", "slowVote", "voteRaises", "slowCommit",
     "commitRaises", "commitBreaks", "abortRaises"}

OnlyCommitRaises == {"commitRaises"}
One == {1}
=============================================================================
