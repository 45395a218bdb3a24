-------------------------- MODULE MCSpeakrCleanup --------------------------
(* Instances of SpeakrCleanup for TLC: a recording published to one origin, which  *)
(* a second publication may join, and two cleanup commands.                       *)
EXTENDS SpeakrCleanup, TLC

CONSTANTS j1, j2, o1, o2, s1

PairKeys == [j \in Jobs |-> IF j = j1 THEN <<o1, s1>> ELSE <<o2, s1>>]

(* Reachable: created, claimed, sent, accepted and patched within one clock step. *)
PublishedRow ==
    [NoRow EXCEPT !.state = "published", !.remote = CHOOSE r \in Remotes : TRUE,
                  !.token = CHOOSE m \in Markers : TRUE, !.path = RecordingPath,
                  !.due = 1, !.gen = 2, !.started = 1, !.accepted = 1, !.published = 1,
                  !.created = 1, !.updated = 1]

OneOrBothPublished ==
    {[j \in Jobs |-> IF j = j1 THEN PublishedRow ELSE NoRow], [j \in Jobs |-> PublishedRow]}

(* What the theorems about cleanup ask of the rows it starts from.                *)
ASSUME PublishedRowsAreSettled == \A rows \in OneOrBothPublished : Settled(rows)

Spec == CleanupInit(OneOrBothPublished) /\ [][Next]_vars

(* A journal is resumed only by an explicit command: that one is run again, and    *)
(* taken to its end unless a fault stops it, is the operator's part.              *)
FairSpec ==
    /\ CleanupInit(OneOrBothPublished) /\ [][CommandNext]_vars
    /\ \A c \in Cleaners : WF_vars(Progress(c))
    /\ WF_vars(Passage)

CleanerSymmetry == Permutations(Cleaners)

============================================================================
