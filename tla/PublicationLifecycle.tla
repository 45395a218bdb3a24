------------------------ MODULE PublicationLifecycle ------------------------
(* What publication promises of each recording, whatever workers, leases, markers  *)
(* and crashes bring it about: an upload sets out only while its row says so and   *)
(* under a permit, the one a recording is enqueued with or one an operator gives   *)
(* by retrying a doubtful upload; once it set out it may reach the server at any   *)
(* later time, or never; nothing counts as uploaded that the server does not hold, *)
(* nor as published before its metadata arrived; and neither is ever taken back.   *)
EXTENDS Naturals

CONSTANTS Jobs

VARIABLES
    stage,      \* how far the publication of each recording has come
    permits,    \* uploads that may still set out
    leaving,    \* uploads that set out and whose request has not left its sender
    transit,    \* uploads on their way to the server
    copies,     \* recordings the server holds
    described   \* has the server the metadata of one of them

vars == <<stage, permits, leaving, transit, copies, described>>

Stages == {"absent", "waiting", "sending", "doubtful", "uploaded", "published", "gone"}

Enter(j, from, to) == stage[j] \in from /\ stage' = [stage EXCEPT ![j] = to]
OnlyStage == UNCHANGED <<permits, leaving, transit, copies, described>>

Enqueue(j) == Enter(j, {"absent"}, "waiting") /\ OnlyStage
Begin(j) == permits[j] > 0 /\ Enter(j, {"waiting"}, "sending") /\ OnlyStage

(* The transfer came to nothing, and the sender knows it.                         *)
GiveUp(j) == Enter(j, {"sending"}, "waiting") /\ OnlyStage

(* The outcome is unknown: to one sender, or for all whose lease ran out.         *)
Doubt(S) ==
    /\ S # {} /\ \A j \in S : stage[j] = "sending"
    /\ stage' = [j \in Jobs |-> IF j \in S THEN "doubtful" ELSE stage[j]]
    /\ OnlyStage

(* Back to sending without an operator: only while a permit is left.              *)
Again(j) == permits[j] > 0 /\ Enter(j, {"doubtful"}, "waiting") /\ OnlyStage

Authorise(j) ==
    /\ Enter(j, {"doubtful"}, "waiting")
    /\ permits' = [permits EXCEPT ![j] = @ + 1]
    /\ UNCHANGED <<leaving, transit, copies, described>>

SetOut(j) ==
    /\ stage[j] = "sending" /\ permits[j] > 0
    /\ permits' = [permits EXCEPT ![j] = @ - 1]
    /\ leaving' = [leaving EXCEPT ![j] = @ + 1]
    /\ UNCHANGED <<stage, transit, copies, described>>

(* The request leaves its sender: by now the upload may be in doubt, given to POST *)
(* again by an operator, or gone.                                                 *)
Send(j) ==
    /\ leaving[j] > 0
    /\ leaving' = [leaving EXCEPT ![j] = @ - 1]
    /\ transit' = [transit EXCEPT ![j] = @ + 1]
    /\ UNCHANGED <<stage, permits, copies, described>>

(* The request never leaves, and the upload gives its permit back.                 *)
StayBehind(j) ==
    /\ leaving[j] > 0
    /\ leaving' = [leaving EXCEPT ![j] = @ - 1]
    /\ permits' = [permits EXCEPT ![j] = @ + 1]
    /\ UNCHANGED <<stage, transit, copies, described>>

Arrive(j) ==
    /\ transit[j] > 0
    /\ transit' = [transit EXCEPT ![j] = @ - 1]
    /\ copies' = [copies EXCEPT ![j] = @ + 1]
    /\ UNCHANGED <<stage, permits, leaving, described>>

(* A request that stores nothing gives its permit back.                           *)
Vanish(j) ==
    /\ transit[j] > 0
    /\ transit' = [transit EXCEPT ![j] = @ - 1]
    /\ permits' = [permits EXCEPT ![j] = @ + 1]
    /\ UNCHANGED <<stage, leaving, copies, described>>

Learn(j) == copies[j] > 0 /\ Enter(j, {"sending", "doubtful"}, "uploaded") /\ OnlyStage

Describe(j) ==
    /\ copies[j] > 0
    /\ described' = [described EXCEPT ![j] = TRUE]
    /\ UNCHANGED <<stage, permits, leaving, transit, copies>>

Publish(j) == described[j] /\ Enter(j, {"uploaded"}, "published") /\ OnlyStage
Forget(j) == Enter(j, Stages \ {"absent", "gone"}, "gone") /\ OnlyStage

---------------------------------------------------------------------------
Init ==
    /\ stage = [j \in Jobs |-> "absent"]
    /\ permits = [j \in Jobs |-> 1]
    /\ leaving = [j \in Jobs |-> 0]
    /\ transit = [j \in Jobs |-> 0]
    /\ copies = [j \in Jobs |-> 0]
    /\ described = [j \in Jobs |-> FALSE]

Next ==
    \/ \E j \in Jobs :
          \/ Enqueue(j) \/ Begin(j) \/ GiveUp(j) \/ Again(j) \/ Authorise(j)
          \/ SetOut(j) \/ Send(j) \/ StayBehind(j) \/ Arrive(j) \/ Vanish(j)
          \/ Learn(j) \/ Describe(j) \/ Publish(j) \/ Forget(j)
    \/ \E S \in SUBSET Jobs : Doubt(S)

Spec == Init /\ [][Next]_vars

============================================================================
