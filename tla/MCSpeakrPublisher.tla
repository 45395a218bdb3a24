------------------------- MODULE MCSpeakrPublisher -------------------------
(* Instances of SpeakrPublisher for TLC: one recording published by a daemon      *)
(* thread and a command-line process over a server that may answer late or never. *)
EXTENDS SpeakrPublisher, TLC

CONSTANTS j1, o1, s1

OneRowKey == j1 :> <<o1, s1>>
MCMarkers == 1..MaxMarkers
WorkerSymmetry == Permutations(Owners) \cup Permutations(Paths)

============================================================================
