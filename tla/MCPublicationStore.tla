------------------------ MODULE MCPublicationStore ------------------------
(* An instance of PublicationStore for TLC: one publication row and the cleanup    *)
(* journals that name it, through the row's whole life, deletion and re-creation.  *)
EXTENDS PublicationStore, TLC

CONSTANTS j1, o1, s1

OneRowKey == j1 :> <<o1, s1>>

============================================================================
