----------------------- MODULE MCRecordingEnrichment -----------------------
(* Recordings that ask for the same name, two visible meetings and a private one.  *)
EXTENDS RecordingEnrichment, TLC

CONSTANTS r1, r2, f, f2, v, v2, w, m1, m2, private

MCFallback == [r \in {r1, r2} |-> f]
MCVisible == (m1 :> v) @@ (m2 :> w) @@ (private :> Nothing)
MCCandidates == (f :> <<f, f2>>) @@ (v :> <<v, v2>>) @@ (w :> <<w>>) @@ (f2 :> <<f2>>) @@ (v2 :> <<v2>>)
=============================================================================
