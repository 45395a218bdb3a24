--------------------- MODULE RecordingEnrichment_proofs ---------------------
(* Proofs about RecordingEnrichment for every set of recordings, names and         *)
(* meetings and any number of faults: its types, that no finalized recording loses   *)
(* its last name, and, from the directory invariant, that a free target stays free,  *)
(* that discovery finds a recording's own metadata, that a transaction reports what   *)
(* is so, and that tags survive.                                                  *)
EXTENDS RecordingEnrichment, TLAPS

(* What a transaction relies on when it changes a name: the media it moves is at    *)
(* the source, and the source goes only when the target holds the same media.      *)
MoveIsSound ==
    txn # Nothing =>
        /\ txn.step \in {"write", "link", "unlink"} => media[txn.source] # Nothing
        /\ txn.step \in {"link", "unlink"} => txn.source # txn.target
        /\ txn.step = "unlink" => media[txn.target] = media[txn.source]
        /\ txn.op = "enrich" => Finalized(txn.intent.capture)

(* A capture under way or finished has a name.                                    *)
HomesNamed == \A r \in Recordings : stage[r] # "none" => home[r] \in Names

EnrichmentInv == EnrichmentTypeOK /\ HomesNamed /\ RecordingsKept /\ MoveIsSound

(* Every way a transaction ends types its report and keeps the stages typed.       *)
LEMMA EndTypes ==
    ASSUME EnrichmentTypeOK, txn # Nothing,
           NEW path \in Names, NEW outcome \in {"success", "partial", "failed"},
           End(path, outcome)
    PROVE  /\ stage' \in [Recordings -> Stages]
           /\ txn' \in Transaction \cup {Nothing}
           /\ report' \in Report \cup {Nothing}
<1>1. txn \in Transaction
    BY DEF EnrichmentTypeOK
<1>2. /\ txn.op \in Operations /\ txn.intent \in Sidecar
    BY <1>1 DEF Transaction
<1>3. txn.intent.capture \in Recordings
    BY <1>2 DEF Sidecar
<1>4. stage' \in [Recordings -> Stages]
    BY <1>3 DEF End, EnrichmentTypeOK, Stages
<1>5. report' \in Report
    BY <1>2, <1>3 DEF End, Report
<1> QED
    BY <1>4, <1>5 DEF End

(* The next step of a transaction leaves everything else of it alone.              *)
LEMMA GotoTypes ==
    ASSUME EnrichmentTypeOK, txn # Nothing, NEW step \in Steps, Goto(step)
    PROVE  /\ stage' \in [Recordings -> Stages]
           /\ txn' \in Transaction \cup {Nothing}
           /\ report' \in Report \cup {Nothing}
           /\ txn' = [txn EXCEPT !.step = step]
           /\ txn'.step = step
           /\ txn'.op = txn.op /\ txn'.source = txn.source /\ txn'.target = txn.target
           /\ txn'.intent = txn.intent
<1>1. txn \in Transaction
    BY DEF EnrichmentTypeOK
<1> QED
    BY <1>1 DEF Goto, Transaction, EnrichmentTypeOK

(* A transaction that ends leaves every finalized recording finalized.             *)
LEMMA EndKeepsFinalized ==
    ASSUME EnrichmentTypeOK, txn # Nothing, MoveIsSound,
           NEW path \in Names, NEW outcome \in {"success", "partial", "failed"},
           End(path, outcome), NEW r \in Recordings
    PROVE  Finalized(r)' <=> Finalized(r)
<1>1. txn.intent.capture \in Recordings
    BY DEF EnrichmentTypeOK, Transaction, Sidecar
<1>2. CASE txn.op = "enrich"
    <2>1. Finalized(txn.intent.capture)
        BY <1>2 DEF MoveIsSound
    <2>2. stage' = [stage EXCEPT ![txn.intent.capture] = "dispatched"]
        BY <1>2 DEF End
    <2> QED
        BY <1>1, <2>1, <2>2 DEF Finalized, EnrichmentTypeOK
<1>3. CASE txn.op # "enrich"
    BY <1>3 DEF End, Finalized
<1> QED
    BY <1>2, <1>3

(* A planned transaction is typed.                                                *)
LEMMA BeginTypes ==
    ASSUME NEW op \in Operations, NEW step \in Steps, NEW source \in Names, NEW target \in Names,
           NEW original \in Sidecar \cup {Nothing}, NEW intent \in Sidecar,
           Begin(op, step, source, target, original, intent)
    PROVE  txn' \in Transaction \cup {Nothing} /\ report' \in Report \cup {Nothing}
BY DEF Begin, Transaction

(* A directory in which only one name changed, to what may be at a name.            *)
LEMMA MediaTypes ==
    ASSUME EnrichmentTypeOK, NEW n \in Names, NEW r \in Recordings \cup {Nothing},
           media' = [media EXCEPT ![n] = r]
    PROVE  media' \in [Names -> Recordings \cup {Nothing}]
BY DEF EnrichmentTypeOK

LEMMA BesideTypes ==
    ASSUME EnrichmentTypeOK, NEW n \in Names, NEW s \in Sidecar \cup {Nothing},
           beside' = [beside EXCEPT ![n] = s]
    PROVE  beside' \in [Names -> Sidecar \cup {Nothing}]
BY DEF EnrichmentTypeOK

(* The fields of the running transaction.                                         *)
LEMMA TransactionFields ==
    ASSUME EnrichmentTypeOK, txn # Nothing
    PROVE  /\ txn.source \in Names /\ txn.target \in Names
           /\ txn.original \in Sidecar \cup {Nothing} /\ txn.intent \in Sidecar
           /\ txn.op \in Operations
BY DEF EnrichmentTypeOK, Transaction

(* One step of the daemon, a correction, a transaction or a failure keeps the type. *)
LEMMA TypeStep ==
    ASSUME EnrichmentAssumption, EnrichmentTypeOK, HomesNamed, Next
    PROVE  EnrichmentTypeOK'
<1> USE EnrichmentAssumption DEF EnrichmentAssumption
<1>1. ASSUME NEW r \in Recordings, NEW n \in Names, Reserve(r, n)
      PROVE  EnrichmentTypeOK'
    BY <1>1 DEF Reserve, EnrichmentTypeOK, Stages
<1>2. ASSUME NEW r \in Recordings, Finalize(r)
      PROVE  EnrichmentTypeOK'
    BY <1>2 DEF Finalize, EnrichmentTypeOK, Stages
<1>3. ASSUME NEW r \in Recordings, NEW m \in Meetings \cup {Nothing}, NEW tagged \in BOOLEAN,
             Enrich(r, m, tagged)
      PROVE  EnrichmentTypeOK'
    <2>1. home[r] \in Names
        BY <1>3 DEF Enrich, HomesNamed
    <2> DEFINE original == beside[home[r]]
    <2>2. original \in Sidecar \cup {Nothing}
        BY <2>1 DEF EnrichmentTypeOK
    <2>3. PICK target \in Names :
            Begin("enrich", "write", home[r], target, original,
                  [names |-> target, capture |-> r, meeting |-> m, tagged |-> tagged,
                   fallback |-> IF original = Nothing THEN home[r] ELSE original.fallback])
        BY <1>3 DEF Enrich
    <2>4. (IF original = Nothing THEN home[r] ELSE original.fallback) \in Names
        BY <2>1, <2>2 DEF Sidecar
    <2>5. [names |-> target, capture |-> r, meeting |-> m, tagged |-> tagged,
           fallback |-> IF original = Nothing THEN home[r] ELSE original.fallback] \in Sidecar
        BY <2>4 DEF Sidecar
    <2>6. txn' \in Transaction \cup {Nothing} /\ report' \in Report \cup {Nothing}
        BY <2>1, <2>2, <2>3, <2>5, BeginTypes DEF Operations, Steps
    <2> QED
        BY <1>3, <2>6 DEF Enrich, EnrichmentTypeOK
<1>4. ASSUME NEW n \in Names, NEW m \in Meetings, Select(n, m)
      PROVE  EnrichmentTypeOK'
    <2>1. beside[n] \in Sidecar
        BY <1>4 DEF Select, Found, Own, Unpublished, DirectIntent, Loadable, EnrichmentTypeOK
    <2>2. PICK target \in Names :
            Begin("select", "write", n, target, beside[n],
                  [beside[n] EXCEPT !.names = target, !.meeting = m])
        BY <1>4 DEF Select
    <2>3. [beside[n] EXCEPT !.names = target, !.meeting = m] \in Sidecar
        BY <2>1 DEF Sidecar
    <2>4. txn' \in Transaction \cup {Nothing} /\ report' \in Report \cup {Nothing}
        BY <2>1, <2>2, <2>3, BeginTypes DEF Operations, Steps
    <2> QED
        BY <1>4, <2>4 DEF Select, EnrichmentTypeOK
<1>5. ASSUME NEW n \in Names, Clear(n)
      PROVE  EnrichmentTypeOK'
    <2>1. beside[n] \in Sidecar
        BY <1>5 DEF Clear, Found, Own, Unpublished, DirectIntent, Loadable, EnrichmentTypeOK
    <2>2. PICK target \in Names :
            Begin("clear", "write", n, target, beside[n],
                  [beside[n] EXCEPT !.names = target, !.meeting = Nothing])
        BY <1>5 DEF Clear
    <2>3. [beside[n] EXCEPT !.names = target, !.meeting = Nothing] \in Sidecar
        BY <2>1 DEF Sidecar
    <2>4. txn' \in Transaction \cup {Nothing} /\ report' \in Report \cup {Nothing}
        BY <2>1, <2>2, <2>3, BeginTypes DEF Operations, Steps
    <2> QED
        BY <1>5, <2>4 DEF Clear, EnrichmentTypeOK
<1>6. ASSUME NEW n \in Names, Recover(n)
      PROVE  EnrichmentTypeOK'
    <2>1. PICK source \in Names, target \in Names :
            /\ Recoverable(n, source, target)
            /\ Begin("recover", IF media[source] # Nothing THEN "unlink" ELSE "relink",
                     source, target, beside[source], beside[source])
        BY <1>6 DEF Recover
    <2>2. beside[source] \in Sidecar
        BY <2>1 DEF Recoverable, DirectIntent, ElsewhereFor, Describes, Loadable, EnrichmentTypeOK
    <2>3. (IF media[source] # Nothing THEN "unlink" ELSE "relink") \in Steps
        BY DEF Steps
    <2>4. txn' \in Transaction \cup {Nothing} /\ report' \in Report \cup {Nothing}
        BY <2>1, <2>2, <2>3, BeginTypes DEF Operations
    <2> QED
        BY <1>6, <2>4 DEF Recover, EnrichmentTypeOK
<1>7. ASSUME WriteIntent PROVE EnrichmentTypeOK'
    <2>1. txn # Nothing
        BY <1>7 DEF WriteIntent, AtStep
    <2>2. beside' \in [Names -> Sidecar \cup {Nothing}]
        BY <1>7, <2>1, TransactionFields, BesideTypes DEF WriteIntent
    <2>3. Goto("link") \/ End(txn.source, "success") \/ Goto("remove")
        BY <1>7 DEF WriteIntent
    <2>4. /\ stage' \in [Recordings -> Stages] /\ txn' \in Transaction \cup {Nothing}
          /\ report' \in Report \cup {Nothing}
        BY <2>1, <2>3, TransactionFields, EndTypes, GotoTypes DEF Steps
    <2> QED
        BY <1>7, <2>2, <2>4 DEF WriteIntent, EnrichmentTypeOK
<1>8. ASSUME LinkMedia PROVE EnrichmentTypeOK'
    <2>1. txn # Nothing
        BY <1>8 DEF LinkMedia, AtStep
    <2>2. media[txn.source] \in Recordings \cup {Nothing}
        BY <2>1, TransactionFields DEF EnrichmentTypeOK
    <2>3. media' \in [Names -> Recordings \cup {Nothing}]
        BY <1>8, <2>1, <2>2, TransactionFields, MediaTypes DEF LinkMedia
    <2>4. /\ stage' \in [Recordings -> Stages] /\ txn' \in Transaction \cup {Nothing}
          /\ report' \in Report \cup {Nothing}
        BY <1>8, <2>1, GotoTypes DEF LinkMedia, Steps
    <2> QED
        BY <1>8, <2>3, <2>4 DEF LinkMedia, EnrichmentTypeOK
<1>9. ASSUME UnlinkMedia PROVE EnrichmentTypeOK'
    <2>1. txn # Nothing
        BY <1>9 DEF UnlinkMedia, AtStep
    <2>2. media' \in [Names -> Recordings \cup {Nothing}]
        BY <1>9, <2>1, TransactionFields, MediaTypes DEF UnlinkMedia
    <2>3. Goto("relink") \/ Goto("remove")
        BY <1>9 DEF UnlinkMedia
    <2>4. /\ stage' \in [Recordings -> Stages] /\ txn' \in Transaction \cup {Nothing}
          /\ report' \in Report \cup {Nothing}
        BY <2>1, <2>3, GotoTypes DEF Steps
    <2> QED
        BY <1>9, <2>2, <2>4 DEF UnlinkMedia, EnrichmentTypeOK
<1>10. ASSUME LinkSidecar PROVE EnrichmentTypeOK'
    <2>1. txn # Nothing
        BY <1>10 DEF LinkSidecar, AtStep
    <2>2. beside[txn.source] \in Sidecar \cup {Nothing}
        BY <2>1, TransactionFields DEF EnrichmentTypeOK
    <2>3. beside' \in [Names -> Sidecar \cup {Nothing}]
        BY <1>10, <2>1, <2>2, TransactionFields, BesideTypes DEF LinkSidecar
    <2>4. /\ stage' \in [Recordings -> Stages] /\ txn' \in Transaction \cup {Nothing}
          /\ report' \in Report \cup {Nothing}
        BY <1>10, <2>1, GotoTypes DEF LinkSidecar, Steps
    <2> QED
        BY <1>10, <2>3, <2>4 DEF LinkSidecar, EnrichmentTypeOK
<1>11. ASSUME DropSidecar \/ RestoreSidecar PROVE EnrichmentTypeOK'
    <2>1. txn # Nothing
        BY <1>11 DEF DropSidecar, RestoreSidecar, AtStep
    <2>2. beside' \in [Names -> Sidecar \cup {Nothing}]
        BY <1>11, <2>1, TransactionFields, BesideTypes DEF DropSidecar, RestoreSidecar
    <2>3. /\ stage' \in [Recordings -> Stages] /\ txn' \in Transaction \cup {Nothing}
          /\ report' \in Report \cup {Nothing}
        BY <1>11, <2>1, TransactionFields, EndTypes DEF DropSidecar, RestoreSidecar
    <2> QED
        BY <1>11, <2>2, <2>3 DEF DropSidecar, RestoreSidecar, EnrichmentTypeOK
<1>12. ASSUME Failure PROVE EnrichmentTypeOK'
    <2>1. faults' \in 0..MaxFaults
        BY <1>12 DEF Failure, WriteFails, LinkFails, UnlinkFails, UnlinkUnsynced, SidecarMoveFails,
            RemoveFails, RestoreFails, CorrectionDies, DaemonDies, Fault, EnrichmentTypeOK
    <2>2. CASE CorrectionDies
        BY <2>1, <2>2 DEF CorrectionDies, EnrichmentTypeOK
    <2>3. CASE DaemonDies
        <3>1. stage' \in [Recordings -> Stages]
            BY <2>3 DEF DaemonDies, EnrichmentTypeOK, Stages
        <3> QED
            BY <2>1, <2>3, <3>1 DEF DaemonDies, EnrichmentTypeOK
    <2>4. ASSUME WriteFails \/ LinkFails \/ UnlinkFails \/ UnlinkUnsynced \/ SidecarMoveFails
                 \/ RemoveFails \/ RestoreFails
          PROVE  EnrichmentTypeOK'
        <3>1. txn # Nothing
            BY <2>4 DEF WriteFails, LinkFails, UnlinkFails, UnlinkUnsynced, SidecarMoveFails,
                RemoveFails, RestoreFails, AtStep
        <3>2. \/ Goto("restore")
              \/ \E path \in {txn.source, txn.target}, outcome \in {"partial", "failed"} :
                    End(path, outcome)
            BY <2>4 DEF WriteFails, LinkFails, UnlinkFails, UnlinkUnsynced, SidecarMoveFails,
                RemoveFails, RestoreFails
        <3>3. /\ stage' \in [Recordings -> Stages] /\ txn' \in Transaction \cup {Nothing}
              /\ report' \in Report \cup {Nothing}
            BY <3>1, <3>2, TransactionFields, EndTypes, GotoTypes DEF Steps
        <3>4. beside' \in [Names -> Sidecar \cup {Nothing}]
            <4>1. \/ beside' = beside
                  \/ \E s \in {txn.intent, txn.original, Nothing} :
                        beside' = [beside EXCEPT ![txn.source] = s]
                BY <2>4 DEF WriteFails, LinkFails, UnlinkFails, UnlinkUnsynced, SidecarMoveFails,
                    RemoveFails, RestoreFails
            <4> QED
                BY <3>1, <4>1, TransactionFields, BesideTypes DEF EnrichmentTypeOK
        <3>5. media' \in [Names -> Recordings \cup {Nothing}]
            <4>1. media' = media \/ media' = [media EXCEPT ![txn.source] = Nothing]
                BY <2>4 DEF WriteFails, LinkFails, UnlinkFails, UnlinkUnsynced, SidecarMoveFails,
                    RemoveFails, RestoreFails
            <4> QED
                BY <3>1, <4>1, TransactionFields, MediaTypes DEF EnrichmentTypeOK
        <3>6. home' = home
            BY <2>4 DEF WriteFails, LinkFails, UnlinkFails, UnlinkUnsynced, SidecarMoveFails,
                RemoveFails, RestoreFails
        <3> QED
            BY <2>1, <3>3, <3>4, <3>5, <3>6 DEF EnrichmentTypeOK
    <2> QED
        BY <1>12, <2>2, <2>3, <2>4 DEF Failure
<1> QED
    BY <1>1, <1>2, <1>3, <1>4, <1>5, <1>6, <1>7, <1>8, <1>9, <1>10, <1>11, <1>12
    DEF Next, Daemon, Correction, Step

(* A recording past "none" has its name: only Reserve, Finalize, DaemonDies        *)
(* and the end of an enrichment change a stage.                                    *)
LEMMA HomesStep ==
    ASSUME EnrichmentTypeOK, HomesNamed, MoveIsSound, Next
    PROVE  HomesNamed'
<1>1. ASSUME NEW r \in Recordings, NEW n \in Names, Reserve(r, n)
      PROVE  HomesNamed'
    BY <1>1 DEF Reserve, HomesNamed, EnrichmentTypeOK
<1>2. ASSUME NEW r \in Recordings, Finalize(r)
      PROVE  HomesNamed'
    BY <1>2 DEF Finalize, HomesNamed, EnrichmentTypeOK
<1>3. ASSUME DaemonDies
      PROVE  HomesNamed'
    BY <1>3 DEF DaemonDies, HomesNamed, EnrichmentTypeOK, Stages
<1>4. ASSUME UNCHANGED <<stage, home>>
      PROVE  HomesNamed'
    BY <1>4 DEF HomesNamed
<1>5. ASSUME txn # Nothing, NEW path \in Names, NEW outcome \in {"success", "partial", "failed"},
             End(path, outcome), home' = home
      PROVE  HomesNamed'
    <2> SUFFICES ASSUME NEW r \in Recordings, stage'[r] # "none"
                 PROVE  home[r] \in Names
        BY <1>5 DEF HomesNamed
    <2>1. txn.intent.capture \in Recordings
        BY <1>5 DEF EnrichmentTypeOK, Transaction, Sidecar
    <2>2. stage[r] # "none"
        <3>1. CASE txn.op = "enrich"
            BY <1>5, <2>1, <3>1 DEF End, EnrichmentTypeOK, MoveIsSound, Finalized
        <3>2. CASE txn.op # "enrich"
            BY <1>5, <3>2 DEF End
        <3> QED
            BY <3>1, <3>2
    <2> QED
        BY <2>2 DEF HomesNamed
<1>6. ASSUME Step \/ WriteFails \/ LinkFails \/ UnlinkFails \/ UnlinkUnsynced \/ SidecarMoveFails
             \/ RemoveFails \/ RestoreFails
      PROVE  HomesNamed'
    <2>1. txn # Nothing /\ home' = home
        BY <1>6 DEF Step, WriteIntent, LinkMedia, UnlinkMedia, LinkSidecar, DropSidecar,
            RestoreSidecar, WriteFails, LinkFails, UnlinkFails, UnlinkUnsynced, SidecarMoveFails,
            RemoveFails, RestoreFails, AtStep
    <2>2. \/ stage' = stage
          \/ \E path \in {txn.source, txn.target}, outcome \in {"success", "partial", "failed"} :
                End(path, outcome)
        BY <1>6 DEF Step, WriteIntent, LinkMedia, UnlinkMedia, LinkSidecar, DropSidecar,
            RestoreSidecar, WriteFails, LinkFails, UnlinkFails, UnlinkUnsynced, SidecarMoveFails,
            RemoveFails, RestoreFails, Goto
    <2> QED
        BY <1>4, <1>5, <2>1, <2>2, TransactionFields
<1>7. ASSUME NEW r \in Recordings, NEW m \in Meetings \cup {Nothing}, NEW tagged \in BOOLEAN,
             Enrich(r, m, tagged)
      PROVE  HomesNamed'
    BY <1>4, <1>7 DEF Enrich
<1>8. ASSUME NEW n \in Names, Correction(n)
      PROVE  HomesNamed'
    BY <1>4, <1>8 DEF Correction, Select, Clear, Recover
<1>9. ASSUME CorrectionDies
      PROVE  HomesNamed'
    BY <1>4, <1>9 DEF CorrectionDies
<1> QED
    BY <1>1, <1>2, <1>3, <1>6, <1>7, <1>8, <1>9 DEF Next, Daemon, Failure

(* A transaction that ends without moving media keeps the names of all of them.    *)
LEMMA EndPlain ==
    ASSUME EnrichmentTypeOK, RecordingsKept, MoveIsSound, txn # Nothing,
           NEW path \in {txn.source, txn.target}, NEW outcome \in {"success", "partial", "failed"},
           End(path, outcome), media' = media
    PROVE  RecordingsKept' /\ MoveIsSound'
<1>1. \A r \in Recordings : Finalized(r)' <=> Finalized(r)
    BY EndKeepsFinalized, TransactionFields
<1>2. RecordingsKept'
    BY <1>1 DEF RecordingsKept
<1>3. MoveIsSound'
    BY DEF End, MoveIsSound
<1> QED
    BY <1>2, <1>3

(* The source loses its name while the target holds the same media.                *)
LEMMA UnlinkKeeps ==
    ASSUME EnrichmentTypeOK, RecordingsKept, MoveIsSound, AtStep("unlink"),
           media' = [media EXCEPT ![txn.source] = Nothing],
           NEW r \in Recordings, Finalized(r)
    PROVE  \E n \in Names : media'[n] = r
<1>1. txn.source \in Names /\ txn.target \in Names
    BY TransactionFields DEF AtStep
<1>2. txn.source # txn.target /\ media[txn.target] = media[txn.source]
    BY DEF MoveIsSound, AtStep
<1>3. PICK n \in Names : media[n] = r
    BY DEF RecordingsKept
<1>4. CASE n = txn.source
    <2>1. media'[txn.target] = r
        BY <1>1, <1>2, <1>3, <1>4 DEF EnrichmentTypeOK
    <2> QED
        BY <1>1, <2>1
<1>5. CASE n # txn.source
    <2>1. media'[n] = r
        BY <1>1, <1>3, <1>5 DEF EnrichmentTypeOK
    <2> QED
        BY <2>1
<1> QED
    BY <1>4, <1>5

(* Once the media have moved or stay, the transaction relies on them no more.       *)
LEMMA StepOn ==
    ASSUME EnrichmentTypeOK, MoveIsSound, txn # Nothing,
           NEW step \in Steps \ {"write", "link", "unlink"}, Goto(step)
    PROVE  MoveIsSound'
<1>1. /\ txn' = [txn EXCEPT !.step = step] /\ txn'.step = step
      /\ txn'.op = txn.op /\ txn'.source = txn.source /\ txn'.intent = txn.intent
    BY GotoTypes
<1>2. stage' = stage
    BY DEF Goto
<1> QED
    BY <1>1, <1>2, TransactionFields DEF MoveIsSound, Finalized

(* A step that is no step of a transaction keeps what its move relies on.          *)
LEMMA MoveUndisturbed ==
    ASSUME EnrichmentTypeOK, MoveIsSound, txn' = txn,
           \A n \in Names : media[n] # Nothing => media'[n] = media[n],
           \A r \in Recordings : Finalized(r) => Finalized(r)'
    PROVE  MoveIsSound'
<1> SUFFICES ASSUME txn # Nothing
             PROVE  /\ txn.step \in {"write", "link", "unlink"} => media'[txn.source] # Nothing
                    /\ txn.step \in {"link", "unlink"} => txn.source # txn.target
                    /\ txn.step = "unlink" => media'[txn.target] = media'[txn.source]
                    /\ txn.op = "enrich" => Finalized(txn.intent.capture)'
    BY DEF MoveIsSound
<1>1. txn.source \in Names /\ txn.target \in Names /\ txn.intent.capture \in Recordings
    BY TransactionFields DEF Sidecar
<1>2. txn.step \in {"write", "link", "unlink"} => media'[txn.source] = media[txn.source]
    BY <1>1 DEF MoveIsSound
<1>3. txn.step = "unlink" => media'[txn.target] = media[txn.target]
    BY <1>1 DEF MoveIsSound
<1> QED
    BY <1>1, <1>2, <1>3 DEF MoveIsSound

(* Planning a transaction: it starts with media at its source, and a recovery that  *)
(* starts with the unlink has found the same media at both names.                  *)
LEMMA PlanStep ==
    ASSUME EnrichmentAssumption, EnrichmentTypeOK,
           \/ \E r \in Recordings, m \in Meetings \cup {Nothing}, tagged \in BOOLEAN :
                  Enrich(r, m, tagged)
           \/ \E n \in Names : Correction(n)
    PROVE  MoveIsSound'
<1> USE DEF MoveIsSound, Begin
<1>1. ASSUME NEW r \in Recordings, NEW m \in Meetings \cup {Nothing}, NEW tagged \in BOOLEAN,
             Enrich(r, m, tagged)
      PROVE  MoveIsSound'
    BY <1>1 DEF Enrich, Finalized, EnrichmentAssumption
<1>2. ASSUME NEW n \in Names, NEW m \in Meetings, Select(n, m)
      PROVE  MoveIsSound'
    BY <1>2 DEF Select
<1>3. ASSUME NEW n \in Names, Clear(n)
      PROVE  MoveIsSound'
    BY <1>3 DEF Clear
<1>4. ASSUME NEW n \in Names, Recover(n)
      PROVE  MoveIsSound'
    <2>1. PICK source \in Names, target \in Names :
            /\ Recoverable(n, source, target)
            /\ Begin("recover", IF media[source] # Nothing THEN "unlink" ELSE "relink",
                     source, target, beside[source], beside[source])
        BY <1>4 DEF Recover
    <2>2. source # target
        BY <2>1 DEF Recoverable, DirectIntent, ElsewhereFor, Describes, Loadable
    <2>3. media[source] # Nothing => media[target] = media[source]
        BY <2>1 DEF Recoverable, HalfMoved
    <2>4. media' = media
        BY <1>4 DEF Recover
    <2> QED
        BY <2>1, <2>2, <2>3, <2>4
<1> QED
    BY <1>1, <1>2, <1>3, <1>4 DEF Correction

(* One step keeps every finalized recording's name and the soundness of the move.  *)
LEMMA KeptStep ==
    ASSUME EnrichmentAssumption, EnrichmentTypeOK, HomesNamed, RecordingsKept, MoveIsSound, Next
    PROVE  RecordingsKept' /\ MoveIsSound'
<1> USE EnrichmentAssumption DEF EnrichmentAssumption
<1>1. ASSUME NEW r \in Recordings, NEW n \in Names, Reserve(r, n)
      PROVE  RecordingsKept' /\ MoveIsSound'
    <2>1. \A q \in Recordings : Finalized(q)' <=> Finalized(q)
        BY <1>1 DEF Reserve, Finalized, EnrichmentTypeOK
    <2>2. RecordingsKept'
        BY <1>1, <2>1 DEF Reserve, RecordingsKept
    <2> QED
        BY <1>1, <2>2 DEF Reserve, Resting, MoveIsSound
<1>2. ASSUME NEW r \in Recordings, Finalize(r)
      PROVE  RecordingsKept' /\ MoveIsSound'
    <2>1. home[r] \in Names /\ media[home[r]] = Nothing
        BY <1>2 DEF Finalize, HomesNamed
    <2>2. media'[home[r]] = r /\ \A n \in Names : media[n] # Nothing => media'[n] = media[n]
        BY <1>2, <2>1 DEF Finalize, EnrichmentTypeOK
    <2>3. \A q \in Recordings : Finalized(q)' <=> (Finalized(q) \/ q = r)
        BY <1>2 DEF Finalize, Finalized, EnrichmentTypeOK
    <2>4. RecordingsKept'
        BY <2>1, <2>2, <2>3 DEF RecordingsKept
    <2>5. MoveIsSound'
        BY <1>2, <2>2, <2>3, MoveUndisturbed DEF Finalize
    <2> QED
        BY <2>4, <2>5
<1>3. ASSUME \/ \E r \in Recordings, m \in Meetings \cup {Nothing}, tagged \in BOOLEAN :
                    Enrich(r, m, tagged)
             \/ \E n \in Names : Correction(n)
      PROVE  RecordingsKept' /\ MoveIsSound'
    <2>1. UNCHANGED <<stage, media>>
        BY <1>3 DEF Enrich, Correction, Select, Clear, Recover
    <2>2. RecordingsKept'
        BY <2>1 DEF RecordingsKept, Finalized
    <2> QED
        BY <1>3, <2>2, PlanStep
<1>4. ASSUME txn # Nothing, media' = media,
             NEW step \in Steps \ {"write", "link", "unlink"}, Goto(step)
      PROVE  RecordingsKept' /\ MoveIsSound'
    <2>1. MoveIsSound'
        BY <1>4, StepOn
    <2> QED
        BY <1>4, <2>1 DEF RecordingsKept, Finalized, Goto
<1>5. CASE WriteIntent
    <2>1. txn # Nothing /\ txn.step = "write" /\ media' = media
        BY <1>5 DEF WriteIntent, AtStep
    <2>2. CASE txn.target # txn.source
        <3>1. Goto("link")
            BY <1>5, <2>2 DEF WriteIntent
        <3>2. /\ txn'.step = "link" /\ txn'.op = txn.op /\ txn'.source = txn.source
              /\ txn'.target = txn.target /\ txn'.intent = txn.intent /\ stage' = stage
            BY <2>1, <3>1, GotoTypes DEF Steps, Goto
        <3>3. MoveIsSound'
            BY <2>1, <2>2, <3>2 DEF MoveIsSound, Finalized
        <3> QED
            BY <2>1, <3>2, <3>3 DEF RecordingsKept, Finalized
    <2>3. CASE txn.target = txn.source
        <3>1. End(txn.source, "success") \/ Goto("remove")
            BY <1>5, <2>3 DEF WriteIntent
        <3> QED
            BY <1>4, <2>1, <3>1, EndPlain DEF Steps
    <2> QED
        BY <2>2, <2>3
<1>6. CASE LinkMedia
    <2>1. /\ txn # Nothing /\ txn.step = "link" /\ media[txn.target] = Nothing
          /\ media' = [media EXCEPT ![txn.target] = media[txn.source]]
        BY <1>6 DEF LinkMedia, AtStep
    <2>2. txn.source \in Names /\ txn.target \in Names
        BY <2>1, TransactionFields
    <2>3. txn.source # txn.target /\ media[txn.source] # Nothing
        BY <2>1 DEF MoveIsSound
    <2>4. /\ txn'.step = "unlink" /\ txn'.op = txn.op /\ txn'.source = txn.source
          /\ txn'.target = txn.target /\ txn'.intent = txn.intent /\ stage' = stage
        BY <1>6, <2>1, GotoTypes DEF LinkMedia, Steps, Goto
    <2>5. /\ media'[txn.target] = media[txn.source] /\ media'[txn.source] = media[txn.source]
          /\ \A n \in Names : media[n] # Nothing => media'[n] = media[n]
        BY <2>1, <2>2, <2>3 DEF EnrichmentTypeOK
    <2>6. MoveIsSound'
        BY <2>1, <2>3, <2>4, <2>5 DEF MoveIsSound, Finalized
    <2>7. RecordingsKept'
        BY <2>4, <2>5 DEF RecordingsKept, Finalized
    <2> QED
        BY <2>6, <2>7
<1>7. CASE UnlinkMedia
    <2>1. AtStep("unlink") /\ media' = [media EXCEPT ![txn.source] = Nothing]
        BY <1>7 DEF UnlinkMedia
    <2>2. PICK step \in {"relink", "remove"} : Goto(step)
        BY <1>7 DEF UnlinkMedia
    <2>3. stage' = stage
        BY <2>2 DEF Goto
    <2>4. RecordingsKept'
        BY <2>1, <2>3, UnlinkKeeps DEF RecordingsKept, Finalized
    <2>5. txn # Nothing /\ txn.step = "unlink"
        BY <2>1 DEF AtStep
    <2>6. MoveIsSound'
        BY <2>2, <2>5, StepOn DEF Steps
    <2> QED
        BY <2>4, <2>6
<1>8. CASE LinkSidecar
    BY <1>4, <1>8 DEF LinkSidecar, AtStep, Steps
<1>9. CASE DropSidecar \/ RestoreSidecar
    BY <1>9, EndPlain DEF DropSidecar, RestoreSidecar, AtStep
<1>10. CASE WriteFails \/ LinkFails \/ UnlinkFails \/ SidecarMoveFails \/ RemoveFails \/ RestoreFails
    <2>1. txn # Nothing /\ media' = media
        BY <1>10 DEF WriteFails, LinkFails, UnlinkFails, SidecarMoveFails, RemoveFails,
            RestoreFails, AtStep
    <2>2. \/ Goto("restore")
          \/ \E path \in {txn.source, txn.target}, outcome \in {"partial", "failed"} :
                End(path, outcome)
        BY <1>10 DEF WriteFails, LinkFails, UnlinkFails, SidecarMoveFails, RemoveFails, RestoreFails
    <2> QED
        BY <1>4, <2>1, <2>2, EndPlain DEF Steps
<1>11. CASE UnlinkUnsynced
    <2>1. /\ AtStep("unlink") /\ media' = [media EXCEPT ![txn.source] = Nothing]
          /\ End(txn.target, "partial")
        BY <1>11 DEF UnlinkUnsynced
    <2>2. \A r \in Recordings : Finalized(r)' <=> Finalized(r)
        BY <2>1, TransactionFields, EndKeepsFinalized DEF AtStep
    <2>3. RecordingsKept'
        BY <2>1, <2>2, UnlinkKeeps DEF RecordingsKept
    <2> QED
        BY <2>1, <2>3 DEF End, MoveIsSound
<1>12. CASE CorrectionDies
    BY <1>12 DEF CorrectionDies, RecordingsKept, MoveIsSound, Finalized
<1>13. CASE DaemonDies
    <2>1. \A r \in Recordings : Finalized(r)' <=> Finalized(r)
        BY <1>13 DEF DaemonDies, Finalized, EnrichmentTypeOK, Stages
    <2>2. RecordingsKept'
        BY <1>13, <2>1 DEF DaemonDies, RecordingsKept
    <2>3. MoveIsSound'
        <3>1. media' = media /\ (txn' = Nothing \/ txn' = txn)
            BY <1>13 DEF DaemonDies
        <3>2. CASE txn' = Nothing
            BY <3>2 DEF MoveIsSound
        <3>3. CASE txn' = txn
            BY <2>1, <3>1, <3>3, MoveUndisturbed
        <3> QED
            BY <3>1, <3>2, <3>3
    <2> QED
        BY <2>2, <2>3
<1> QED
    BY <1>1, <1>2, <1>3, <1>5, <1>6, <1>7, <1>8, <1>9, <1>10, <1>11, <1>12, <1>13
    DEF Next, Daemon, Step, Failure

---------------------------------------------------------------------------
LEMMA InitHolds ==
    ASSUME EnrichmentAssumption, Init
    PROVE  EnrichmentInv
BY DEF EnrichmentAssumption, Init, EnrichmentInv, EnrichmentTypeOK, HomesNamed, RecordingsKept,
    MoveIsSound, Finalized, Stages

LEMMA StepHolds ==
    ASSUME EnrichmentAssumption, EnrichmentInv, [Next]_vars
    PROVE  EnrichmentInv'
<1>1. CASE Next
    BY <1>1, TypeStep, HomesStep, KeptStep DEF EnrichmentInv
<1>2. CASE UNCHANGED vars
    BY <1>2 DEF vars, EnrichmentInv, EnrichmentTypeOK, HomesNamed, RecordingsKept, MoveIsSound,
        Finalized
<1> QED
    BY <1>1, <1>2

(* The inductive invariant: types, a name for every capture and every finalized     *)
(* recording, and media at both names when a transaction removes the old one.      *)
THEOREM EnrichmentInvariant == Spec => []EnrichmentInv
<1>1. Init => EnrichmentInv
    BY EnrichmentAssumption, InitHolds
<1>2. EnrichmentInv /\ [Next]_vars => EnrichmentInv'
    BY EnrichmentAssumption, StepHolds
<1> QED
    BY <1>1, <1>2, PTL DEF Spec

(* Every state the enrichment, the corrections and their failures reach is typed.   *)
THEOREM EnrichmentTypeCorrect == Spec => []EnrichmentTypeOK
<1>1. EnrichmentInv => EnrichmentTypeOK
    BY DEF EnrichmentInv
<1> QED
    BY <1>1, EnrichmentInvariant, PTL

(* No failed call and no death of a process, in any number and order, takes the     *)
(* last name of a finalized recording.                                            *)
THEOREM RecordingsAreKept == Spec => []RecordingsKept
<1>1. EnrichmentInv => RecordingsKept
    BY DEF EnrichmentInv
<1> QED
    BY <1>1, EnrichmentInvariant, PTL

(* The recording whose enrichment is under way.                                   *)
Enriching(r) == txn # Nothing /\ txn.op = "enrich" /\ txn.intent.capture = r

(* A reserved name is free on disk until its capture is finalized, and then holds    *)
(* that capture alone until the dispatch enriches it; no two captures share one.    *)
HomesHeld ==
    /\ \A r \in Recordings :
        /\ stage[r] = "reserved" => media[home[r]] = Nothing /\ beside[home[r]] = Nothing
        /\ stage[r] = "finalized" /\ ~Enriching(r) =>
                media[home[r]] = r /\ beside[home[r]] = Nothing
    /\ \A r, q \in Recordings :
        r # q /\ stage[r] \in {"reserved", "finalized"} /\ stage[q] \in {"reserved", "finalized"}
            => home[r] # home[q]

(* A sidecar describes a recording that has been dispatched, or is being, and never *)
(* lies beside the media of another; where its media has moved away, it names the    *)
(* place.                                                                         *)
SidecarHolds(n) ==
    beside[n] # Nothing =>
        /\ \/ stage[beside[n].capture] = "dispatched"
           \/ Enriching(beside[n].capture)
        /\ media[n] \in {Nothing, beside[n].capture}
        /\ media[n] = Nothing => media[beside[n].names] = beside[n].capture

(* What is on disk is the media of recordings that were finalized.                  *)
MediaFinalized == \A n \in Names : media[n] # Nothing => Finalized(media[n])

(* A recording has one sidecar, be it under two names.                             *)
OneSidecar ==
    \A n, o \in Names :
        beside[n] # Nothing /\ beside[o] # Nothing /\ beside[n].capture = beside[o].capture
            => beside[n] = beside[o]

DiskInv == HomesHeld /\ MediaFinalized /\ OneSidecar /\ \A n \in Names : SidecarHolds(n)

(* What a transaction planned: its names are nobody else's, and the sidecar it        *)
(* rewrites is that of its recording.                                             *)
PlanHolds ==
    txn # Nothing =>
        /\ txn.intent.names = txn.target
        /\ txn.op = "enrich" =>
            /\ txn.original = Nothing /\ stage[txn.intent.capture] = "finalized"
        /\ txn.op # "enrich" =>
            /\ txn.original # Nothing /\ stage[txn.intent.capture] = "dispatched"
            /\ txn.original.capture = txn.intent.capture
            /\ txn.original.tagged = txn.intent.tagged
        /\ \A n \in Names \ {txn.source, txn.target} :
            beside[n] # Nothing => beside[n].capture # txn.intent.capture
        /\ \A r \in Recordings :
            stage[r] \in {"reserved", "finalized"} /\ ~Enriching(r)
                => home[r] \notin {txn.source, txn.target}

(* Where a transaction is: what its two names hold at each of its steps.            *)
AtSource(m, s) == media[txn.source] = m /\ beside[txn.source] = s
AtTarget(m, s) ==
    txn.source # txn.target /\ media[txn.target] = m /\ beside[txn.target] = s

PlaceHolds ==
    LET own == txn.intent.capture IN
    txn # Nothing =>
        /\ txn.step = "write" =>
            /\ AtSource(own, txn.original) /\ txn.op # "recover"
            /\ txn.source # txn.target => AtTarget(Nothing, Nothing)
        /\ txn.step = "link" =>
            AtSource(own, txn.intent) /\ AtTarget(Nothing, Nothing) /\ txn.op # "recover"
        /\ txn.step = "unlink" => AtSource(own, txn.intent) /\ AtTarget(own, Nothing)
        /\ txn.step = "relink" =>
            AtSource(Nothing, txn.intent) /\ AtTarget(own, Nothing) /\ Keeps
        /\ txn.step = "drop" =>
            AtSource(Nothing, txn.intent) /\ AtTarget(own, txn.intent) /\ Keeps
        /\ txn.step = "remove" =>
            /\ \/ txn.source = txn.target /\ AtSource(own, txn.intent)
               \/ AtSource(Nothing, txn.intent) /\ AtTarget(own, Nothing)
            /\ ~Keeps
        /\ txn.step = "restore" =>
            /\ \E s \in {txn.original, txn.intent, Nothing} :
                AtSource(own, s) /\ (s = Nothing => txn.op = "enrich" \/ ~txn.intent.tagged)
            /\ txn.source # txn.target => \E m \in {Nothing, own} : AtTarget(m, Nothing)
            /\ txn.op # "recover"

(* What a report says of the disk, until the next transaction.                      *)
Cleared == report.op = "clear" /\ ~report.intent.tagged
ReportHolds ==
    report # Nothing =>
        /\ txn = Nothing
        /\ media[report.path] = report.recording
        /\ report.outcome = "success" /\ ~Cleared =>
            beside[report.path] = report.intent /\ report.intent.names = report.path
        /\ report.outcome = "success" =>
            \A n \in Names : beside[n] # Nothing /\ beside[n].capture = report.recording =>
                ~Cleared /\ n = report.path
        /\ report.outcome = "success" => report.intent.capture = report.recording

DirectoryInv == DiskInv /\ PlanHolds /\ PlaceHolds /\ ReportHolds

(* A sidecar on disk is typed, and so is the recording it describes.               *)
LEMMA SidecarFields ==
    ASSUME EnrichmentAssumption, EnrichmentTypeOK, NEW n \in Names, beside[n] # Nothing
    PROVE  /\ beside[n] \in Sidecar
           /\ beside[n].capture \in Recordings /\ beside[n].capture # Nothing
           /\ beside[n].names \in Names /\ beside[n].fallback \in Names
           /\ beside[n].tagged \in BOOLEAN
<1>1. beside[n] \in Sidecar
    BY DEF EnrichmentTypeOK
<1> QED
    BY <1>1 DEF Sidecar, EnrichmentAssumption

(* Where a recovery is possible, the sidecar it starts from is that of the media.  *)
LEMMA RecoversOwn ==
    ASSUME EnrichmentAssumption, EnrichmentTypeOK, DiskInv,
           NEW n \in Names, NEW source \in Names, NEW target \in Names,
           media[n] # Nothing, Recoverable(n, source, target)
    PROVE  /\ Loadable(source) /\ beside[source] # Nothing
           /\ beside[source].names = target /\ source # target
           /\ beside[source].capture = media[n]
           /\ media[target] = media[n] /\ media[source] \in {Nothing, media[n]}
           /\ beside[target] = Nothing
<1>1. HalfMoved(source, target)
    BY DEF Recoverable
<1>2. CASE DirectIntent(n) /\ source = n /\ target = beside[n].names
    <2>1. Loadable(n) /\ beside[n] # Nothing /\ beside[n].names # n
        BY <1>2 DEF DirectIntent, Loadable
    <2>2. media[n] = beside[n].capture
        BY <2>1, SidecarFields DEF DiskInv, SidecarHolds
    <2>3. media[target] = media[n]
        BY <1>1, <1>2 DEF HalfMoved
    <2>4. beside[target] = Nothing
        <3> SUFFICES ASSUME beside[target] # Nothing PROVE FALSE
            OBVIOUS
        <3>1. beside[target].capture = media[n]
            BY <2>3, SidecarFields DEF DiskInv, SidecarHolds
        <3>2. beside[target] = beside[n]
            BY <2>1, <2>2, <3>1 DEF DiskInv, OneSidecar
        <3> QED
            BY <1>2, <2>1, <3>2 DEF Loadable
    <2> QED
        BY <1>2, <2>1, <2>2, <2>3, <2>4
<1>3. CASE ElsewhereFor(n, source) /\ target = n
    <2>1. /\ beside[n] = Nothing /\ Loadable(source) /\ beside[source] # Nothing
          /\ beside[source].names = n /\ source # n
        BY <1>3 DEF ElsewhereFor, Describes, Loadable
    <2>2. media[source] \in {Nothing, media[n]}
        BY <1>1, <1>3 DEF HalfMoved
    <2>3. SidecarHolds(source)
        BY DEF DiskInv
    <2>4. beside[source].capture = media[n]
        BY <2>1, <2>2, <2>3, SidecarFields DEF SidecarHolds
    <2> QED
        BY <1>3, <2>1, <2>2, <2>4
<1> QED
    BY <1>2, <1>3 DEF Recoverable

(* Media that has a sidecar of its own has found its metadata.                     *)
LEMMA FindsOwn ==
    ASSUME EnrichmentAssumption, EnrichmentTypeOK, DiskInv,
           NEW n \in Names, media[n] # Nothing, Found(n)
    PROVE  /\ beside[n] # Nothing /\ Loadable(n) /\ beside[n].capture = media[n]
<1>1. beside[n] # Nothing /\ Loadable(n)
    BY DEF Found, Own, Unpublished, DirectIntent, Loadable
<1> QED
    BY <1>1, SidecarFields DEF DiskInv, SidecarHolds

(* The file a loadable sidecar is in is the only one that describes its recording.  *)
LEMMA LoadableIsOnly ==
    ASSUME DiskInv, NEW n \in Names, beside[n] # Nothing, Loadable(n), NEW o \in Names,
           beside[o] # Nothing, beside[o].capture = beside[n].capture
    PROVE  o = n
BY DEF DiskInv, OneSidecar, Loadable

(* What the directory invariant says of each property.                              *)
LEMMA TargetsFree ==
    ASSUME DirectoryInv
    PROVE  TargetStaysFree
BY DEF DirectoryInv, PlaceHolds, AtTarget, DiskInv, HomesHeld, TargetStaysFree, AtStep

LEMMA DiscoveryOwn ==
    ASSUME EnrichmentAssumption, EnrichmentTypeOK, DirectoryInv
    PROVE  DiscoveryFindsOwn
<1>1. ASSUME NEW n \in Names, media[n] # Nothing
      PROVE  /\ Found(n) => beside[n].capture = media[n]
             /\ \A source, target \in Names :
                    Recoverable(n, source, target) => beside[source].capture = media[n]
    BY <1>1, FindsOwn, RecoversOwn DEF DirectoryInv
<1> QED
    BY <1>1 DEF DiscoveryFindsOwn

LEMMA ReportsTrue ==
    ASSUME EnrichmentAssumption, EnrichmentTypeOK, DirectoryInv
    PROVE  ReportIsTrue
<1> SUFFICES ASSUME report # Nothing
             PROVE  /\ media[report.path] = report.recording
                    /\ report.outcome = "success" =>
                        IF Cleared THEN ~Discoverable(report.path)
                        ELSE Own(report.path) /\ beside[report.path] = report.intent
    BY DEF ReportIsTrue, Cleared
<1>1. report.path \in Names /\ report.recording \in Recordings /\ report.intent \in Sidecar
    BY DEF EnrichmentTypeOK, Report
<1>2. media[report.path] = report.recording
    BY DEF DirectoryInv, ReportHolds
<1>3. ASSUME report.outcome = "success", Cleared
      PROVE  ~Discoverable(report.path)
    <2>1. \A n \in Names : beside[n] # Nothing => beside[n].capture # report.recording
        BY <1>3 DEF DirectoryInv, ReportHolds
    <2>2. report.recording # Nothing
        BY <1>1 DEF EnrichmentAssumption
    <2>3. ~Found(report.path)
        BY <1>1, <1>2, <2>1, <2>2, FindsOwn DEF DirectoryInv
    <2>4. ASSUME NEW source \in Names, NEW target \in Names,
                 Recoverable(report.path, source, target)
          PROVE  FALSE
        BY <1>1, <1>2, <2>1, <2>2, <2>4, RecoversOwn DEF DirectoryInv
    <2> QED
        BY <2>3, <2>4 DEF Discoverable
<1>4. ASSUME report.outcome = "success", ~Cleared
      PROVE  Own(report.path) /\ beside[report.path] = report.intent
    <2>1. /\ beside[report.path] = report.intent /\ report.intent.names = report.path
          /\ report.intent.capture = report.recording
          /\ \A n \in Names : beside[n] # Nothing /\ beside[n].capture = report.recording =>
                n = report.path
        BY <1>4 DEF DirectoryInv, ReportHolds
    <2>2. report.intent # Nothing
        BY <1>1, AbsenceAssumption
    <2>3. Loadable(report.path)
        BY <1>1, <2>1, <2>2 DEF Loadable
    <2> QED
        BY <2>1, <2>3 DEF Own
<1> QED
    BY <1>2, <1>3, <1>4

(* A transaction stays in its place while nobody touches its two names.             *)
LEMMA PlaceKept ==
    ASSUME PlaceHolds, txn' = txn,
           txn # Nothing =>
                /\ media'[txn.source] = media[txn.source]
                /\ media'[txn.target] = media[txn.target]
                /\ beside'[txn.source] = beside[txn.source]
                /\ beside'[txn.target] = beside[txn.target]
    PROVE  PlaceHolds'
<1> SUFFICES ASSUME txn # Nothing PROVE PlaceHolds'
    BY DEF PlaceHolds
<1>1. /\ media'[txn.source] = media[txn.source] /\ media'[txn.target] = media[txn.target]
      /\ beside'[txn.source] = beside[txn.source] /\ beside'[txn.target] = beside[txn.target]
    OBVIOUS
<1> QED
    BY <1>1 DEF PlaceHolds, AtSource, AtTarget, Keeps

(* The daemon reserves a name that is free on disk and in memory.                  *)
LEMMA ReserveKeeps ==
    ASSUME EnrichmentAssumption, EnrichmentTypeOK, DirectoryInv,
           NEW r \in Recordings, NEW n \in Names, Reserve(r, n)
    PROVE  DirectoryInv'
<1>1. /\ txn = Nothing /\ txn' = txn /\ stage[r] = "none" /\ report' = report
      /\ media' = media /\ beside' = beside
      /\ stage' = [stage EXCEPT ![r] = "reserved"] /\ home' = [home EXCEPT ![r] = n]
    BY DEF Reserve, Resting
<1>2. ~Reserved(n) /\ media[n] = Nothing /\ beside[n] = Nothing
    BY DEF Reserve, CollisionSafe, Taken, EnrichmentAssumption
<1>3. /\ stage'[r] = "reserved" /\ home'[r] = n
      /\ \A q \in Recordings : q # r => stage'[q] = stage[q] /\ home'[q] = home[q]
    BY <1>1 DEF EnrichmentTypeOK
<1>4. HomesHeld
    BY DEF DirectoryInv, DiskInv
<1>5. HomesHeld'
    <2>1. ASSUME NEW q \in Recordings
          PROVE  /\ stage'[q] = "reserved" =>
                        media'[home'[q]] = Nothing /\ beside'[home'[q]] = Nothing
                 /\ stage'[q] = "finalized" /\ ~Enriching(q)' =>
                        media'[home'[q]] = q /\ beside'[home'[q]] = Nothing
        BY <1>1, <1>2, <1>3, <1>4 DEF HomesHeld, Enriching
    <2>2. \A q \in Recordings : stage[q] \in {"reserved", "finalized"} => home[q] # n
        BY <1>2 DEF Reserved
    <2>3. \A q, p \in Recordings :
            q # p /\ stage[q] \in {"reserved", "finalized"} /\ stage[p] \in {"reserved", "finalized"}
                => home[q] # home[p]
        BY <1>4 DEF HomesHeld
    <2>4. \A q, p \in Recordings :
            q # p /\ stage'[q] \in {"reserved", "finalized"} /\ stage'[p] \in {"reserved", "finalized"}
                => home'[q] # home'[p]
        BY <1>3, <2>2, <2>3
    <2> QED
        BY <2>1, <2>4 DEF HomesHeld
<1>6. MediaFinalized'
    BY <1>1, <1>3 DEF DirectoryInv, DiskInv, MediaFinalized, Finalized, EnrichmentTypeOK
<1>7. \A m \in Names : SidecarHolds(m)'
    BY <1>1, <1>3, SidecarFields DEF DirectoryInv, DiskInv, SidecarHolds, Enriching
<1>8. DiskInv'
    BY <1>1, <1>5, <1>6, <1>7 DEF DirectoryInv, DiskInv, OneSidecar
<1>9. PlanHolds' /\ PlaceHolds' /\ ReportHolds'
    BY <1>1 DEF DirectoryInv, PlanHolds, PlaceHolds, ReportHolds, Cleared
<1> QED
    BY <1>8, <1>9 DEF DirectoryInv

(* The recorder finalizes its file at the reserved name, whatever a transaction is    *)
(* doing: no transaction works on that name and no sidecar speaks of it.            *)
LEMMA FinalizeKeeps ==
    ASSUME EnrichmentAssumption, EnrichmentTypeOK, HomesNamed, DirectoryInv,
           NEW r \in Recordings, Finalize(r)
    PROVE  DirectoryInv'
<1>1. /\ stage[r] = "reserved" /\ home' = home /\ beside' = beside /\ txn' = txn
      /\ report' = report /\ stage' = [stage EXCEPT ![r] = "finalized"]
      /\ media' = [media EXCEPT ![home[r]] = r]
    BY DEF Finalize
<1> DEFINE place == home[r]
<1>2. place \in Names /\ media[place] = Nothing /\ beside[place] = Nothing
    BY <1>1 DEF HomesNamed, DirectoryInv, DiskInv, HomesHeld
<1>3. /\ stage'[r] = "finalized" /\ media'[place] = r /\ r # Nothing
      /\ \A q \in Recordings : q # r => stage'[q] = stage[q]
      /\ \A m \in Names : m # place => media'[m] = media[m]
    BY <1>1, <1>2 DEF EnrichmentTypeOK, EnrichmentAssumption
<1>4. ~Enriching(r) /\ \A q : Enriching(q)' <=> Enriching(q)
    BY <1>1 DEF Enriching, DirectoryInv, PlanHolds
<1>5. \A m \in Names : m # place => media'[m] # r
    BY <1>1, <1>3 DEF DirectoryInv, DiskInv, MediaFinalized, Finalized
<1>6. HomesHeld'
    <2>0. HomesHeld
        BY DEF DirectoryInv, DiskInv
    <2>1. ASSUME NEW q \in Recordings
          PROVE  /\ stage'[q] = "reserved" =>
                        media'[home'[q]] = Nothing /\ beside'[home'[q]] = Nothing
                 /\ stage'[q] = "finalized" /\ ~Enriching(q)' =>
                        media'[home'[q]] = q /\ beside'[home'[q]] = Nothing
        <3>1. CASE q = r
            BY <1>1, <1>2, <1>3, <3>1
        <3>2. CASE q # r
            <4>1. stage[q] \in {"reserved", "finalized"} => home[q] # place /\ home[q] \in Names
                BY <1>1, <2>0, <3>2 DEF HomesHeld, HomesNamed
            <4> QED
                BY <1>1, <1>3, <1>4, <2>0, <3>2, <4>1 DEF HomesHeld
        <3> QED
            BY <3>1, <3>2
    <2>2. \A q, p \in Recordings :
            q # p /\ stage'[q] \in {"reserved", "finalized"} /\ stage'[p] \in {"reserved", "finalized"}
                => home'[q] # home'[p]
        BY <1>1, <1>3, <2>0 DEF HomesHeld
    <2> QED
        BY <2>1, <2>2 DEF HomesHeld
<1>7. MediaFinalized'
    BY <1>2, <1>3 DEF DirectoryInv, DiskInv, MediaFinalized, Finalized, EnrichmentTypeOK
<1>8. ASSUME NEW m \in Names
      PROVE  SidecarHolds(m)'
    <2> SUFFICES ASSUME beside[m] # Nothing
                 PROVE  /\ stage'[beside[m].capture] = "dispatched" \/ Enriching(beside[m].capture)
                        /\ media'[m] \in {Nothing, beside[m].capture}
                        /\ media'[m] = Nothing => media'[beside[m].names] = beside[m].capture
        BY <1>1, <1>4 DEF SidecarHolds
    <2>1. SidecarHolds(m)
        BY DEF DirectoryInv, DiskInv
    <2>2. /\ beside[m].capture \in Recordings /\ beside[m].names \in Names
          /\ beside[m].capture # Nothing
        BY SidecarFields
    <2>3. beside[m].capture # r /\ m # place
        BY <1>1, <1>2, <1>4, <2>1 DEF SidecarHolds
    <2>4. media[m] = Nothing => beside[m].names # place
        BY <1>2, <2>1, <2>2 DEF SidecarHolds
    <2> QED
        BY <1>3, <2>1, <2>2, <2>3, <2>4 DEF SidecarHolds
<1>9. DiskInv'
    BY <1>1, <1>6, <1>7, <1>8 DEF DirectoryInv, DiskInv, OneSidecar
<1>10. txn # Nothing => place \notin {txn.source, txn.target}
    BY <1>1, <1>4 DEF DirectoryInv, PlanHolds
<1>11. PlanHolds'
    <2> SUFFICES ASSUME txn # Nothing PROVE PlanHolds'
        BY <1>1 DEF PlanHolds
    <2>1. PlanHolds /\ txn.intent.capture \in Recordings
        BY TransactionFields DEF DirectoryInv, Sidecar
    <2>2. /\ txn.op = "enrich" => stage'[txn.intent.capture] = "finalized"
          /\ txn.op # "enrich" => stage'[txn.intent.capture] = "dispatched"
        BY <1>1, <1>3, <2>1 DEF PlanHolds
    <2>3. ASSUME NEW q \in Recordings, stage'[q] \in {"reserved", "finalized"}, ~Enriching(q)
          PROVE  home[q] \notin {txn.source, txn.target}
        BY <1>1, <1>3, <2>1, <2>3 DEF PlanHolds
    <2> QED
        BY <1>1, <1>4, <2>1, <2>2, <2>3 DEF PlanHolds
<1>12. PlaceHolds'
    BY <1>1, <1>3, <1>10, TransactionFields, PlaceKept DEF DirectoryInv
<1>13. ReportHolds'
    <2> SUFFICES ASSUME report # Nothing PROVE ReportHolds'
        BY <1>1 DEF ReportHolds
    <2>1. report.path \in Names /\ report.recording \in Recordings
        BY DEF EnrichmentTypeOK, Report
    <2>2. media[report.path] = report.recording /\ report.recording # Nothing
        BY <2>1 DEF DirectoryInv, ReportHolds, EnrichmentAssumption
    <2>3. media'[report.path] = report.recording
        BY <1>2, <1>3, <2>1, <2>2
    <2> QED
        BY <1>1, <2>3 DEF DirectoryInv, ReportHolds, Cleared
<1> QED
    BY <1>9, <1>11, <1>12, <1>13 DEF DirectoryInv

(* A correction dies: what it leaves on disk is what the next one may find.        *)
LEMMA CorrectionDiesKeeps ==
    ASSUME EnrichmentAssumption, EnrichmentTypeOK, DirectoryInv, CorrectionDies
    PROVE  DirectoryInv'
<1>1. /\ txn # Nothing /\ txn.op # "enrich" /\ txn' = Nothing /\ report' = Nothing
      /\ stage' = stage /\ home' = home /\ media' = media /\ beside' = beside
    BY DEF CorrectionDies
<1>2. \A q : ~Enriching(q) /\ ~Enriching(q)'
    BY <1>1 DEF Enriching
<1>3. HomesHeld'
    BY <1>1, <1>2 DEF DirectoryInv, DiskInv, HomesHeld
<1>4. \A m \in Names : SidecarHolds(m)'
    BY <1>1, <1>2 DEF DirectoryInv, DiskInv, SidecarHolds
<1>5. DiskInv'
    BY <1>1, <1>3, <1>4 DEF DirectoryInv, DiskInv, OneSidecar, MediaFinalized, Finalized
<1> QED
    BY <1>1, <1>5 DEF DirectoryInv, PlanHolds, PlaceHolds, ReportHolds

(* The daemon dies, with the enrichment it may be in the middle of.                *)
LEMMA DaemonDiesKeeps ==
    ASSUME EnrichmentAssumption, EnrichmentTypeOK, DirectoryInv, DaemonDies
    PROVE  DirectoryInv'
<1>1. /\ home' = home /\ media' = media /\ beside' = beside
      /\ \/ txn' = Nothing /\ report' = Nothing
         \/ txn' = txn /\ report' = report /\ ~(txn # Nothing /\ txn.op = "enrich")
    BY DEF DaemonDies
<1>2. ASSUME NEW q \in Recordings
      PROVE  /\ stage'[q] \notin {"reserved", "finalized"}
             /\ stage[q] \in {"finalized", "dispatched"} => stage'[q] = "dispatched"
    BY DEF DaemonDies, EnrichmentTypeOK, Stages
<1>3. HomesHeld'
    BY <1>2 DEF HomesHeld
<1>4. MediaFinalized'
    BY <1>1, <1>2 DEF DirectoryInv, DiskInv, MediaFinalized, Finalized, EnrichmentTypeOK
<1>5. ASSUME NEW m \in Names
      PROVE  SidecarHolds(m)'
    <2> SUFFICES ASSUME beside[m] # Nothing PROVE SidecarHolds(m)'
        BY <1>1 DEF SidecarHolds
    <2>1. SidecarHolds(m) /\ beside[m].capture \in Recordings
        BY SidecarFields DEF DirectoryInv, DiskInv
    <2>2. stage'[beside[m].capture] = "dispatched"
        BY <1>2, <2>1 DEF SidecarHolds, Enriching, DirectoryInv, PlanHolds
    <2> QED
        BY <1>1, <2>1, <2>2 DEF SidecarHolds
<1>6. DiskInv'
    BY <1>1, <1>3, <1>4, <1>5 DEF DirectoryInv, DiskInv, OneSidecar
<1>7. CASE txn' = Nothing /\ report' = Nothing
    BY <1>6, <1>7 DEF DirectoryInv, PlanHolds, PlaceHolds, ReportHolds
<1>8. CASE txn' = txn /\ report' = report /\ ~(txn # Nothing /\ txn.op = "enrich")
    <2>1. PlanHolds'
        <3> SUFFICES ASSUME txn # Nothing PROVE PlanHolds'
            BY <1>8 DEF PlanHolds
        <3>1. PlanHolds /\ txn.intent.capture \in Recordings /\ txn.op # "enrich"
            BY <1>8, TransactionFields DEF DirectoryInv, Sidecar
        <3>2. stage'[txn.intent.capture] = "dispatched"
            BY <1>2, <3>1 DEF PlanHolds
        <3> QED
            BY <1>1, <1>2, <1>8, <3>1, <3>2 DEF PlanHolds
    <2>2. PlaceHolds'
        BY <1>1, <1>8, PlaceKept DEF DirectoryInv
    <2>3. ReportHolds'
        BY <1>1, <1>8 DEF DirectoryInv, ReportHolds, Cleared
    <2> QED
        BY <1>6, <2>1, <2>2, <2>3 DEF DirectoryInv
<1> QED
    BY <1>1, <1>7, <1>8

(* A name found free is free on disk and reserved by nobody.                       *)
LEMMA SafeIsFree ==
    ASSUME NEW n, NEW preferred, NEW source, CollisionSafe(n, preferred, source), n # source
    PROVE  media[n] = Nothing /\ beside[n] = Nothing /\ ~Reserved(n)
BY DEF CollisionSafe, Taken

(* A plan fits the directory: its names are free or its recording's own.             *)
PlanFits(op, step, source, target, original, intent) ==
    /\ op \in Operations /\ step \in {"write", "unlink", "relink"}
    /\ intent.names = target /\ beside[source] = original
    /\ op = "enrich" => original = Nothing /\ stage[intent.capture] = "finalized"
    /\ op # "enrich" =>
            /\ original # Nothing /\ stage[intent.capture] = "dispatched"
            /\ original.capture = intent.capture /\ original.tagged = intent.tagged
    /\ \A n \in Names \ {source, target} :
            beside[n] # Nothing => beside[n].capture # intent.capture
    /\ \A r \in Recordings :
            stage[r] \in {"reserved", "finalized"} /\ ~(op = "enrich" /\ intent.capture = r)
                => home[r] \notin {source, target}
    /\ source # target => beside[target] = Nothing
    /\ IF step = "write"
       THEN /\ op # "recover" /\ media[source] = intent.capture
            /\ source # target => media[target] = Nothing
       ELSE /\ op = "recover" /\ original = intent /\ source # target
            /\ media[target] = intent.capture
            /\ media[source] = IF step = "unlink" THEN intent.capture ELSE Nothing

(* A transaction whose plan fits the directory begins well.                         *)
LEMMA PlannedKeeps ==
    ASSUME EnrichmentTypeOK, DirectoryInv, Resting, UNCHANGED <<stage, home, media, beside>>,
           NEW op, NEW step, NEW source \in Names, NEW target \in Names,
           NEW original \in Sidecar \cup {Nothing}, NEW intent \in Sidecar,
           Begin(op, step, source, target, original, intent),
           PlanFits(op, step, source, target, original, intent)
    PROVE  DirectoryInv'
<1>1. /\ txn = Nothing /\ report' = Nothing
      /\ stage' = stage /\ home' = home /\ media' = media /\ beside' = beside
    BY DEF Resting, Begin
<1>2. /\ txn'.op = op /\ txn'.step = step /\ txn'.source = source /\ txn'.target = target
      /\ txn'.original = original /\ txn'.intent = intent
    BY DEF Begin
<1>3. txn' # Nothing
    <2>1. txn' \in Transaction
        BY DEF Begin, Transaction, Steps, PlanFits
    <2> QED
        BY <2>1, AbsenceAssumption
<1>4. \A q : ~Enriching(q)
    BY <1>1 DEF Enriching
<1>5. HomesHeld'
    BY <1>1, <1>4 DEF DirectoryInv, DiskInv, HomesHeld
<1>6. \A m \in Names : SidecarHolds(m)'
    BY <1>1, <1>4 DEF DirectoryInv, DiskInv, SidecarHolds
<1>7. DiskInv'
    BY <1>1, <1>5, <1>6 DEF DirectoryInv, DiskInv, OneSidecar, MediaFinalized, Finalized
<1>8. PlanHolds'
    BY <1>1, <1>2, <1>3 DEF PlanHolds, Enriching, PlanFits
<1>9. PlaceHolds'
    <2>1. CASE step = "write"
        BY <1>1, <1>2, <2>1 DEF PlaceHolds, AtSource, AtTarget, PlanFits
    <2>2. CASE step = "unlink"
        BY <1>1, <1>2, <2>2 DEF PlaceHolds, AtSource, AtTarget, PlanFits
    <2>3. CASE step = "relink"
        BY <1>1, <1>2, <2>3 DEF PlaceHolds, AtSource, AtTarget, PlanFits, Keeps
    <2> QED
        BY <2>1, <2>2, <2>3 DEF PlanFits
<1>10. ReportHolds'
    BY <1>1 DEF ReportHolds
<1> QED
    BY <1>7, <1>8, <1>9, <1>10 DEF DirectoryInv

(* The dispatch enriches a capture that no sidecar describes yet.                    *)
LEMMA EnrichKeeps ==
    ASSUME EnrichmentAssumption, EnrichmentTypeOK, HomesNamed, DirectoryInv,
           NEW r \in Recordings, NEW m \in Meetings \cup {Nothing}, NEW tagged \in BOOLEAN,
           Enrich(r, m, tagged)
    PROVE  DirectoryInv'
<1> DEFINE source == home[r]
<1>1. /\ Resting /\ txn = Nothing /\ stage[r] = "finalized" /\ media[source] = r
      /\ UNCHANGED <<stage, home, media, beside>>
    BY DEF Enrich, Resting
<1>2. source \in Names /\ beside[source] = Nothing
    BY <1>1 DEF HomesNamed, DirectoryInv, DiskInv, HomesHeld, Enriching
<1>3. PICK target \in Names :
        /\ IF Visible(m) THEN CollisionSafe(target, VisibleName[m], source) ELSE target = source
        /\ Begin("enrich", "write", source, target, Nothing,
                 [names |-> target, capture |-> r, meeting |-> m, tagged |-> tagged,
                  fallback |-> source])
    BY <1>2 DEF Enrich
<1> DEFINE intent == [names |-> target, capture |-> r, meeting |-> m, tagged |-> tagged,
                      fallback |-> source]
<1>4. intent \in Sidecar /\ intent.capture = r /\ intent.names = target
    BY <1>2 DEF Sidecar
<1>5. target # source => media[target] = Nothing /\ beside[target] = Nothing /\ ~Reserved(target)
    BY <1>3, SafeIsFree
<1>6. \A n \in Names : beside[n] # Nothing => beside[n].capture # r
    BY <1>1 DEF DirectoryInv, DiskInv, SidecarHolds, Enriching
<1>7. ASSUME NEW q \in Recordings, stage[q] \in {"reserved", "finalized"}, q # r
      PROVE  home[q] \notin {source, target}
    <2>1. home[q] # source
        BY <1>1, <1>7 DEF DirectoryInv, DiskInv, HomesHeld
    <2> QED
        BY <1>5, <1>7, <2>1 DEF Reserved
<1>8. Begin("enrich", "write", source, target, Nothing, intent)
    BY <1>3
<1> HIDE DEF source, intent
<1>9. \A q \in Recordings :
        stage[q] \in {"reserved", "finalized"} /\ ~(intent.capture = q)
            => home[q] \notin {source, target}
    BY <1>4, <1>7
<1>10. \A n \in Names : beside[n] # Nothing => beside[n].capture # intent.capture
    BY <1>4, <1>6
<1>11. PlanFits("enrich", "write", source, target, Nothing, intent)
    BY <1>1, <1>2, <1>4, <1>5, <1>9, <1>10 DEF PlanFits, Operations
<1> QED
    BY <1>1, <1>2, <1>4, <1>8, <1>11, PlannedKeeps

(* A correction that has found the metadata of its recording, and a free name for   *)
(* it, plans soundly.                                                             *)
LEMMA CorrectionFits ==
    ASSUME EnrichmentAssumption, EnrichmentTypeOK, DirectoryInv, Resting,
           NEW op \in {"select", "clear"}, NEW n \in Names, media[n] # Nothing, Found(n),
           NEW preferred, NEW target \in Names, CollisionSafe(target, preferred, n),
           NEW intent \in Sidecar, intent.names = target,
           intent.capture = beside[n].capture, intent.tagged = beside[n].tagged
    PROVE  PlanFits(op, "write", n, target, beside[n], intent)
<1>1. beside[n] # Nothing /\ Loadable(n) /\ beside[n].capture = media[n]
    BY FindsOwn DEF DirectoryInv
<1>2. \A r : ~Enriching(r)
    BY DEF Resting, Enriching
<1>3. stage[beside[n].capture] = "dispatched"
    BY <1>1, <1>2 DEF DirectoryInv, DiskInv, SidecarHolds
<1>4. n # target => media[target] = Nothing /\ beside[target] = Nothing /\ ~Reserved(target)
    BY SafeIsFree
<1>5. \A o \in Names \ {n, target} : beside[o] # Nothing => beside[o].capture # intent.capture
    BY <1>1, LoadableIsOnly DEF DirectoryInv
<1>6. ASSUME NEW r \in Recordings, stage[r] \in {"reserved", "finalized"}
      PROVE  home[r] \notin {n, target}
    <2>1. beside[home[r]] = Nothing
        BY <1>2, <1>6 DEF DirectoryInv, DiskInv, HomesHeld
    <2> QED
        BY <1>1, <1>4, <1>6, <2>1 DEF Reserved
<1>7. op \in Operations /\ op # "enrich" /\ op # "recover"
    BY DEF Operations
<1> QED
    BY <1>1, <1>3, <1>4, <1>5, <1>6, <1>7 DEF PlanFits

(* A selection of another meeting, and a clear, begin well.                         *)
LEMMA SelectKeeps ==
    ASSUME EnrichmentAssumption, EnrichmentTypeOK, DirectoryInv,
           NEW n \in Names, NEW m \in Meetings, Select(n, m)
    PROVE  DirectoryInv'
<1>1. /\ Resting /\ media[n] # Nothing /\ Found(n) /\ UNCHANGED <<stage, home, media, beside>>
    BY DEF Select
<1> DEFINE preferred == IF Visible(m) THEN VisibleName[m] ELSE beside[n].fallback
<1>2. PICK target \in Names :
        /\ CollisionSafe(target, preferred, n)
        /\ Begin("select", "write", n, target, beside[n],
                 [beside[n] EXCEPT !.names = target, !.meeting = m])
    BY DEF Select
<1> DEFINE intent == [beside[n] EXCEPT !.names = target, !.meeting = m]
<1>3. beside[n] \in Sidecar
    BY <1>1, FindsOwn, SidecarFields DEF DirectoryInv
<1>4. /\ intent \in Sidecar /\ intent.names = target
      /\ intent.capture = beside[n].capture /\ intent.tagged = beside[n].tagged
    BY <1>3 DEF Sidecar
<1>5. Begin("select", "write", n, target, beside[n], intent)
    BY <1>2
<1>6. CollisionSafe(target, preferred, n)
    BY <1>2
<1> HIDE DEF intent, preferred
<1>7. PlanFits("select", "write", n, target, beside[n], intent)
    BY <1>1, <1>4, <1>6, CorrectionFits
<1> QED
    BY <1>1, <1>3, <1>4, <1>5, <1>7, PlannedKeeps

LEMMA ClearKeeps ==
    ASSUME EnrichmentAssumption, EnrichmentTypeOK, DirectoryInv, NEW n \in Names, Clear(n)
    PROVE  DirectoryInv'
<1>1. /\ Resting /\ media[n] # Nothing /\ Found(n) /\ UNCHANGED <<stage, home, media, beside>>
    BY DEF Clear
<1>2. PICK target \in Names :
        /\ CollisionSafe(target, beside[n].fallback, n)
        /\ Begin("clear", "write", n, target, beside[n],
                 [beside[n] EXCEPT !.names = target, !.meeting = Nothing])
    BY DEF Clear
<1> DEFINE intent == [beside[n] EXCEPT !.names = target, !.meeting = Nothing]
<1>3. beside[n] \in Sidecar
    BY <1>1, FindsOwn, SidecarFields DEF DirectoryInv
<1>4. /\ intent \in Sidecar /\ intent.names = target
      /\ intent.capture = beside[n].capture /\ intent.tagged = beside[n].tagged
    BY <1>3 DEF Sidecar
<1>5. Begin("clear", "write", n, target, beside[n], intent)
    BY <1>2
<1> HIDE DEF intent
<1>6. PlanFits("clear", "write", n, target, beside[n], intent)
    BY <1>1, <1>2, <1>4, CorrectionFits
<1> QED
    BY <1>1, <1>3, <1>4, <1>5, <1>6, PlannedKeeps

(* A recovery takes up a move where it was left.                                    *)
LEMMA RecoverKeeps ==
    ASSUME EnrichmentAssumption, EnrichmentTypeOK, DirectoryInv, NEW n \in Names, Recover(n)
    PROVE  DirectoryInv'
<1>1. Resting /\ media[n] # Nothing /\ UNCHANGED <<stage, home, media, beside>>
    BY DEF Recover
<1>2. PICK source \in Names, target \in Names :
        /\ Recoverable(n, source, target)
        /\ Begin("recover", IF media[source] # Nothing THEN "unlink" ELSE "relink",
                 source, target, beside[source], beside[source])
    BY DEF Recover
<1> DEFINE step == IF media[source] # Nothing THEN "unlink" ELSE "relink"
<1>3. /\ Loadable(source) /\ beside[source] # Nothing /\ beside[source].names = target
      /\ source # target /\ beside[source].capture = media[n]
      /\ media[target] = media[n] /\ media[source] \in {Nothing, media[n]}
      /\ beside[target] = Nothing
    BY <1>1, <1>2, RecoversOwn DEF DirectoryInv
<1>4. beside[source] \in Sidecar /\ media[n] \in Recordings
    BY <1>3, SidecarFields
<1>5. \A r : ~Enriching(r)
    BY <1>1 DEF Resting, Enriching
<1>6. stage[media[n]] = "dispatched"
    BY <1>3, <1>5 DEF DirectoryInv, DiskInv, SidecarHolds
<1>7. \A o \in Names \ {source, target} :
        beside[o] # Nothing => beside[o].capture # beside[source].capture
    BY <1>3, LoadableIsOnly DEF DirectoryInv
<1>8. ASSUME NEW r \in Recordings, stage[r] \in {"reserved", "finalized"}
      PROVE  home[r] \notin {source, target}
    <2>1. beside[home[r]] = Nothing /\ media[home[r]] \in {Nothing, r}
        BY <1>5, <1>8 DEF DirectoryInv, DiskInv, HomesHeld
    <2>2. r # media[n]
        BY <1>6, <1>8
    <2> QED
        BY <1>1, <1>3, <2>1, <2>2
<1>9. /\ step \in {"write", "unlink", "relink"} /\ step # "write"
      /\ media[source] = IF step = "unlink" THEN media[n] ELSE Nothing
    BY <1>1, <1>3
<1>10. Begin("recover", step, source, target, beside[source], beside[source])
    BY <1>2
<1> HIDE DEF step
<1>11. PlanFits("recover", step, source, target, beside[source], beside[source])
    BY <1>3, <1>6, <1>7, <1>8, <1>9 DEF PlanFits, Operations
<1> QED
    BY <1>1, <1>4, <1>10, <1>11, PlannedKeeps

(* A step of a transaction touches its own two names and leaves there no trace of     *)
(* another recording.                                                             *)
Touches ==
    /\ home' = home
    /\ \A n \in Names \ {txn.source, txn.target} :
            media'[n] = media[n] /\ beside'[n] = beside[n]
    /\ \A n \in {txn.source, txn.target} :
            /\ media'[n] \in {Nothing, txn.intent.capture}
            /\ beside'[n] # Nothing =>
                /\ beside'[n].capture = txn.intent.capture
                /\ media'[n] = Nothing => media'[beside'[n].names] = txn.intent.capture
    /\ beside'[txn.source] # Nothing /\ beside'[txn.target] # Nothing =>
            beside'[txn.source] = beside'[txn.target]

(* The names of a transaction hold its media or none.                              *)
LEMMA PlacesOwn ==
    ASSUME EnrichmentTypeOK, PlaceHolds, txn # Nothing
    PROVE  /\ media[txn.source] \in {Nothing, txn.intent.capture}
           /\ media[txn.target] \in {Nothing, txn.intent.capture}
<1>1. txn.step \in Steps
    BY DEF EnrichmentTypeOK, Transaction
<1> QED
    BY <1>1 DEF PlaceHolds, AtSource, AtTarget, Steps

(* How a transaction goes on or ends, as its recording sees it.                      *)
LEMMA Onward ==
    ASSUME EnrichmentTypeOK, PlanHolds, txn # Nothing,
           NEW own \in Recordings, own = txn.intent.capture,
           \/ \E step \in Steps : Goto(step)
           \/ \E path \in Names, outcome \in {"success", "partial", "failed"} : End(path, outcome)
    PROVE  /\ stage[own] \in {"finalized", "dispatched"}
           /\ stage'[own] \in {"finalized", "dispatched"}
           /\ stage'[own] = "dispatched" \/ Enriching(own)'
           /\ \A q \in Recordings : q # own => stage'[q] = stage[q] /\ ~Enriching(q) /\ ~Enriching(q)'
           /\ stage'[own] = "finalized" => Enriching(own)' /\ stage[own] = "finalized"
<1>2. /\ txn.op = "enrich" => stage[own] = "finalized"
      /\ txn.op # "enrich" => stage[own] = "dispatched"
    BY DEF PlanHolds
<1>3. ASSUME NEW step \in Steps, Goto(step)
      PROVE  stage' = stage /\ txn' # Nothing /\ txn'.op = txn.op /\ txn'.intent = txn.intent
    <2>1. /\ stage' = stage /\ txn' = [txn EXCEPT !.step = step]
          /\ txn'.op = txn.op /\ txn'.intent = txn.intent
        BY <1>3, GotoTypes DEF Goto
    <2>2. txn' \in Transaction
        BY <1>3, <2>1 DEF EnrichmentTypeOK, Transaction
    <2> QED
        BY <2>1, <2>2, AbsenceAssumption
<1>4. ASSUME NEW path \in Names, NEW outcome \in {"success", "partial", "failed"},
             End(path, outcome)
      PROVE  /\ txn' = Nothing
             /\ stage'[own] = "dispatched"
             /\ \A q \in Recordings : q # own => stage'[q] = stage[q]
    BY <1>2, <1>4 DEF End, EnrichmentTypeOK
<1>5. CASE \E step \in Steps : Goto(step)
    BY <1>2, <1>3, <1>5 DEF Enriching
<1>6. CASE \E path \in Names, outcome \in {"success", "partial", "failed"} : End(path, outcome)
    BY <1>2, <1>4, <1>6 DEF Enriching
<1> QED
    BY <1>5, <1>6

(* A step that touches only its own names keeps the directory sound.                *)
LEMMA TouchKeeps ==
    ASSUME EnrichmentAssumption, EnrichmentTypeOK, HomesNamed, DirectoryInv, txn # Nothing, Touches,
           \/ \E step \in Steps : Goto(step)
           \/ \E path \in Names, outcome \in {"success", "partial", "failed"} : End(path, outcome)
    PROVE  DiskInv'
<1>0. PlanHolds /\ PlaceHolds /\ HomesHeld /\ MediaFinalized /\ OneSidecar
    BY DEF DirectoryInv, DiskInv
<1> DEFINE source == txn.source
           target == txn.target
<1>1. PICK own \in Recordings : own = txn.intent.capture
    BY TransactionFields DEF Sidecar
<1>11. /\ own = txn.intent.capture /\ own # Nothing
       /\ stage[own] \in {"finalized", "dispatched"}
       /\ stage'[own] \in {"finalized", "dispatched"}
       /\ stage'[own] = "dispatched" \/ Enriching(own)'
       /\ \A q \in Recordings : q # own => stage'[q] = stage[q] /\ ~Enriching(q) /\ ~Enriching(q)'
       /\ stage'[own] = "finalized" => Enriching(own)' /\ stage[own] = "finalized"
    BY <1>0, <1>1, Onward DEF EnrichmentAssumption
<1>2. source \in Names /\ target \in Names
    BY TransactionFields
<1>3. /\ home' = home
      /\ \A n \in Names \ {source, target} : media'[n] = media[n] /\ beside'[n] = beside[n]
      /\ \A n \in {source, target} :
            /\ media'[n] \in {Nothing, own}
            /\ beside'[n] # Nothing =>
                /\ beside'[n].capture = own
                /\ media'[n] = Nothing => media'[beside'[n].names] = own
      /\ beside'[source] # Nothing /\ beside'[target] # Nothing => beside'[source] = beside'[target]
    BY <1>11 DEF Touches
<1>4. \A n \in Names \ {source, target} : beside[n] # Nothing => beside[n].capture # own
    BY <1>0, <1>11 DEF PlanHolds
<1>5. media[source] \in {Nothing, own} /\ media[target] \in {Nothing, own}
    BY <1>0, <1>11, PlacesOwn
<1>6. \A q \in Recordings :
        q # own /\ stage[q] \in {"reserved", "finalized"} => home[q] \in Names \ {source, target}
    BY <1>0, <1>11 DEF PlanHolds, HomesNamed
<1> HIDE DEF source, target
<1>7. HomesHeld'
    <2>1. ASSUME NEW q \in Recordings
          PROVE  /\ stage'[q] = "reserved" =>
                        media'[home'[q]] = Nothing /\ beside'[home'[q]] = Nothing
                 /\ stage'[q] = "finalized" /\ ~Enriching(q)' =>
                        media'[home'[q]] = q /\ beside'[home'[q]] = Nothing
        <3>1. CASE q = own
            BY <1>11, <3>1
        <3>2. CASE q # own
            BY <1>0, <1>11, <1>3, <1>6, <3>2 DEF HomesHeld
        <3> QED
            BY <3>1, <3>2
    <2>2. \A q, p \in Recordings :
            q # p /\ stage[q] \in {"reserved", "finalized"} /\ stage[p] \in {"reserved", "finalized"}
                => home[q] # home[p]
        BY <1>0 DEF HomesHeld
    <2>3. \A q \in Recordings : stage'[q] \in {"reserved", "finalized"} =>
            \/ q = own /\ stage'[own] = "finalized"
            \/ q # own /\ stage[q] \in {"reserved", "finalized"}
        BY <1>11
    <2>5. \A q, p \in Recordings :
            q # p /\ stage'[q] \in {"reserved", "finalized"} /\ stage'[p] \in {"reserved", "finalized"}
                => home'[q] # home'[p]
        BY <1>3, <1>11, <2>2, <2>3
    <2> QED
        BY <2>1, <2>5 DEF HomesHeld
<1>8. MediaFinalized'
    <2>1. ASSUME NEW n \in Names, media'[n] # Nothing
          PROVE  stage'[media'[n]] \in {"finalized", "dispatched"}
        <3>1. CASE n \in {source, target}
            BY <1>11, <1>3, <2>1, <3>1
        <3>2. CASE n \notin {source, target}
            <4>1. media'[n] = media[n] /\ media[n] \in Recordings
                BY <1>3, <2>1, <3>2 DEF EnrichmentTypeOK
            <4>2. stage[media[n]] \in {"finalized", "dispatched"}
                BY <1>0, <2>1, <4>1 DEF MediaFinalized, Finalized
            <4> QED
                BY <1>11, <4>1, <4>2
        <3> QED
            BY <3>1, <3>2
    <2> QED
        BY <2>1 DEF MediaFinalized, Finalized
<1>9. ASSUME NEW n \in Names
      PROVE  SidecarHolds(n)'
    <2>1. CASE n \in {source, target}
        BY <1>11, <1>3, <2>1 DEF SidecarHolds
    <2>2. CASE n \notin {source, target}
        <3> SUFFICES ASSUME beside[n] # Nothing
                     PROVE  /\ stage'[beside[n].capture] = "dispatched"
                            /\ media'[n] \in {Nothing, beside[n].capture}
                            /\ media'[n] = Nothing => media'[beside[n].names] = beside[n].capture
            BY <1>3, <2>2 DEF SidecarHolds
        <3>1. SidecarHolds(n)
            BY DEF DirectoryInv, DiskInv
        <3>2. /\ beside[n].capture \in Recordings /\ beside[n].names \in Names
              /\ beside[n].capture # Nothing /\ beside[n].capture # own
            BY <1>4, <2>2, SidecarFields
        <3>3. stage'[beside[n].capture] = "dispatched"
            BY <1>11, <3>1, <3>2 DEF SidecarHolds
        <3>4. media'[n] = media[n]
            BY <1>3, <2>2
        <3>5. media[n] = Nothing => beside[n].names \notin {source, target}
            BY <1>5, <3>1, <3>2 DEF SidecarHolds
        <3> QED
            BY <1>3, <3>1, <3>2, <3>3, <3>4, <3>5 DEF SidecarHolds
    <2> QED
        BY <2>1, <2>2
<1>10. OneSidecar'
    <2>1. ASSUME NEW n \in Names, beside'[n] # Nothing
          PROVE  /\ n \in {source, target} => beside'[n].capture = own
                 /\ n \notin {source, target} => beside'[n] = beside[n] /\ beside[n].capture # own
        BY <1>3, <1>4, <2>1
    <2>2. ASSUME NEW n \in Names, NEW o \in Names, beside'[n] # Nothing, beside'[o] # Nothing,
                 beside'[n].capture = beside'[o].capture
          PROVE  beside'[n] = beside'[o]
        <3>1. CASE n \in {source, target}
            BY <1>3, <2>1, <2>2, <3>1
        <3>2. CASE n \notin {source, target}
            BY <1>0, <2>1, <2>2, <3>2 DEF OneSidecar
        <3> QED
            BY <3>1, <3>2
    <2> QED
        BY <2>2 DEF OneSidecar
<1> QED
    BY <1>7, <1>8, <1>9, <1>10 DEF DiskInv

(* A transaction that goes on keeps its plan and has nothing to report.               *)
LEMMA GoKeeps ==
    ASSUME EnrichmentAssumption, EnrichmentTypeOK, HomesNamed, DirectoryInv, txn # Nothing, Touches,
           NEW step \in Steps, Goto(step), PlaceHolds'
    PROVE  DirectoryInv'
<1>1. /\ stage' = stage /\ report' = report /\ home' = home
      /\ txn'.op = txn.op /\ txn'.source = txn.source /\ txn'.target = txn.target
      /\ txn'.intent = txn.intent /\ txn' = [txn EXCEPT !.step = step]
    BY GotoTypes DEF Goto, Touches
<1>2. txn'.original = txn.original
    BY <1>1 DEF EnrichmentTypeOK, Transaction
<1>3. txn' # Nothing
    <2>1. txn' \in Transaction
        BY <1>1 DEF EnrichmentTypeOK, Transaction
    <2> QED
        BY <2>1, AbsenceAssumption
<1>4. \A q : Enriching(q)' <=> Enriching(q)
    BY <1>1, <1>3 DEF Enriching
<1>5. PlanHolds'
    <2>1. PlanHolds
        BY DEF DirectoryInv
    <2>2. \A n \in Names \ {txn.source, txn.target} : beside'[n] = beside[n]
        BY DEF Touches
    <2> QED
        BY <1>1, <1>2, <1>4, <2>1, <2>2 DEF PlanHolds
<1>6. DiskInv'
    BY TouchKeeps
<1>7. ReportHolds'
    BY <1>1 DEF DirectoryInv, ReportHolds
<1> QED
    BY <1>5, <1>6, <1>7 DEF DirectoryInv

(* A transaction that ends leaves what it reports.                                  *)
LEMMA EndHolds ==
    ASSUME EnrichmentAssumption, EnrichmentTypeOK, HomesNamed, DirectoryInv, txn # Nothing, Touches,
           NEW path \in Names, NEW outcome \in {"success", "partial", "failed"},
           End(path, outcome),
           media'[path] = txn.intent.capture,
           outcome = "success" /\ Keeps =>
                /\ path = txn.target /\ beside'[txn.target] = txn.intent
                /\ txn.source # txn.target => beside'[txn.source] = Nothing,
           outcome = "success" /\ ~Keeps =>
                beside'[txn.source] = Nothing /\ beside'[txn.target] = Nothing
    PROVE  DirectoryInv'
<1>1. /\ txn' = Nothing /\ report'.op = txn.op /\ report'.path = path
      /\ report'.outcome = outcome /\ report'.recording = txn.intent.capture
      /\ report'.intent = txn.intent
    BY DEF End
<1>2. DiskInv'
    BY TouchKeeps
<1>3. \A n \in Names : beside'[n] # Nothing /\ beside'[n].capture = txn.intent.capture =>
            n \in {txn.source, txn.target}
    BY DEF Touches, DirectoryInv, PlanHolds
<1>4. Keeps <=> ~Cleared'
    BY <1>1 DEF Keeps, Cleared
<1>5. txn.intent.names = txn.target
    BY DEF DirectoryInv, PlanHolds
<1>6. ReportHolds'
    <2>1. ASSUME outcome = "success", Keeps
          PROVE  /\ beside'[path] = txn.intent /\ txn.intent.names = path
                 /\ \A n \in Names : beside'[n] # Nothing /\ beside'[n].capture = txn.intent.capture
                        => n = path
        BY <1>3, <1>5, <2>1
    <2>2. ASSUME outcome = "success", ~Keeps
          PROVE  \A n \in Names : ~(beside'[n] # Nothing /\ beside'[n].capture = txn.intent.capture)
        BY <1>3, <2>2
    <2> QED
        BY <1>1, <1>4, <2>1, <2>2 DEF ReportHolds
<1> QED
    BY <1>1, <1>2, <1>6 DEF DirectoryInv, PlanHolds, PlaceHolds

(* The two names of a transaction after a step, in place of a quantifier.           *)
LEMMA TouchesTwo ==
    ASSUME EnrichmentTypeOK, PlanHolds, txn # Nothing, home' = home,
           NEW ms, NEW mt, NEW bs, NEW bt,
           media'[txn.source] = ms, media'[txn.target] = mt,
           beside'[txn.source] = bs, beside'[txn.target] = bt,
           \A n \in Names \ {txn.source, txn.target} :
                media'[n] = media[n] /\ beside'[n] = beside[n],
           ms \in {Nothing, txn.intent.capture}, mt \in {Nothing, txn.intent.capture},
           bs \in {Nothing, txn.original, txn.intent}, bt \in {Nothing, txn.intent, bs},
           bs # Nothing /\ bt # Nothing => bs = bt,
           ms = Nothing /\ bs # Nothing => bs = txn.intent /\ mt = txn.intent.capture,
           mt = Nothing /\ bt # Nothing => txn.source = txn.target
    PROVE  Touches
<1>1. txn.intent.names = txn.target
    BY DEF PlanHolds
<1>2. txn.original # Nothing => txn.original.capture = txn.intent.capture
    BY DEF PlanHolds
<1>3. txn.source = txn.target => ms = mt /\ bs = bt
    OBVIOUS
<1> QED
    BY <1>1, <1>2, <1>3 DEF Touches

(* What the fields of a transaction are after a step, and that it is still there.    *)
LEMMA GoneTo ==
    ASSUME EnrichmentTypeOK, txn # Nothing, NEW step \in Steps, Goto(step)
    PROVE  /\ txn'.op = txn.op /\ txn'.source = txn.source /\ txn'.target = txn.target
           /\ txn'.intent = txn.intent /\ txn'.original = txn.original /\ txn'.step = step
<1>1. txn' = [txn EXCEPT !.step = step] /\ txn \in Transaction
    BY DEF Goto, EnrichmentTypeOK
<1> QED
    BY <1>1 DEF Transaction

(* The steps of a transaction, each with what the two names hold before and after.   *)
LEMMA WriteKeeps ==
    ASSUME EnrichmentAssumption, EnrichmentTypeOK, HomesNamed, DirectoryInv, WriteIntent
    PROVE  DirectoryInv'
<1>1. /\ txn # Nothing /\ txn.step = "write" /\ home' = home /\ media' = media
      /\ beside' = [beside EXCEPT ![txn.source] = txn.intent]
    BY DEF WriteIntent, AtStep
<1>2. /\ txn.source \in Names /\ txn.target \in Names
    BY <1>1, TransactionFields
<1>3. /\ media[txn.source] = txn.intent.capture /\ txn.op # "recover"
      /\ txn.source # txn.target => media[txn.target] = Nothing /\ beside[txn.target] = Nothing
    BY <1>1 DEF DirectoryInv, PlaceHolds, AtSource, AtTarget
<1>4. /\ beside'[txn.source] = txn.intent
      /\ \A n \in Names \ {txn.source} : beside'[n] = beside[n]
    BY <1>1, <1>2 DEF EnrichmentTypeOK
<1>5. Touches
    <2>1. CASE txn.source = txn.target
        BY <1>1, <1>2, <1>3, <1>4, <2>1, TouchesTwo DEF DirectoryInv
    <2>2. CASE txn.source # txn.target
        BY <1>1, <1>2, <1>3, <1>4, <2>2, TouchesTwo DEF DirectoryInv
    <2> QED
        BY <2>1, <2>2
<1>6. CASE txn.target # txn.source
    <2>1. Goto("link") /\ "link" \in Steps
        BY <1>6 DEF WriteIntent, Steps
    <2>2. PlaceHolds'
        BY <1>1, <1>2, <1>3, <1>4, <1>6, <2>1, GoneTo DEF PlaceHolds, AtSource, AtTarget
    <2> QED
        BY <1>1, <1>5, <2>1, <2>2, GoKeeps
<1>7. CASE txn.target = txn.source /\ Keeps
    <2>1. End(txn.source, "success")
        BY <1>7 DEF WriteIntent
    <2> QED
        BY <1>1, <1>2, <1>3, <1>4, <1>5, <1>7, <2>1, EndHolds
<1>8. CASE txn.target = txn.source /\ ~Keeps
    <2>1. Goto("remove") /\ "remove" \in Steps
        BY <1>8 DEF WriteIntent, Steps
    <2>2. PlaceHolds'
        BY <1>1, <1>2, <1>3, <1>4, <1>8, <2>1, GoneTo DEF PlaceHolds, AtSource, AtTarget, Keeps
    <2> QED
        BY <1>1, <1>5, <2>1, <2>2, GoKeeps
<1> QED
    BY <1>6, <1>7, <1>8

LEMMA LinkKeeps ==
    ASSUME EnrichmentAssumption, EnrichmentTypeOK, HomesNamed, DirectoryInv, LinkMedia
    PROVE  DirectoryInv'
<1>1. /\ txn # Nothing /\ txn.step = "link" /\ home' = home /\ beside' = beside
      /\ media' = [media EXCEPT ![txn.target] = media[txn.source]]
      /\ Goto("unlink") /\ "unlink" \in Steps
    BY DEF LinkMedia, AtStep, Steps
<1>2. /\ txn.source \in Names /\ txn.target \in Names
    BY <1>1, TransactionFields
<1>3. /\ media[txn.source] = txn.intent.capture /\ beside[txn.source] = txn.intent
      /\ txn.source # txn.target /\ beside[txn.target] = Nothing
    BY <1>1 DEF DirectoryInv, PlaceHolds, AtSource, AtTarget
<1>4. /\ media'[txn.source] = txn.intent.capture /\ media'[txn.target] = txn.intent.capture
      /\ \A n \in Names \ {txn.target} : media'[n] = media[n]
    BY <1>1, <1>2, <1>3 DEF EnrichmentTypeOK
<1>5. Touches
    BY <1>1, <1>2, <1>3, <1>4, TouchesTwo DEF DirectoryInv
<1>6. PlaceHolds'
    BY <1>1, <1>3, <1>4, GoneTo DEF PlaceHolds, AtSource, AtTarget
<1> QED
    BY <1>1, <1>5, <1>6, GoKeeps

LEMMA UnlinkMediaKeeps ==
    ASSUME EnrichmentAssumption, EnrichmentTypeOK, HomesNamed, DirectoryInv,
           UnlinkMedia \/ UnlinkUnsynced
    PROVE  DirectoryInv'
<1>1. /\ txn # Nothing /\ txn.step = "unlink" /\ home' = home /\ beside' = beside
      /\ media' = [media EXCEPT ![txn.source] = Nothing]
    BY DEF UnlinkMedia, UnlinkUnsynced, AtStep
<1>2. /\ txn.source \in Names /\ txn.target \in Names
    BY <1>1, TransactionFields
<1>3. /\ media[txn.target] = txn.intent.capture /\ beside[txn.source] = txn.intent
      /\ txn.source # txn.target /\ beside[txn.target] = Nothing
    BY <1>1 DEF DirectoryInv, PlaceHolds, AtSource, AtTarget
<1>4. /\ media'[txn.source] = Nothing /\ media'[txn.target] = txn.intent.capture
      /\ \A n \in Names \ {txn.source} : media'[n] = media[n]
    BY <1>1, <1>2, <1>3 DEF EnrichmentTypeOK
<1>5. Touches
    BY <1>1, <1>2, <1>3, <1>4, TouchesTwo DEF DirectoryInv
<1>6. CASE UnlinkUnsynced
    <2>1. End(txn.target, "partial")
        BY <1>6 DEF UnlinkUnsynced
    <2> QED
        BY <1>1, <1>2, <1>4, <1>5, <2>1, EndHolds
<1>7. CASE UnlinkMedia /\ Keeps
    <2>1. Goto("relink") /\ "relink" \in Steps
        BY <1>7 DEF UnlinkMedia, Steps
    <2>2. PlaceHolds'
        BY <1>1, <1>3, <1>4, <1>7, <2>1, GoneTo DEF PlaceHolds, AtSource, AtTarget, Keeps
    <2> QED
        BY <1>1, <1>5, <2>1, <2>2, GoKeeps
<1>8. CASE UnlinkMedia /\ ~Keeps
    <2>1. Goto("remove") /\ "remove" \in Steps
        BY <1>8 DEF UnlinkMedia, Steps
    <2>2. PlaceHolds'
        BY <1>1, <1>3, <1>4, <1>8, <2>1, GoneTo DEF PlaceHolds, AtSource, AtTarget, Keeps
    <2> QED
        BY <1>1, <1>5, <2>1, <2>2, GoKeeps
<1> QED
    BY <1>6, <1>7, <1>8

LEMMA RelinkKeeps ==
    ASSUME EnrichmentAssumption, EnrichmentTypeOK, HomesNamed, DirectoryInv, LinkSidecar
    PROVE  DirectoryInv'
<1>1. /\ txn # Nothing /\ txn.step = "relink" /\ home' = home /\ media' = media
      /\ beside' = [beside EXCEPT ![txn.target] = beside[txn.source]]
      /\ Goto("drop") /\ "drop" \in Steps
    BY DEF LinkSidecar, AtStep, Steps
<1>2. /\ txn.source \in Names /\ txn.target \in Names
    BY <1>1, TransactionFields
<1>3. /\ media[txn.source] = Nothing /\ media[txn.target] = txn.intent.capture
      /\ beside[txn.source] = txn.intent /\ txn.source # txn.target /\ Keeps
    BY <1>1 DEF DirectoryInv, PlaceHolds, AtSource, AtTarget
<1>4. /\ beside'[txn.source] = txn.intent /\ beside'[txn.target] = txn.intent
      /\ \A n \in Names \ {txn.target} : beside'[n] = beside[n]
    BY <1>1, <1>2, <1>3 DEF EnrichmentTypeOK
<1>5. media[txn.target] # Nothing
    BY <1>1, <1>3, TransactionFields DEF Sidecar, EnrichmentAssumption
<1>6. Touches
    BY <1>1, <1>2, <1>3, <1>4, <1>5, TouchesTwo DEF DirectoryInv
<1>7. PlaceHolds'
    BY <1>1, <1>3, <1>4, GoneTo DEF PlaceHolds, AtSource, AtTarget, Keeps
<1> QED
    BY <1>1, <1>6, <1>7, GoKeeps

(* The sidecar leaves the source, or the move of it fails.                          *)
LEMMA DropKeeps ==
    ASSUME EnrichmentAssumption, EnrichmentTypeOK, HomesNamed, DirectoryInv,
           DropSidecar \/ SidecarMoveFails
    PROVE  DirectoryInv'
<1>1. /\ txn # Nothing /\ txn.step \in {"relink", "drop", "remove"}
      /\ home' = home /\ media' = media
      /\ \/ beside' = beside /\ txn.step # "remove"
         \/ beside' = [beside EXCEPT ![txn.source] = Nothing] /\ txn.step # "relink"
      /\ \/ txn.step # "remove" /\ End(txn.target, "partial")
         \/ beside' = [beside EXCEPT ![txn.source] = Nothing] /\ End(txn.target, "success")
    BY DEF DropSidecar, SidecarMoveFails
<1>2. txn.source \in Names /\ txn.target \in Names
    BY <1>1, TransactionFields
<1>3. /\ media[txn.target] = txn.intent.capture
      /\ media[txn.source] = IF txn.source = txn.target THEN txn.intent.capture ELSE Nothing
      /\ beside[txn.source] = txn.intent
      /\ txn.step = "drop" =>
            txn.source # txn.target /\ beside[txn.target] = txn.intent /\ Keeps
      /\ txn.step = "relink" => txn.source # txn.target /\ beside[txn.target] = Nothing /\ Keeps
      /\ txn.step = "remove" =>
            /\ ~Keeps
            /\ txn.source # txn.target => beside[txn.target] = Nothing
    BY <1>1 DEF DirectoryInv, PlaceHolds, AtSource, AtTarget
<1>4. txn.intent.capture # Nothing
    BY <1>1, TransactionFields DEF Sidecar, EnrichmentAssumption
<1>5. CASE beside' = beside /\ txn.step # "remove"
    <2>1. Touches
        BY <1>1, <1>2, <1>3, <1>4, <1>5, TouchesTwo DEF DirectoryInv
    <2>2. CASE End(txn.target, "partial")
        BY <1>1, <1>2, <1>3, <2>1, <2>2, EndHolds
    <2>3. CASE beside' = [beside EXCEPT ![txn.source] = Nothing] /\ End(txn.target, "success")
        <3>1. beside'[txn.source] = Nothing
            BY <1>2, <2>3 DEF EnrichmentTypeOK
        <3>2. txn.intent # Nothing
            BY <1>1, TransactionFields, AbsenceAssumption
        <3> QED
            BY <1>3, <1>5, <3>1, <3>2
    <2> QED
        BY <1>1, <2>2, <2>3
<1>6. CASE beside' = [beside EXCEPT ![txn.source] = Nothing] /\ txn.step # "relink"
    <2>1. /\ beside'[txn.source] = Nothing
          /\ \A n \in Names \ {txn.source} : beside'[n] = beside[n]
        BY <1>2, <1>6 DEF EnrichmentTypeOK
    <2>2. CASE txn.source = txn.target
        <3>1. Touches
            BY <1>1, <1>2, <1>3, <1>4, <2>1, <2>2, TouchesTwo DEF DirectoryInv
        <3> QED
            BY <1>1, <1>2, <1>3, <2>1, <2>2, <3>1, EndHolds
    <2>3. CASE txn.source # txn.target
        <3>1. Touches
            BY <1>1, <1>2, <1>3, <1>4, <2>1, <2>3, <1>6, TouchesTwo DEF DirectoryInv
        <3> QED
            BY <1>1, <1>2, <1>3, <1>6, <2>1, <2>3, <3>1, EndHolds
    <2> QED
        BY <2>2, <2>3
<1> QED
    BY <1>1, <1>5, <1>6

(* The original metadata comes back, or the restoration fails half way.              *)
LEMMA RestoreKeeps ==
    ASSUME EnrichmentAssumption, EnrichmentTypeOK, HomesNamed, DirectoryInv,
           RestoreSidecar \/ RestoreFails
    PROVE  DirectoryInv'
<1>1. /\ txn # Nothing /\ txn.step = "restore" /\ home' = home /\ media' = media
      /\ beside' = beside \/ beside' = [beside EXCEPT ![txn.source] = txn.original]
      /\ End(txn.source, "failed")
    BY DEF RestoreSidecar, RestoreFails, AtStep
<1>2. txn.source \in Names /\ txn.target \in Names
    BY <1>1, TransactionFields
<1>3. /\ media[txn.source] = txn.intent.capture
      /\ beside[txn.source] \in {txn.original, txn.intent, Nothing}
      /\ media[txn.target] \in {Nothing, txn.intent.capture}
      /\ txn.source # txn.target => beside[txn.target] = Nothing
    BY <1>1 DEF DirectoryInv, PlaceHolds, AtSource, AtTarget
<1>4. txn.intent.capture # Nothing
    BY <1>1, TransactionFields DEF Sidecar, EnrichmentAssumption
<1>5. /\ beside'[txn.source] \in {txn.original, txn.intent, Nothing}
      /\ \A n \in Names \ {txn.source} : beside'[n] = beside[n]
    BY <1>1, <1>2, <1>3 DEF EnrichmentTypeOK
<1>6. Touches
    <2>1. CASE txn.source = txn.target
        BY <1>1, <1>2, <1>3, <1>4, <1>5, <2>1, TouchesTwo DEF DirectoryInv
    <2>2. CASE txn.source # txn.target
        BY <1>1, <1>2, <1>3, <1>4, <1>5, <2>2, TouchesTwo DEF DirectoryInv
    <2> QED
        BY <2>1, <2>2
<1> QED
    BY <1>1, <1>2, <1>3, <1>6, EndHolds

(* A failed write may have replaced the sidecar; a failed move leaves both names.    *)
LEMMA WriteFailsKeeps ==
    ASSUME EnrichmentAssumption, EnrichmentTypeOK, HomesNamed, DirectoryInv, WriteFails
    PROVE  DirectoryInv'
<1>1. /\ txn # Nothing /\ txn.step = "write" /\ home' = home /\ media' = media
      /\ beside' \in {beside, [beside EXCEPT ![txn.source] = txn.intent]}
    BY DEF WriteFails, AtStep
<1>2. /\ txn.source \in Names /\ txn.target \in Names
    BY <1>1, TransactionFields
<1>3. /\ media[txn.source] = txn.intent.capture /\ txn.op # "recover"
      /\ beside[txn.source] = txn.original
      /\ txn.source # txn.target => media[txn.target] = Nothing /\ beside[txn.target] = Nothing
    BY <1>1 DEF DirectoryInv, PlaceHolds, AtSource, AtTarget
<1>4. txn.intent # Nothing /\ txn.intent.capture # Nothing
    BY <1>1, TransactionFields, AbsenceAssumption DEF Sidecar, EnrichmentAssumption
<1>5. /\ beside'[txn.source] \in {txn.original, txn.intent}
      /\ \A n \in Names \ {txn.source} : beside'[n] = beside[n]
    BY <1>1, <1>2, <1>3 DEF EnrichmentTypeOK
<1>6. Touches
    <2>1. CASE txn.source = txn.target
        BY <1>1, <1>2, <1>3, <1>4, <1>5, <2>1, TouchesTwo DEF DirectoryInv
    <2>2. CASE txn.source # txn.target
        BY <1>1, <1>2, <1>3, <1>4, <1>5, <2>2, TouchesTwo DEF DirectoryInv
    <2> QED
        BY <2>1, <2>2
<1>7. CASE txn.op = "enrich"
    <2>1. End(txn.source, "failed")
        BY <1>7 DEF WriteFails
    <2> QED
        BY <1>1, <1>2, <1>3, <1>6, <2>1, EndHolds
<1>8. CASE txn.op # "enrich"
    <2>1. Goto("restore") /\ "restore" \in Steps
        BY <1>8 DEF WriteFails, Steps
    <2>2. txn.original # Nothing
        BY <1>1, <1>8 DEF DirectoryInv, PlanHolds
    <2>3. beside'[txn.source] # Nothing
        BY <1>4, <1>5, <2>2
    <2>4. PlaceHolds'
        BY <1>1, <1>2, <1>3, <1>5, <2>1, <2>3, GoneTo DEF PlaceHolds, AtSource, AtTarget
    <2> QED
        BY <1>1, <1>6, <2>1, <2>4, GoKeeps
<1> QED
    BY <1>7, <1>8

LEMMA MoveFailsKeeps ==
    ASSUME EnrichmentAssumption, EnrichmentTypeOK, HomesNamed, DirectoryInv,
           LinkFails \/ UnlinkFails
    PROVE  DirectoryInv'
<1>1. /\ txn # Nothing /\ txn.step \in {"link", "unlink"} /\ home' = home /\ media' = media
      /\ beside' = beside
    BY DEF LinkFails, UnlinkFails, AtStep
<1>2. /\ txn.source \in Names /\ txn.target \in Names
    BY <1>1, TransactionFields
<1>3. /\ media[txn.source] = txn.intent.capture /\ beside[txn.source] = txn.intent
      /\ media[txn.target] \in {Nothing, txn.intent.capture}
      /\ txn.source # txn.target /\ beside[txn.target] = Nothing
      /\ txn.step = "link" => txn.op # "recover"
    BY <1>1 DEF DirectoryInv, PlaceHolds, AtSource, AtTarget
<1>4. txn.intent # Nothing /\ txn.intent.capture # Nothing
    BY <1>1, TransactionFields, AbsenceAssumption DEF Sidecar, EnrichmentAssumption
<1>5. Touches
    BY <1>1, <1>2, <1>3, <1>4, TouchesTwo DEF DirectoryInv
<1>6. CASE txn.op = "recover"
    <2>1. End(txn.source, "failed")
        BY <1>1, <1>3, <1>6 DEF LinkFails, UnlinkFails, AtStep
    <2> QED
        BY <1>1, <1>2, <1>3, <1>5, <2>1, EndHolds
<1>7. CASE txn.op # "recover"
    <2>1. Goto("restore") /\ "restore" \in Steps
        BY <1>7 DEF LinkFails, UnlinkFails, Steps
    <2>2. PlaceHolds'
        BY <1>1, <1>3, <1>4, <1>7, <2>1, GoneTo DEF PlaceHolds, AtSource, AtTarget
    <2> QED
        BY <1>1, <1>5, <2>1, <2>2, GoKeeps
<1> QED
    BY <1>6, <1>7

LEMMA RemoveFailsKeeps ==
    ASSUME EnrichmentAssumption, EnrichmentTypeOK, HomesNamed, DirectoryInv, RemoveFails
    PROVE  DirectoryInv'
<1>1. /\ txn # Nothing /\ txn.step = "remove" /\ home' = home /\ media' = media
      /\ beside' \in {beside, [beside EXCEPT ![txn.source] = Nothing]}
    BY DEF RemoveFails, AtStep
<1>2. /\ txn.source \in Names /\ txn.target \in Names
    BY <1>1, TransactionFields
<1>3. /\ media[txn.target] = txn.intent.capture
      /\ media[txn.source] = IF txn.source = txn.target THEN txn.intent.capture ELSE Nothing
      /\ beside[txn.source] = txn.intent
      /\ txn.source # txn.target => beside[txn.target] = Nothing
      /\ txn.op = "clear" /\ ~txn.intent.tagged
    BY <1>1 DEF DirectoryInv, PlaceHolds, AtSource, AtTarget, Keeps
<1>4. txn.intent # Nothing /\ txn.intent.capture # Nothing
    BY <1>1, TransactionFields, AbsenceAssumption DEF Sidecar, EnrichmentAssumption
<1>5. /\ beside'[txn.source] \in {Nothing, txn.intent}
      /\ \A n \in Names \ {txn.source} : beside'[n] = beside[n]
    BY <1>1, <1>2, <1>3 DEF EnrichmentTypeOK
<1>6. CASE txn.source = txn.target
    <2>1. Touches
        BY <1>1, <1>2, <1>3, <1>4, <1>5, <1>6, TouchesTwo DEF DirectoryInv
    <2>2. Goto("restore") /\ "restore" \in Steps
        BY <1>6 DEF RemoveFails, Steps
    <2>3. PlaceHolds'
        BY <1>1, <1>3, <1>5, <1>6, <2>2, GoneTo DEF PlaceHolds, AtSource, AtTarget
    <2> QED
        BY <1>1, <2>1, <2>2, <2>3, GoKeeps
<1>7. CASE txn.source # txn.target
    <2>1. Touches
        BY <1>1, <1>2, <1>3, <1>4, <1>5, <1>7, TouchesTwo DEF DirectoryInv
    <2>2. End(txn.target, "partial")
        BY <1>7 DEF RemoveFails
    <2> QED
        BY <1>1, <1>2, <1>3, <2>1, <2>2, EndHolds
<1> QED
    BY <1>6, <1>7

LEMMA DirectoryInit ==
    ASSUME EnrichmentAssumption, Init
    PROVE  DirectoryInv
BY DEF EnrichmentAssumption, Init, DirectoryInv, DiskInv, HomesHeld, MediaFinalized, OneSidecar,
    SidecarHolds, PlanHolds, PlaceHolds, ReportHolds

LEMMA DirectoryStep ==
    ASSUME EnrichmentAssumption, EnrichmentTypeOK, HomesNamed, DirectoryInv, Next
    PROVE  DirectoryInv'
<1>1. CASE \E r \in Recordings : Daemon(r)
    BY <1>1, ReserveKeeps, FinalizeKeeps, EnrichKeeps DEF Daemon
<1>2. CASE \E n \in Names : Correction(n)
    BY <1>2, SelectKeeps, ClearKeeps, RecoverKeeps DEF Correction
<1>3. CASE Step
    BY <1>3, WriteKeeps, LinkKeeps, UnlinkMediaKeeps, RelinkKeeps, DropKeeps, RestoreKeeps DEF Step
<1>4. CASE Failure
    BY <1>4, WriteFailsKeeps, MoveFailsKeeps, UnlinkMediaKeeps, DropKeeps, RemoveFailsKeeps,
        RestoreKeeps, CorrectionDiesKeeps, DaemonDiesKeeps DEF Failure
<1> QED
    BY <1>1, <1>2, <1>3, <1>4 DEF Next

LEMMA DirectoryStutters ==
    ASSUME DirectoryInv, UNCHANGED vars
    PROVE  DirectoryInv'
<1>1. /\ stage' = stage /\ home' = home /\ media' = media /\ beside' = beside /\ txn' = txn
      /\ report' = report
    BY DEF vars
<1>2. \A q : Enriching(q)' <=> Enriching(q)
    BY <1>1 DEF Enriching
<1>3. HomesHeld'
    BY <1>1, <1>2 DEF DirectoryInv, DiskInv, HomesHeld
<1>4. \A m \in Names : SidecarHolds(m)'
    BY <1>1, <1>2 DEF DirectoryInv, DiskInv, SidecarHolds
<1>5. DiskInv'
    BY <1>1, <1>3, <1>4 DEF DirectoryInv, DiskInv, MediaFinalized, OneSidecar, Finalized
<1>6. PlanHolds'
    BY <1>1, <1>2 DEF DirectoryInv, PlanHolds
<1>7. PlaceHolds'
    BY <1>1, PlaceKept DEF DirectoryInv
<1>8. ReportHolds'
    BY <1>1 DEF DirectoryInv, ReportHolds, Cleared
<1> QED
    BY <1>5, <1>6, <1>7, <1>8 DEF DirectoryInv

(* The directory invariant, inductive over the types and the names of captures: what  *)
(* each name holds, with or without a transaction at work on it, is its recording's.  *)
THEOREM DirectoryInvariant == Spec => [](EnrichmentInv /\ DirectoryInv)
<1>1. Init => EnrichmentInv /\ DirectoryInv
    BY EnrichmentAssumption, InitHolds, DirectoryInit
<1>2. (EnrichmentInv /\ DirectoryInv) /\ [Next]_vars => (EnrichmentInv /\ DirectoryInv)'
    <2> SUFFICES ASSUME EnrichmentInv, DirectoryInv, [Next]_vars
                 PROVE  EnrichmentInv' /\ DirectoryInv'
        OBVIOUS
    <2>1. EnrichmentInv'
        BY EnrichmentAssumption, StepHolds
    <2>2. DirectoryInv'
        BY EnrichmentAssumption, DirectoryStep, DirectoryStutters DEF EnrichmentInv
    <2> QED
        BY <2>1, <2>2
<1> QED
    BY <1>1, <1>2, PTL DEF Spec

(* The name a transaction or a capture found free is free when it is linked: nobody   *)
(* who may take it, however many recordings and deaths there are, does.             *)
THEOREM TargetsStayFree == Spec => []TargetStaysFree
<1>1. EnrichmentInv /\ DirectoryInv => TargetStaysFree
    BY TargetsFree
<1> QED
    BY <1>1, DirectoryInvariant, PTL

(* Whatever was left half done, discovery finds at a name the metadata of the       *)
(* recording that is there, and no other.                                         *)
THEOREM DiscoveryIsOwn == Spec => []DiscoveryFindsOwn
<1>1. EnrichmentInv /\ DirectoryInv => DiscoveryFindsOwn
    BY EnrichmentAssumption, DiscoveryOwn DEF EnrichmentInv
<1> QED
    BY <1>1, DirectoryInvariant, PTL

(* A transaction tells its caller the truth about where the recording and its         *)
(* metadata are.                                                                  *)
THEOREM ReportsAreTrue == Spec => []ReportIsTrue
<1>1. EnrichmentInv /\ DirectoryInv => ReportIsTrue
    BY EnrichmentAssumption, ReportsTrue DEF EnrichmentInv
<1> QED
    BY <1>1, DirectoryInvariant, PTL

(* How a step outside an enrichment changes the sidecars of the directory.           *)
SidecarsMove ==
    \/ beside' = beside
    \/ /\ txn # Nothing /\ txn.step \in {"write", "restore"}
       /\ beside' = [beside EXCEPT ![txn.source] =
                                    IF txn.step = "write" THEN txn.intent ELSE txn.original]
    \/ /\ txn # Nothing /\ txn.step = "relink" /\ beside[txn.target] = Nothing
       /\ beside' = [beside EXCEPT ![txn.target] = beside[txn.source]]
    \/ /\ txn # Nothing /\ txn.step \in {"drop", "remove"}
       /\ beside' = [beside EXCEPT ![txn.source] = Nothing]

LEMMA SidecarsMoveOnly ==
    ASSUME Next
    PROVE  SidecarsMove
<1>1. CASE \E r \in Recordings : Daemon(r)
    BY <1>1 DEF Daemon, Reserve, Finalize, Enrich, SidecarsMove
<1>2. CASE \E n \in Names : Correction(n)
    BY <1>2 DEF Correction, Select, Clear, Recover, SidecarsMove
<1>3. CASE Step
    BY <1>3 DEF Step, WriteIntent, LinkMedia, UnlinkMedia, LinkSidecar, DropSidecar,
        RestoreSidecar, AtStep, SidecarsMove
<1>4. CASE Failure
    BY <1>4 DEF Failure, WriteFails, LinkFails, UnlinkFails, UnlinkUnsynced, SidecarMoveFails,
        RemoveFails, RestoreFails, CorrectionDies, DaemonDies, AtStep, SidecarsMove
<1> QED
    BY <1>1, <1>2, <1>3, <1>4 DEF Next

LEMMA TagsKept ==
    ASSUME EnrichmentAssumption, EnrichmentTypeOK, DirectoryInv, SidecarsMove,
           NEW r \in Recordings, TaggedSidecar(r)
    PROVE  TaggedSidecar(r)' \/ TakesBack(r)
<1>1. PICK n \in Names : beside[n] # Nothing /\ beside[n].capture = r /\ beside[n].tagged
    BY DEF TaggedSidecar
<1>2. CASE beside'[n] = beside[n]
    BY <1>1, <1>2 DEF TaggedSidecar
<1>3. CASE beside'[n] # beside[n]
    <2>1. txn # Nothing
        BY <1>3 DEF SidecarsMove
    <2>2. /\ txn.source \in Names /\ txn.target \in Names
          /\ txn.op = "enrich" => txn.original = Nothing
          /\ txn.op # "enrich" =>
                /\ txn.original # Nothing /\ txn.original.capture = txn.intent.capture
                /\ txn.original.tagged = txn.intent.tagged
        BY <2>1, TransactionFields DEF DirectoryInv, PlanHolds
    <2>3. n = txn.source /\ txn.step \in {"write", "restore", "drop", "remove"}
        BY <1>1, <1>3, <2>2 DEF SidecarsMove, EnrichmentTypeOK
    <2>4. /\ beside[txn.source] \in {txn.original, txn.intent}
          /\ txn.step = "write" => beside[txn.source] = txn.original
        BY <1>1, <2>1, <2>3 DEF DirectoryInv, PlaceHolds, AtSource
    <2>5. txn.intent.capture = r /\ txn.intent.tagged
        BY <1>1, <2>2, <2>3, <2>4
    <2>6. txn.intent # Nothing
        BY <2>1, TransactionFields, AbsenceAssumption
    <2>7. CASE txn.op = "enrich" /\ txn.step = "restore"
        <3>1. media[txn.source] = r
            BY <2>1, <2>5, <2>7 DEF DirectoryInv, PlaceHolds, AtSource
        <3> QED
            BY <2>1, <2>5, <2>7, <3>1 DEF TakesBack, AtStep
    <2>8. CASE txn.op # "enrich" /\ txn.step \in {"write", "restore"}
        <3>1. beside'[txn.source] = IF txn.step = "write" THEN txn.intent ELSE txn.original
            BY <1>3, <2>2, <2>8 DEF SidecarsMove, EnrichmentTypeOK
        <3> QED
            BY <2>2, <2>5, <2>6, <2>8, <3>1 DEF TaggedSidecar
    <2>9. CASE txn.step \in {"drop", "remove"}
        <3>1. txn.step = "drop"
            BY <2>1, <2>5, <2>9 DEF DirectoryInv, PlaceHolds, Keeps
        <3>2. beside[txn.target] = txn.intent /\ txn.source # txn.target
            BY <2>1, <3>1 DEF DirectoryInv, PlaceHolds, AtTarget
        <3>3. beside'[txn.target] = txn.intent
            BY <2>2, <2>9, <3>2 DEF SidecarsMove, EnrichmentTypeOK
        <3> QED
            BY <2>2, <2>5, <2>6, <3>3 DEF TaggedSidecar
    <2>10. ~ (txn.op = "enrich" /\ txn.step = "write")
        BY <1>1, <2>2, <2>3, <2>4
    <2> QED
        BY <2>3, <2>7, <2>8, <2>9, <2>10
<1> QED
    BY <1>2, <1>3

(* Tags confirmed for a recording survive every step of every transaction, failed call *)
(* and death, the restoring step of an enrichment that could not move the media apart. *)
THEOREM TagsDoSurvive == Spec => TagsSurvive
<1>1. (EnrichmentInv /\ DirectoryInv) /\ [Next]_vars
        => [\A r \in Recordings :
                TaggedSidecar(r) => TaggedSidecar(r)' \/ TakesBack(r)]_vars
    <2> SUFFICES ASSUME EnrichmentInv, DirectoryInv, Next, NEW r \in Recordings,
                        TaggedSidecar(r)
                 PROVE  TaggedSidecar(r)' \/ TakesBack(r)
        BY DEF vars
    <2> QED
        BY EnrichmentAssumption, SidecarsMoveOnly, TagsKept DEF EnrichmentInv
<1> QED
    BY <1>1, DirectoryInvariant, PTL DEF Spec, TagsSurvive

============================================================================
