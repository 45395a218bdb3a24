------------------------ MODULE RecordingEnrichment ------------------------
(* The rename of a finalized recording after its calendar entry, and its later     *)
(* correction: recording_enrichment.py over meeting_sidecar.py and                 *)
(* recording_paths.py.  A transaction holds the directory lock and works on names: *)
(* it writes the new name into the sidecar (the intent), links and unlinks the     *)
(* media, then links and unlinks the sidecar.  Any of these steps may fail before  *)
(* or after it took effect, and the process may die between any two of them; the   *)
(* next correction discovers what was left and recovers it.                        *)
EXTENDS Naturals, Sequences

CONSTANTS
    Recordings,     \* each stands for the inode of its media and its capture times
    Names,          \* file names of the recording directory
    Meetings,       \* calendar occurrences
    Nothing,        \* an absent file, meeting, sidecar or name
    FallbackName,   \* by recording: the name its capture asks for
    VisibleName,    \* by meeting: the name it gives, or Nothing if its details are hidden
    Candidates,     \* by preferred name: it and its numbered variants, in order
    MaxFaults       \* bound: failed calls and deaths of a process together

ASSUME EnrichmentAssumption ==
    /\ Nothing \notin Recordings \cup Names \cup Meetings
    /\ FallbackName \in [Recordings -> Names]
    /\ VisibleName \in [Meetings -> Names \cup {Nothing}]
    /\ Candidates \in [Names -> Seq(Names)]
    /\ MaxFaults \in Nat

VARIABLES
    stage, home,    \* by recording: how far it is, and the name reserved for its capture
    media,          \* by name: the recording this name links to
    beside,         \* by name: the sidecar of this name
    txn,            \* the transaction that holds recording_directory_lock
    report,         \* what the last transaction told its caller
    faults          \* faults so far

vars == <<stage, home, media, beside, txn, report, faults>>

Stages == {"none", "reserved", "finalized", "dispatched"}
(* Capture times make a sidecar that of one recording.  Two names hold equal        *)
(* sidecars only when they are links of one file.                                  *)
Sidecar == [names : Names, fallback : Names, capture : Recordings,
            meeting : Meetings \cup {Nothing}, tagged : BOOLEAN]
Operations == {"enrich", "select", "clear", "recover"}
Steps == {"write", "link", "unlink", "relink", "drop", "remove", "restore"}
Transaction == [op : Operations, step : Steps, source : Names, target : Names,
                original : Sidecar \cup {Nothing}, intent : Sidecar]
Report == [op : Operations, path : Names, recording : Recordings,
           outcome : {"success", "partial", "failed"}, intent : Sidecar]

(* An absent file is no sidecar, and no transaction or report is an absent one.    *)
ASSUME AbsenceAssumption == Nothing \notin Sidecar \cup Transaction \cup Report

Resting == txn = Nothing

---------------------------------------------------------------------------
(* Names                                                                          *)

(* load_sidecar accepts a regular file with a single link.                        *)
Loadable(n) ==
    /\ beside[n] # Nothing
    /\ \A o \in Names \ {n} : beside[o] # beside[n]

Reserved(n) == \E r \in Recordings : stage[r] \in {"reserved", "finalized"} /\ home[r] = n

(* Mutant: names reserved for captures under way count as free.                   *)
TakenOnDisk(n, source) ==
    /\ n # source
    /\ media[n] # Nothing \/ beside[n] # Nothing

Taken(n, source) ==
    /\ n # source
    /\ Reserved(n) \/ media[n] # Nothing \/ beside[n] # Nothing

(* collision_safe_path: the first variant that is the source itself or free.       *)
CollisionSafe(n, preferred, source) ==
    \E i \in DOMAIN Candidates[preferred] :
        /\ n = Candidates[preferred][i] /\ ~Taken(n, source)
        /\ \A k \in 1..(i - 1) : Taken(Candidates[preferred][k], source)

(* A meeting whose details are visible gives the recording its name.              *)
Visible(meeting) == meeting # Nothing /\ VisibleName[meeting] # Nothing

---------------------------------------------------------------------------
(* Discovery: which sidecar describes the media at n (_discover_unlocked).         *)

Own(n) == Loadable(n) /\ beside[n].names = n

(* A direct sidecar that names another file is accepted at the original fallback. *)
DirectIntent(n) == Loadable(n) /\ beside[n].names # n /\ beside[n].fallback = n

(* The intent was written and the media was not moved.                            *)
Unpublished(n) == DirectIntent(n) /\ media[beside[n].names] = Nothing

Found(n) == Own(n) \/ Unpublished(n)

Describes(o, n) == Loadable(o) /\ beside[o].names = n

(* Without a direct sidecar, the single loadable one that names this media.        *)
ElsewhereFor(n, o) ==
    /\ beside[n] = Nothing
    /\ Describes(o, n)
    /\ \A other \in Names : Describes(other, n) => other = o

(* Mutant: the two names are not compared.                                        *)
HalfMovedUnchecked(source, target) == media[target] # Nothing

(* The media of an unfinished rename: at the target, perhaps still at the source,  *)
(* and then the same inode.                                                       *)
HalfMoved(source, target) ==
    media[target] # Nothing /\ media[source] \in {Nothing, media[target]}

Recoverable(n, source, target) ==
    /\ \/ DirectIntent(n) /\ source = n /\ target = beside[n].names
       \/ ElsewhereFor(n, source) /\ target = n
    /\ HalfMoved(source, target)

---------------------------------------------------------------------------
(* Capture and dispatch: the daemon reserves a name under the lock, the recorder   *)
(* finalizes a file there, and the dispatch enriches it and frees the reservation. *)

Reserve(r, n) ==
    /\ Resting /\ stage[r] = "none"
    /\ CollisionSafe(n, FallbackName[r], Nothing)
    /\ stage' = [stage EXCEPT ![r] = "reserved"]
    /\ home' = [home EXCEPT ![r] = n]
    /\ UNCHANGED <<media, beside, txn, report, faults>>

(* The recorder does not take the lock; ffmpeg -n refuses an existing name.        *)
Finalize(r) ==
    /\ stage[r] = "reserved" /\ media[home[r]] = Nothing
    /\ stage' = [stage EXCEPT ![r] = "finalized"]
    /\ media' = [media EXCEPT ![home[r]] = r]
    /\ UNCHANGED <<home, beside, txn, report, faults>>

---------------------------------------------------------------------------
(* Transactions: what a command reads and plans once it has the lock.              *)

Begin(op, step, source, target, original, intent) ==
    /\ txn' = [op |-> op, step |-> step, source |-> source, target |-> target,
               original |-> original, intent |-> intent]
    /\ report' = Nothing

(* RecordingEnricher.enrich, with the match m if there is a unique one.            *)
Enrich(r, m, tagged) ==
    LET source == home[r]
        original == beside[source]
    IN
    /\ Resting /\ stage[r] = "finalized" /\ media[source] = r
    /\ original # Nothing => Own(source)
    /\ \E target \in Names :
        /\ IF Visible(m) THEN CollisionSafe(target, VisibleName[m], source) ELSE target = source
        /\ Begin("enrich", "write", source, target, original,
                 [names |-> target, capture |-> r, meeting |-> m, tagged |-> tagged,
                  fallback |-> IF original = Nothing THEN source ELSE original.fallback])
    /\ UNCHANGED <<stage, home, media, beside, faults>>

(* RecordingCorrectionService.select on the recording at n.                       *)
Select(n, m) ==
    /\ Resting /\ media[n] # Nothing /\ Found(n)
    /\ \E target \in Names :
        /\ CollisionSafe(target, IF Visible(m) THEN VisibleName[m] ELSE beside[n].fallback, n)
        /\ Begin("select", "write", n, target, beside[n],
                 [beside[n] EXCEPT !.names = target, !.meeting = m])
    /\ UNCHANGED <<stage, home, media, beside, faults>>

Clear(n) ==
    /\ Resting /\ media[n] # Nothing /\ Found(n)
    /\ \E target \in Names :
        /\ CollisionSafe(target, beside[n].fallback, n)
        /\ Begin("clear", "write", n, target, beside[n],
                 [beside[n] EXCEPT !.names = target, !.meeting = Nothing])
    /\ UNCHANGED <<stage, home, media, beside, faults>>

(* _recover_duplicate_unlocked, which discover and every correction of n run       *)
(* first.  The correction that follows under the same lock is a command of its own *)
(* here, as if the operator had asked for the metadata first.  The code's branch    *)
(* for a sidecar already at the target is not reached (TargetStaysFree).           *)
Recover(n) ==
    /\ Resting /\ media[n] # Nothing
    /\ \E source, target \in Names :
        /\ Recoverable(n, source, target)
        /\ Begin("recover", IF media[source] # Nothing THEN "unlink" ELSE "relink",
                 source, target, beside[source], beside[source])
    /\ UNCHANGED <<stage, home, media, beside, faults>>

---------------------------------------------------------------------------
(* Transactions: one file system call at a time.                                  *)

AtStep(step) == txn # Nothing /\ txn.step = step
Goto(step) == txn' = [txn EXCEPT !.step = step] /\ UNCHANGED <<stage, report>>

(* A dispatched recording gives its reservation back whatever enrichment achieved. *)
End(path, outcome) ==
    /\ txn' = Nothing
    /\ report' = [op |-> txn.op, path |-> path, outcome |-> outcome,
                  recording |-> txn.intent.capture, intent |-> txn.intent]
    /\ stage' = IF txn.op = "enrich" THEN [stage EXCEPT ![txn.intent.capture] = "dispatched"]
                ELSE stage

(* Mutant: a clear removes every sidecar.                                         *)
KeepsUntagged == txn.op # "clear"

(* A cleared recording without tags loses its sidecar; any other takes it along.   *)
Keeps == txn.op # "clear" \/ txn.intent.tagged

WriteIntent ==
    /\ AtStep("write")
    /\ beside' = [beside EXCEPT ![txn.source] = txn.intent]
    /\ IF txn.target # txn.source THEN Goto("link")
       ELSE IF Keeps THEN End(txn.source, "success")
       ELSE Goto("remove")
    /\ UNCHANGED <<home, media, faults>>

LinkMedia ==
    /\ AtStep("link") /\ media[txn.target] = Nothing
    /\ media' = [media EXCEPT ![txn.target] = media[txn.source]]
    /\ Goto("unlink")
    /\ UNCHANGED <<home, beside, faults>>

UnlinkMedia ==
    /\ AtStep("unlink")
    /\ media' = [media EXCEPT ![txn.source] = Nothing]
    /\ Goto(IF Keeps THEN "relink" ELSE "remove")
    /\ UNCHANGED <<home, beside, faults>>

LinkSidecar ==
    /\ AtStep("relink") /\ beside[txn.target] = Nothing
    /\ beside' = [beside EXCEPT ![txn.target] = beside[txn.source]]
    /\ Goto("drop")
    /\ UNCHANGED <<home, media, faults>>

(* The sidecar leaves its old name, after its new link or for good.                *)
DropSidecar ==
    /\ txn # Nothing /\ txn.step \in {"drop", "remove"}
    /\ beside' = [beside EXCEPT ![txn.source] = Nothing]
    /\ End(txn.target, "success")
    /\ UNCHANGED <<home, media, faults>>

RestoreSidecar ==
    /\ AtStep("restore")
    /\ beside' = [beside EXCEPT ![txn.source] = txn.original]
    /\ End(txn.source, "failed")
    /\ UNCHANGED <<home, media, faults>>

---------------------------------------------------------------------------
(* Failures                                                                       *)

Fault == faults < MaxFaults /\ faults' = faults + 1

(* A failed directory fsync leaves the replacement in place.                      *)
WriteFails ==
    /\ AtStep("write") /\ Fault
    /\ beside' \in {beside, [beside EXCEPT ![txn.source] = txn.intent]}
    /\ IF txn.op = "enrich" THEN End(txn.source, "failed") ELSE Goto("restore")
    /\ UNCHANGED <<home, media>>

LinkFails ==
    /\ AtStep("link") /\ Fault
    /\ Goto("restore")
    /\ UNCHANGED <<home, media, beside>>

(* MovePrecommitError: the recording keeps both names.                            *)
UnlinkFails ==
    /\ AtStep("unlink") /\ Fault
    /\ IF txn.op = "recover" THEN End(txn.source, "failed") ELSE Goto("restore")
    /\ UNCHANGED <<home, media, beside>>

(* Mutant: the caller is told the old name.                                       *)
UnlinkUnsyncedAtSource ==
    /\ AtStep("unlink") /\ Fault
    /\ media' = [media EXCEPT ![txn.source] = Nothing]
    /\ End(txn.source, "partial")
    /\ UNCHANGED <<home, beside>>

(* MoveCommittedError: the media moved, and the sidecar stays behind.              *)
UnlinkUnsynced ==
    /\ AtStep("unlink") /\ Fault
    /\ media' = [media EXCEPT ![txn.source] = Nothing]
    /\ End(txn.target, "partial")
    /\ UNCHANGED <<home, beside>>

SidecarMoveFails ==
    /\ txn # Nothing /\ txn.step \in {"relink", "drop"} /\ Fault
    /\ \/ UNCHANGED beside
       \/ txn.step = "drop" /\ beside' = [beside EXCEPT ![txn.source] = Nothing]
    /\ End(txn.target, "partial")
    /\ UNCHANGED <<home, media>>

RemoveFails ==
    /\ AtStep("remove") /\ Fault
    /\ beside' \in {beside, [beside EXCEPT ![txn.source] = Nothing]}
    /\ IF txn.target = txn.source THEN Goto("restore") ELSE End(txn.target, "partial")
    /\ UNCHANGED <<home, media>>

RestoreFails ==
    /\ AtStep("restore") /\ Fault
    /\ beside' \in {beside, [beside EXCEPT ![txn.source] = txn.original]}
    /\ End(txn.source, "failed")
    /\ UNCHANGED <<home, media>>

(* The directory lock falls with the process that held it.                        *)
CorrectionDies ==
    /\ txn # Nothing /\ txn.op # "enrich" /\ Fault
    /\ txn' = Nothing /\ report' = Nothing
    /\ UNCHANGED <<stage, home, media, beside>>

(* The daemon's reservations fall with it; a file it had not enriched stays so.    *)
DaemonDies ==
    /\ \E r \in Recordings : stage[r] \in {"reserved", "finalized"}
    /\ Fault
    /\ stage' = [r \in Recordings |-> CASE stage[r] = "reserved" -> "none"
                                       [] stage[r] = "finalized" -> "dispatched"
                                       [] OTHER -> stage[r]]
    /\ IF txn # Nothing /\ txn.op = "enrich"
       THEN txn' = Nothing /\ report' = Nothing
       ELSE UNCHANGED <<txn, report>>
    /\ UNCHANGED <<home, media, beside>>

---------------------------------------------------------------------------
Init ==
    /\ stage = [r \in Recordings |-> "none"]
    /\ home = [r \in Recordings |-> Nothing]
    /\ media = [n \in Names |-> Nothing]
    /\ beside = [n \in Names |-> Nothing]
    /\ txn = Nothing
    /\ report = Nothing
    /\ faults = 0

Daemon(r) ==
    \/ \E n \in Names : Reserve(r, n)
    \/ Finalize(r)
    \/ \E m \in Meetings \cup {Nothing}, tagged \in BOOLEAN : Enrich(r, m, tagged)

Correction(n) ==
    \/ \E m \in Meetings : Select(n, m)
    \/ Clear(n)
    \/ Recover(n)

Step == WriteIntent \/ LinkMedia \/ UnlinkMedia \/ LinkSidecar \/ DropSidecar \/ RestoreSidecar

Failure ==
    \/ WriteFails \/ LinkFails \/ UnlinkFails \/ UnlinkUnsynced
    \/ SidecarMoveFails \/ RemoveFails \/ RestoreFails
    \/ CorrectionDies \/ DaemonDies

Next ==
    \/ \E r \in Recordings : Daemon(r)
    \/ \E n \in Names : Correction(n)
    \/ Step
    \/ Failure

Spec == Init /\ [][Next]_vars

---------------------------------------------------------------------------
(* Properties                                                                     *)

EnrichmentTypeOK ==
    /\ stage \in [Recordings -> Stages]
    /\ home \in [Recordings -> Names \cup {Nothing}]
    /\ media \in [Names -> Recordings \cup {Nothing}]
    /\ beside \in [Names -> Sidecar \cup {Nothing}]
    /\ txn \in Transaction \cup {Nothing}
    /\ report \in Report \cup {Nothing}
    /\ faults \in 0..MaxFaults

(* A finalized recording always has a name, whatever fails in its rename: the old  *)
(* name goes only after the new one is a link of the same media.                  *)
Finalized(r) == stage[r] \in {"finalized", "dispatched"}
RecordingsKept == \A r \in Recordings : Finalized(r) => \E n \in Names : media[n] = r

(* The name a transaction found free under the lock is free when it is linked, for *)
(* media and for sidecar: reservations and sidecars keep it so.                   *)
TargetStaysFree ==
    /\ AtStep("link") => media[txn.target] = Nothing
    /\ AtStep("relink") => beside[txn.target] = Nothing
    /\ \A r \in Recordings : stage[r] = "reserved" => media[home[r]] = Nothing

(* Discovery never finds the metadata of another recording: neither beside the     *)
(* media nor in a sidecar elsewhere that names it.                                *)
DiscoveryFindsOwn ==
    Resting => \A n \in Names : media[n] # Nothing =>
        /\ Found(n) => beside[n].capture = media[n]
        /\ \A source, target \in Names :
                Recoverable(n, source, target) => beside[source].capture = media[n]

(* What a transaction reports is true until the next one begins: in success or     *)
(* failure its path is a name of the recording it worked on, and after a success   *)
(* that path has its metadata; a cleared recording without tags has none.          *)
Discoverable(n) ==
    media[n] # Nothing /\ (Found(n) \/ \E source, target \in Names : Recoverable(n, source, target))
ReportIsTrue == report # Nothing =>
    /\ media[report.path] = report.recording
    /\ report.outcome = "success" =>
          IF report.op = "clear" /\ ~report.intent.tagged THEN ~Discoverable(report.path)
          ELSE Own(report.path) /\ beside[report.path] = report.intent

(* Tags confirmed for a recording outlive every step of a correction, a clear, a   *)
(* recovery or an enrichment, and every failure: only the repair of an enrichment  *)
(* that could not move the media takes back the sidecar it had just written.       *)
TaggedSidecar(r) ==
    \E n \in Names : beside[n] # Nothing /\ beside[n].capture = r /\ beside[n].tagged
TakesBack(r) ==
    /\ AtStep("restore") /\ txn.op = "enrich" /\ txn.intent.capture = r
    /\ media[txn.source] = r
TagsSurvive ==
    [][\A r \in Recordings :
        TaggedSidecar(r) => TaggedSidecar(r)' \/ TakesBack(r)]_vars

(* As the recovery code says of an intent whose destination was not published, it  *)
(* remains recoverable: discovery at the old name accepts it.                     *)
IntentStaysRecoverable ==
    Resting => \A n \in Names :
        (/\ beside[n] # Nothing /\ media[n] = beside[n].capture
         /\ beside[n].names # n /\ media[beside[n].names] = Nothing) => Found(n)
=============================================================================
