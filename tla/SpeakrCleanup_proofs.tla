------------------------ MODULE SpeakrCleanup_proofs ------------------------
(* Proofs about SpeakrCleanup, for any number of commands, journals, sidecars,      *)
(* faults and publications.  The invariant CleanupInv adds to the ledger invariant  *)
(* of the store what a command knows at each of its steps and where the recording   *)
(* and its sidecar may be in each phase, in the directory as processes see it and   *)
(* as the disk has it.  It is kept because a command past its claim is the only     *)
(* holder of the lock and of the recording's rows.                                 *)
EXTENDS SpeakrCleanup, PublicationStore_proofs, FiniteSetTheorems

---------------------------------------------------------------------------
(* The invariant.  A directory, as it is or as it would be found after a loss of   *)
(* power, is read against the journals one name at a time, so that any mixture of  *)
(* two directories that agree with the journals agrees with them too.              *)

CleanupTypeOK ==
    /\ names \in [Names -> Files] /\ synced \in [Names -> Files]
    /\ DOMAIN expected \subseteq Intents
    /\ \A i \in DOMAIN expected : expected[i] \in Sidecars \cup {NoFile}
    /\ lock \in Cleaners \cup {NoOwner}
    /\ pc \in [Cleaners -> Steps] /\ mem \in [Cleaners -> Memory]

OnlyAt(d, file, n) == \A m \in Names : d[m] = file => m = n
Gone(d, file) == \A m \in Names : d[m] # file

(* Names of media hold only the recording, and names of sidecars never do.         *)
Sorted(d) == \A n \in Names : IF n[1] = "media" THEN d[n] \in {Media, NoFile} ELSE d[n] # Media

(* Where the recording may be while journal i is in this phase, and its sidecar.   *)
MediaPlaced(d, phase, i) ==
    /\ phase \in {"none", "prepared"} => d[Quarantine("media", i)] = NoFile
    /\ phase \in {"media_quarantined", "sidecar_unlinked"} =>
          OnlyAt(d, Media, Quarantine("media", i))
    /\ phase = "media_unlinked" => Gone(d, Media)

SidecarPlaced(d, phase, i, sidecar) ==
    sidecar # NoFile =>
        /\ phase \in {"sidecar_quarantined", "media_quarantined"} =>
              OnlyAt(d, sidecar, Quarantine("sidecar", i))
        /\ phase \in RemovalDecided => Gone(d, sidecar)

Sound(d, journals, sidecars, removed) ==
    /\ Sorted(d)
    /\ removed => Gone(d, Media)
    /\ \A i \in Intents : MediaPlaced(d, journals[i].phase, i)
    /\ \A i \in DOMAIN sidecars : SidecarPlaced(d, journals[i].phase, i, sidecars[i])

Removed == \E j \in Jobs : jobs[j].state = "local_removed"

DirectoryInv ==
    /\ Sound(names, intents, expected, Removed)
    /\ Sound(synced, intents, expected, Removed)
    /\ MediaKept

JournalsHere ==
    \A i \in Intents : intents[i].phase # "none" =>
        i \in DOMAIN expected /\ intents[i].path = RecordingPath

(* What a phase has achieved when its step is done.                               *)
Reached(d, phase, i, file) ==
    CASE phase = "prepared" -> OnlyAt(d, file, Quarantine("sidecar", i))
      [] phase = "sidecar_quarantined" -> OnlyAt(d, file, Quarantine("media", i))
      [] OTHER -> Gone(d, file)

(* What a command knows at each of its steps, of the file its phase is about.      *)
KindIn(phase) == IF phase \in {"prepared", "media_quarantined"} THEN "sidecar" ELSE "media"
MovingIn(phase) == phase \in {"prepared", "sidecar_quarantined"}
FileIn(phase, i, sidecars) == IF KindIn(phase) = "media" THEN Media ELSE sidecars[i]
TargetIn(phase, i) == Quarantine(KindIn(phase), i)

LinkReady(d, phase, i, file) ==
    LET source == Here(KindIn(phase))
        target == TargetIn(phase, i)
    IN
    /\ d[source] \in {file, NoFile} /\ d[target] \in {file, NoFile}
    /\ d[source] = NoFile => d[target] = file /\ OnlyAt(d, file, target)

StepHolds(step, phase, i, d, s, file) ==
    CASE step = "link" -> MovingIn(phase) /\ file # NoFile /\ LinkReady(d, phase, i, file)
      [] step = "link_sync" -> MovingIn(phase) /\ file # NoFile /\ d[TargetIn(phase, i)] = file
      [] step = "unlink" ->
            /\ phase # LastPhase /\ file # NoFile
            /\ MovingIn(phase) => d[TargetIn(phase, i)] = file /\ s[TargetIn(phase, i)] = file
      [] step = "unlink_sync" -> phase # LastPhase /\ Reached(d, phase, i, file)
      [] step = "advance" ->
            /\ phase # LastPhase
            /\ file # NoFile => Reached(d, phase, i, file) /\ Reached(s, phase, i, file)
      [] step = "complete" -> phase = LastPhase
      [] OTHER -> TRUE

(* A command past its claim holds the lock, its claim is the latest of its journal *)
(* and no other journal is past its first phase.                                  *)
ClaimHolds(i, gens) ==
    /\ intents[i].gens = gens
    /\ \A k \in Intents \ {i} : intents[k].phase \in {"none", FirstPhase}

CommandHolds(c) ==
    pc[c] # "idle" =>
        /\ lock = c /\ Phase(c) # "none"
        /\ pc[c] # "claim" => ClaimHolds(Intent(c), mem[c].gens)
        /\ StepHolds(pc[c], Phase(c), Intent(c), names, synced,
                     FileIn(Phase(c), Intent(c), expected))

CommandInv == \A c \in Cleaners : CommandHolds(c)

CleanupInv == LedgerInv /\ CleanupTypeOK /\ JournalsHere /\ CommandInv /\ DirectoryInv

CleanupSpec(published) == CleanupInit(published) /\ [][Next]_vars

---------------------------------------------------------------------------
(* Phases, names and link counts.                                                 *)

LEMMA PhaseNames ==
    /\ FirstPhase = "prepared" /\ LastPhase = "media_unlinked"
    /\ Phases = {"prepared", "sidecar_quarantined", "media_quarantined",
                 "sidecar_unlinked", "media_unlinked"}
<1>1. FirstPhase = "prepared" /\ LastPhase = "media_unlinked"
  BY DEF FirstPhase, LastPhase, PhaseOrder
<1>2. Phases = {PhaseOrder[1], PhaseOrder[2], PhaseOrder[3], PhaseOrder[4], PhaseOrder[5]}
  <2>1. 1..5 = {1, 2, 3, 4, 5}
    OBVIOUS
  <2>2. QED
    BY <2>1, Zenon DEF Phases
<1>3. QED
  BY <1>1, <1>2 DEF PhaseOrder

(* The order of the phases.                                                       *)
LEMMA NextPhases ==
    /\ NextPhase("prepared") = "sidecar_quarantined"
    /\ NextPhase("sidecar_quarantined") = "media_quarantined"
    /\ NextPhase("media_quarantined") = "sidecar_unlinked"
    /\ NextPhase("sidecar_unlinked") = "media_unlinked"
<1>1. ASSUME NEW n \in 1..4 PROVE NextPhase(PhaseOrder[n]) = PhaseOrder[n + 1]
  <2> DEFINE m == CHOOSE k \in 1..4 : PhaseOrder[k] = PhaseOrder[n]
  <2>1. m \in 1..4 /\ PhaseOrder[m] = PhaseOrder[n]
    OBVIOUS
  <2> HIDE DEF m
  <2>2. m = n
    BY <2>1 DEF PhaseOrder
  <2>3. NextPhase(PhaseOrder[n]) = PhaseOrder[1 + m]
    BY DEF NextPhase, m
  <2>4. QED
    BY <2>2, <2>3
<1>2. /\ NextPhase(PhaseOrder[1]) = PhaseOrder[2] /\ NextPhase(PhaseOrder[2]) = PhaseOrder[3]
      /\ NextPhase(PhaseOrder[3]) = PhaseOrder[4] /\ NextPhase(PhaseOrder[4]) = PhaseOrder[5]
  <2>1. 1 + 1 = 2 /\ 2 + 1 = 3 /\ 3 + 1 = 4 /\ 4 + 1 = 5
    OBVIOUS
  <2>2. 1 \in 1..4 /\ 2 \in 1..4 /\ 3 \in 1..4 /\ 4 \in 1..4
    OBVIOUS
  <2>3. QED
    BY <1>1, <2>1, <2>2
<1>3. /\ PhaseOrder[1] = "prepared" /\ PhaseOrder[2] = "sidecar_quarantined"
      /\ PhaseOrder[3] = "media_quarantined" /\ PhaseOrder[4] = "sidecar_unlinked"
      /\ PhaseOrder[5] = "media_unlinked"
  BY DEF PhaseOrder
<1>4. QED
  BY <1>2, <1>3

(* The names a journal and the recording use are names of the directory, and       *)
(* different for different kinds and journals.                                    *)
LEMMA PlaceNames ==
    ASSUME NEW kind \in Kinds, NEW i \in Intents
    PROVE  /\ Here(kind) \in Names /\ Here(kind)[1] = kind /\ Here(kind)[2] = Original
           /\ Quarantine(kind, i) \in Names
           /\ Quarantine(kind, i)[1] = kind /\ Quarantine(kind, i)[2] = i
           /\ <<kind, Renamed>> \in Names
           /\ Here(kind) # Quarantine(kind, i) /\ i # Original /\ i # Renamed
BY CleanupAssumption DEF Here, Quarantine, Names

LEMMA NamesFinite == IsFiniteSet(Names)
<1>1. IsFiniteSet({"media"} \cup {"sidecar"})
  BY FS_Singleton, FS_Union
<1>2. IsFiniteSet(Kinds)
  <2>1. Kinds = {"media"} \cup {"sidecar"}
    BY DEF Kinds
  <2>2. QED
    BY <1>1, <2>1
<1>3. IsFiniteSet({Original} \cup {Renamed})
  BY FS_Singleton, FS_Union
<1>4. IsFiniteSet(Intents \cup ({Original} \cup {Renamed}))
  BY <1>3, FS_Union, CleanupAssumption
<1>5. Intents \cup ({Original} \cup {Renamed}) = Intents \cup {Original, Renamed}
  OBVIOUS
<1>6. QED
  BY <1>2, <1>4, <1>5, FS_Product DEF Names

(* Two names that count two links are all names of the file; one that counts one   *)
(* is its only name.                                                              *)
LEMMA CountedLinks ==
    ASSUME NEW file, NEW n \in Names, names[n] = file
    PROVE  /\ LinkCount(file) = 1 => OnlyAt(names, file, n)
           /\ \A m \in Names : m # n /\ names[m] = file /\ LinkCount(file) = 2 =>
                 \A k \in Names : names[k] = file => k = n \/ k = m
<1> DEFINE at == {k \in Names : names[k] = file}
<1>1. IsFiniteSet(at) /\ n \in at
  BY NamesFinite, FS_Subset
<1>2. LinkCount(file) = Cardinality(at)
  BY DEF LinkCount
<1>3. ASSUME Cardinality(at) = 1 PROVE OnlyAt(names, file, n)
  <2>1. PICK x : at = {x}
    BY <1>1, <1>3, FS_Singleton
  <2>2. QED
    BY <1>1, <2>1 DEF OnlyAt
<1>4. ASSUME NEW m \in Names, m # n, names[m] = file, Cardinality(at) = 2
      PROVE  \A k \in Names : names[k] = file => k = n \/ k = m
  <2>1. IsFiniteSet(at \ {n}) /\ Cardinality(at \ {n}) = 1
    <3>1. Cardinality(at \ {n}) = Cardinality(at) - 1 /\ IsFiniteSet(at \ {n})
      BY <1>1, FS_RemoveElement
    <3>2. QED
      BY <1>4, <3>1
  <2>2. PICK x : at \ {n} = {x}
    BY <2>1, FS_Singleton
  <2>3. m \in at \ {n}
    BY <1>4
  <2>4. QED
    BY <2>2, <2>3
<1>5. QED
  BY <1>2, <1>3, <1>4

---------------------------------------------------------------------------
(* Every step of a command and of the rest of the application is a step of the     *)
(* store or leaves it alone.                                                      *)

LEMMA CommandMemory ==
    ASSUME CleanupTypeOK, NEW c \in Cleaners
    PROVE  Intent(c) \in Intents /\ mem[c] \in Memory /\ pc[c] \in Steps
BY DEF CleanupTypeOK, Memory, Intent

LEMMA ClaimStepsStore ==
    ASSUME CleanupTypeOK, TypeOK, NEW c \in Cleaners,
           \/ ClaimGroup(Intent(c), c) \/ Abort(Intent(c))
           \/ RenewGroup(Intent(c), TheClaim(c))
           \/ \E phase \in {Phase(c)} : Advance(Intent(c), TheClaim(c), phase)
           \/ CompleteGroup(Intent(c), TheClaim(c))
           \/ AbortClaimed(Intent(c), TheClaim(c))
    PROVE  StoreNext
<1>1. Intent(c) \in Intents
  BY CommandMemory
<1>2. CASE ClaimGroup(Intent(c), c) \/ Abort(Intent(c))
  BY <1>1, <1>2 DEF StoreNext, CleanupSteps
<1>3. ASSUME ~ (ClaimGroup(Intent(c), c) \/ Abort(Intent(c)))
      PROVE  CleanupSteps(Intent(c))
  <2>1. ClaimCurrent(Intent(c), TheClaim(c))
    BY <1>3 DEF RenewGroup, Advance, CompleteGroup, AbortClaimed
  <2>2. TheClaim(c) = [owner |-> c, gens |-> intents[Intent(c)].gens]
    BY <2>1 DEF ClaimCurrent, TheClaim
  <2>3. Phase(c) \in Phases
    BY <1>1, <2>1 DEF ClaimCurrent, MembersUnchanged, TypeOK, IntentRow, Phase
  <2>4. PICK claim : claim = TheClaim(c)
    OBVIOUS
  <2>5. \/ RenewGroup(Intent(c), claim)
        \/ \E phase \in Phases : Advance(Intent(c), claim, phase)
        \/ CompleteGroup(Intent(c), claim)
        \/ AbortClaimed(Intent(c), claim)
    BY <1>3, <2>3, <2>4
  <2>6. claim = [owner |-> c, gens |-> intents[Intent(c)].gens]
    BY <2>2, <2>4
  <2>7. QED
    BY <2>5, <2>6, Zenon DEF CleanupSteps
<1>4. QED
  BY <1>1, <1>2, <1>3 DEF StoreNext

(* A command that gives up leaves the store alone or aborts its journal.           *)
LEMMA AbandonedStore ==
    ASSUME NEW c \in Cleaners, Abandon(c)
    PROVE  UNCHANGED storeVars \/ Abort(Intent(c)) \/ AbortClaimed(Intent(c), TheClaim(c))
BY Zenon DEF Abandon

LEMMA CleanupUsesStore ==
    ASSUME CleanupTypeOK, TypeOK, [Next]_vars
    PROVE  [StoreNext]_storeVars
<1>1. ASSUME NEW c \in Cleaners, Command(c) PROVE [StoreNext]_storeVars
  <2>1. ASSUME NEW i \in Intents, Begin(c, i) PROVE StoreNext
    <3>1. \E path \in Paths : PrepareIntent(i, path)
      BY <2>1, CleanupAssumption DEF Begin
    <3>2. CleanupSteps(i)
      BY <3>1 DEF CleanupSteps
    <3>3. QED
      BY <3>2 DEF StoreNext
  <2>2. CASE \E i \in Intents : Resume(c, i)
    BY <2>2 DEF Resume
  <2>3. CASE Crash(c)
    BY <2>3 DEF Crash
  <2>4. CASE Refused(c) \/ CallFails(c)
    <3>1. Abandon(c)
      BY <2>4, Zenon DEF Refused, CallFails
    <3>2. QED
      BY <3>1, AbandonedStore, ClaimStepsStore
  <2>5. CASE Link(c) \/ SyncLink(c) \/ Unlink(c) \/ SyncUnlink(c)
    BY <2>5 DEF Link, SyncLink, Unlink, SyncUnlink
  <2>6. CASE TakeClaim(c) \/ Check(c) \/ Renewal(c) \/ AdvancePhase(c) \/ Complete(c)
    <3>1. \/ ClaimGroup(Intent(c), c) \/ RenewGroup(Intent(c), TheClaim(c))
          \/ Advance(Intent(c), TheClaim(c), Phase(c)) \/ CompleteGroup(Intent(c), TheClaim(c))
      BY <2>6, Zenon DEF TakeClaim, Check, Renewal, AdvancePhase, Complete
    <3>2. QED
      BY <3>1, ClaimStepsStore
  <2>7. QED
    BY <1>1, <2>1, <2>2, <2>3, <2>4, <2>5, <2>6 DEF Command, Progress
<1>2. CASE PowerLoss \/ Passage
  BY <1>2 DEF PowerLoss, Passage, StoreNext
<1>3. ASSUME NEW renames \in BOOLEAN, Correct(renames) PROVE [StoreNext]_storeVars
  <2>1. UpdatePath(RecordingPath, NewPath, Jobs) \/ UNCHANGED storeVars
    BY <1>3, Zenon DEF Correct
  <2>2. QED
    BY <2>1, CleanupAssumption DEF StoreNext
<1>4. ASSUME NEW j \in Jobs, EnqueueCopy(j) \/ OperatorMoves(j) PROVE StoreNext
  <2>1. CASE EnqueueCopy(j)
    BY <2>1, CleanupAssumption DEF EnqueueCopy, StoreNext, OperatorSteps
  <2>2. ASSUME NEW path \in Paths, Relink(j, NoOwner, 0, path)
        PROVE  Relink(j, NoOwner, jobs[j].gen, path)
    BY <2>2 DEF Relink, Fenced
  <2>3. OperatorSteps(j)
    BY <1>4, <2>1, <2>2, CleanupAssumption
       DEF EnqueueCopy, OperatorMoves, OperatorSteps, FencedClients
  <2>4. QED
    BY <2>3 DEF StoreNext
<1>5. CASE UNCHANGED vars
  BY <1>5 DEF vars
<1>6. QED
  BY <1>1, <1>2, <1>3, <1>4, <1>5 DEF Next, CommandNext

---------------------------------------------------------------------------
(* The types.                                                                     *)

(* A command at work is the only one, its journal is of this recording, and the    *)
(* file of its phase is the recording, the sidecar of its journal, or none.       *)
LEMMA AtWork ==
    ASSUME CleanupInv, NEW c \in Cleaners, pc[c] # "idle"
    PROVE  /\ lock = c /\ Intent(c) \in Intents /\ Phase(c) \in Phases
           /\ Intent(c) \in DOMAIN expected /\ expected[Intent(c)] \in Sidecars \cup {NoFile}
           /\ Kind(c) = KindIn(Phase(c)) /\ Kind(c) \in Kinds
           /\ Moving(c) = MovingIn(Phase(c))
           /\ FileOf(Kind(c), Intent(c)) = FileIn(Phase(c), Intent(c), expected)
           /\ FileOf(Kind(c), Intent(c)) \in Files
           /\ Source(c) \in Names /\ Target(c) \in Names
           /\ \A x \in Cleaners \ {c} : pc[x] = "idle"
<1>1. CleanupTypeOK /\ JournalsHere /\ CommandInv /\ TypeOK
  BY DEF CleanupInv, LedgerInv, StoreInv
<1>2. Intent(c) \in Intents
  BY <1>1, CommandMemory
<1>3. lock = c /\ Phase(c) # "none" /\ \A x \in Cleaners \ {c} : pc[x] = "idle"
  BY <1>1 DEF CommandInv, CommandHolds
<1>4. Phase(c) \in Phases
  BY <1>1, <1>2, <1>3 DEF TypeOK, IntentRow, Phase
<1>5. Intent(c) \in DOMAIN expected /\ expected[Intent(c)] \in Sidecars \cup {NoFile}
  BY <1>1, <1>2, <1>3 DEF JournalsHere, CleanupTypeOK, Phase
<1>6. Kind(c) = KindIn(Phase(c)) /\ Kind(c) \in Kinds /\ Moving(c) = MovingIn(Phase(c))
  BY DEF Kind, KindIn, Kinds, Moving, MovingIn
<1>7. /\ FileOf(Kind(c), Intent(c)) = FileIn(Phase(c), Intent(c), expected)
      /\ FileOf(Kind(c), Intent(c)) \in Files
  BY <1>5, <1>6 DEF FileOf, FileIn, Files
<1>8. Source(c) \in Names /\ Target(c) \in Names
  BY <1>2, <1>6, PlaceNames DEF Source, Target
<1>9. QED
  BY <1>2, <1>3, <1>4, <1>5, <1>6, <1>7, <1>8

(* Steps that leave the directory and its journals' sidecars alone.               *)
LEMMA QuietTypes ==
    ASSUME CleanupInv, LedgerInv', UNCHANGED <<names, synced, expected>>,
           lock' \in Cleaners \cup {NoOwner}, pc' \in [Cleaners -> Steps],
           mem' \in [Cleaners -> Memory]
    PROVE  CleanupTypeOK'
BY DEF CleanupInv, CleanupTypeOK

LEMMA StepTypes ==
    ASSUME CleanupTypeOK, NEW c \in Cleaners, NEW step \in Steps, Goto(c, step)
    PROVE  pc' \in [Cleaners -> Steps]
BY DEF CleanupTypeOK, Goto

LEMMA MemoryTypes ==
    ASSUME CleanupTypeOK, NEW c \in Cleaners, NEW i \in Intents, NEW gens \in [Jobs -> Nat],
           NEW fresh \in BOOLEAN, NEW mutated \in BOOLEAN
    PROVE  /\ [mem EXCEPT ![c].intent = i] \in [Cleaners -> Memory]
           /\ [mem EXCEPT ![c].gens = gens, ![c].fresh = FALSE, ![c].mutated = FALSE]
                 \in [Cleaners -> Memory]
           /\ [mem EXCEPT ![c].fresh = fresh] \in [Cleaners -> Memory]
           /\ [mem EXCEPT ![c].mutated = mutated] \in [Cleaners -> Memory]
           /\ [mem EXCEPT ![c].fresh = FALSE, ![c].mutated = TRUE] \in [Cleaners -> Memory]
BY DEF CleanupTypeOK, Memory

LEMMA CommandTypes ==
    ASSUME CleanupInv, LedgerInv', NEW c \in Cleaners, Command(c)
    PROVE  CleanupTypeOK'
<1>1. CleanupTypeOK
  BY DEF CleanupInv
<1>2. TypeOK /\ TypeOK'
  BY DEF CleanupInv, LedgerInv, StoreInv
<1>3. /\ "idle" \in Steps /\ "claim" \in Steps /\ "check" \in Steps /\ "link" \in Steps
      /\ "link_sync" \in Steps /\ "unlink" \in Steps /\ "unlink_sync" \in Steps
      /\ "advance" \in Steps /\ "complete" \in Steps
  BY DEF Steps
<1>4. c \in Cleaners \cup {NoOwner} /\ NoOwner \in Cleaners \cup {NoOwner}
  OBVIOUS
<1>5. ASSUME NEW i \in Intents, Begin(c, i) PROVE CleanupTypeOK'
  <2>1. names[Here("sidecar")] \in Sidecars \cup {NoFile}
    <3>1. Here("sidecar") \in Names /\ Here("sidecar")[1] = "sidecar"
      BY PlaceNames, CleanupAssumption DEF Kinds
    <3>2. Sorted(names)
      BY DEF CleanupInv, DirectoryInv, Sound
    <3>3. QED
      BY <1>1, <3>1, <3>2 DEF Sorted, CleanupTypeOK, Files
  <2>2. /\ DOMAIN expected' \subseteq Intents
        /\ \A k \in DOMAIN expected' : expected'[k] \in Sidecars \cup {NoFile}
    BY <1>1, <1>5, <2>1 DEF Begin, CleanupTypeOK
  <2>3. pc' \in [Cleaners -> Steps] /\ mem' \in [Cleaners -> Memory]
    <3>1. mem' = [mem EXCEPT ![c].intent = i] /\ Goto(c, "claim")
      BY <1>5 DEF Begin
    <3>2. PICK gens \in [Jobs -> Nat] : gens = NoGens
      BY DEF NoGens
    <3>3. QED
      BY <1>1, <1>3, <3>1, <3>2, StepTypes, MemoryTypes
  <2>4. QED
    BY <1>1, <1>5, <2>2, <2>3 DEF CleanupTypeOK, Begin
<1>6. ASSUME NEW i \in Intents, Resume(c, i) PROVE CleanupTypeOK'
  <2>1. /\ mem' = [mem EXCEPT ![c].intent = i] /\ Goto(c, "claim")
        /\ lock' = c /\ UNCHANGED <<names, synced, expected>>
    BY <1>6 DEF Resume
  <2>2. PICK gens \in [Jobs -> Nat] : gens = NoGens
    BY DEF NoGens
  <2>3. pc' \in [Cleaners -> Steps] /\ mem' \in [Cleaners -> Memory]
    BY <1>1, <1>3, <2>1, <2>2, StepTypes, MemoryTypes
  <2>4. QED
    BY <1>4, <2>1, <2>3, QuietTypes
<1>7. CASE TakeClaim(c)
  <2>1. /\ Goto(c, "check") /\ UNCHANGED <<names, synced, expected, lock>>
    BY <1>7 DEF TakeClaim
  <2>2. PICK gens \in [Jobs -> Nat] : gens = intents'[Intent(c)].gens
    BY <1>1, <1>2, CommandMemory DEF TypeOK, IntentRow
  <2>3. mem' = [mem EXCEPT ![c].gens = gens, ![c].fresh = FALSE, ![c].mutated = FALSE]
    BY <1>7, <2>2 DEF TakeClaim
  <2>4. PICK i \in Intents : TRUE
    BY CleanupAssumption
  <2>5. pc' \in [Cleaners -> Steps] /\ mem' \in [Cleaners -> Memory]
    BY <1>1, <1>3, <2>1, <2>3, <2>4, StepTypes, MemoryTypes
  <2>6. QED
    BY <1>1, <2>1, <2>5, QuietTypes DEF CleanupTypeOK
<1> DEFINE i == Intent(c)
<1>8. i \in Intents /\ NoGens \in [Jobs -> Nat]
  BY <1>1, CommandMemory DEF NoGens
<1>9. /\ [mem EXCEPT ![c].fresh = TRUE] \in [Cleaners -> Memory]
      /\ [mem EXCEPT ![c].fresh = FALSE, ![c].mutated = TRUE] \in [Cleaners -> Memory]
      /\ \A b \in BOOLEAN : [mem EXCEPT ![c].mutated = b] \in [Cleaners -> Memory]
  BY <1>1, <1>8, MemoryTypes
<1>10. CASE Check(c)
  <2>1. \E step \in Steps : Goto(c, step)
    BY <1>3, <1>10 DEF Check
  <2>2. \E b \in BOOLEAN : mem' = [mem EXCEPT ![c].mutated = b]
    BY <1>10 DEF Check
  <2>3. UNCHANGED <<names, synced, expected, lock>>
    BY <1>10 DEF Check
  <2>4. QED
    BY <1>1, <1>9, <2>1, <2>2, <2>3, StepTypes, QuietTypes DEF CleanupTypeOK
<1>11. CASE Renewal(c)
  BY <1>1, <1>9, <1>11, QuietTypes DEF CleanupTypeOK, Renewal
<1>12. CASE AdvancePhase(c)
  <2>1. Goto(c, "check") /\ SpendRenewal(c) /\ UNCHANGED <<names, synced, expected, lock>>
    BY <1>12 DEF AdvancePhase
  <2>2. QED
    BY <1>1, <1>3, <1>9, <2>1, StepTypes, QuietTypes DEF CleanupTypeOK, SpendRenewal
<1>13. CASE Complete(c) \/ Abandon(c) \/ Crash(c)
  <2>1. /\ lock' = NoOwner /\ Goto(c, "idle") /\ UNCHANGED <<names, synced, expected, mem>>
    BY <1>13, Zenon DEF Complete, Abandon, Crash
  <2>2. QED
    BY <1>1, <1>3, <2>1, StepTypes, QuietTypes DEF CleanupTypeOK
<1>14. CASE SyncLink(c) \/ SyncUnlink(c)
  <2>1. /\ synced' = names /\ (Goto(c, "unlink") \/ Goto(c, "advance"))
        /\ UNCHANGED <<names, expected, lock, mem>>
    BY <1>14 DEF SyncLink, SyncUnlink
  <2>2. pc' \in [Cleaners -> Steps]
    BY <1>1, <1>3, <2>1, StepTypes
  <2>3. QED
    BY <1>1, <2>1, <2>2 DEF CleanupTypeOK
<1>15. CASE Link(c) \/ Unlink(c)
  <2>1. pc[c] # "idle"
    BY <1>15 DEF Link, Unlink
  <2>2. /\ FileOf(Kind(c), Intent(c)) \in Files /\ NoFile \in Files
        /\ Source(c) \in Names /\ Target(c) \in Names
    BY <2>1, AtWork DEF Files
  <2>3. /\ \E n \in Names, file \in Files : names' = [names EXCEPT ![n] = file]
        /\ \E step \in {"link_sync", "unlink_sync"} : Goto(c, step)
        /\ SpendRenewal(c) /\ UNCHANGED <<synced, expected, lock>>
    <3>1. CASE Link(c)
      BY <2>2, <3>1 DEF Link
    <3>2. CASE Unlink(c)
      BY <2>2, <3>2 DEF Unlink
    <3>3. QED
      BY <1>15, <3>1, <3>2
  <2>4. pc' \in [Cleaners -> Steps] /\ mem' \in [Cleaners -> Memory]
    BY <1>1, <1>3, <1>9, <2>3, StepTypes DEF SpendRenewal
  <2>5. names' \in [Names -> Files]
    BY <1>1, <2>3 DEF CleanupTypeOK
  <2>6. QED
    BY <1>1, <2>3, <2>4, <2>5 DEF CleanupTypeOK
<1>16. (Refused(c) \/ CallFails(c)) => Abandon(c)
  BY Zenon DEF Refused, CallFails
<1>17. QED
  BY <1>5, <1>6, <1>7, <1>10, <1>11, <1>12, <1>13, <1>14, <1>15, <1>16 DEF Command, Progress

LEMMA OtherTypes ==
    ASSUME CleanupInv, LedgerInv',
           \/ PowerLoss \/ Passage \/ \E renames \in BOOLEAN : Correct(renames)
           \/ \E j \in Jobs : EnqueueCopy(j) \/ OperatorMoves(j)
           \/ UNCHANGED vars
    PROVE  CleanupTypeOK'
<1>1. CleanupTypeOK
  BY DEF CleanupInv
<1>2. CASE PowerLoss
  <2>1. PICK lost : names' = [n \in Names |-> IF n \in lost THEN synced[n] ELSE names[n]]
    BY <1>2 DEF PowerLoss
  <2>2. names' \in [Names -> Files] /\ synced' = names'
    BY <1>1, <1>2, <2>1 DEF CleanupTypeOK, PowerLoss
  <2>3. pc' \in [Cleaners -> Steps] /\ lock' = NoOwner /\ UNCHANGED <<expected, mem>>
    BY <1>2 DEF PowerLoss, Steps
  <2>4. QED
    BY <1>1, <2>2, <2>3 DEF CleanupTypeOK
<1>3. ASSUME NEW renames \in BOOLEAN, Correct(renames) PROVE CleanupTypeOK'
  <2>1. PICK fresh \in Sidecars, place \in {Renamed, Original} :
           names' = [[names EXCEPT ![Here("media")] = NoFile, ![Here("sidecar")] = NoFile]
                        EXCEPT ![<<"media", place>>] = Media, ![<<"sidecar", place>>] = fresh]
    BY <1>3, Zenon DEF Correct
  <2>2. names' \in [Names -> Files]
    BY <1>1, <2>1 DEF CleanupTypeOK, Files
  <2>3. synced' = names' /\ UNCHANGED <<expected, lock, pc, mem>>
    BY <1>3 DEF Correct
  <2>4. QED
    BY <1>1, <2>2, <2>3 DEF CleanupTypeOK
<1>4. CASE Passage \/ UNCHANGED vars \/ \E j \in Jobs : EnqueueCopy(j) \/ OperatorMoves(j)
  BY <1>1, <1>4 DEF CleanupTypeOK, Passage, EnqueueCopy, OperatorMoves, vars, removalVars
<1>5. QED
  BY <1>2, <1>3, <1>4

---------------------------------------------------------------------------
(* The directory and the journals.                                                *)

(* Any mixture of two sound directories, with any names removed, is sound.         *)
LEMMA MixtureIsSound ==
    ASSUME NEW d, NEW s, NEW mixture, NEW journals, NEW sidecars, NEW removed,
           Sound(d, journals, sidecars, removed), Sound(s, journals, sidecars, removed),
           \A n \in Names : mixture[n] \in {d[n], s[n], NoFile}
    PROVE  Sound(mixture, journals, sidecars, removed)
<1>1. \A file : file # NoFile /\ Gone(d, file) /\ Gone(s, file) => Gone(mixture, file)
  BY DEF Gone
<1>2. \A file, n : file # NoFile /\ OnlyAt(d, file, n) /\ OnlyAt(s, file, n) =>
                      OnlyAt(mixture, file, n)
  BY DEF OnlyAt
<1>3. Media # NoFile
  BY CleanupAssumption
<1>4. Sorted(mixture)
  BY <1>3 DEF Sound, Sorted
<1>5. removed => Gone(mixture, Media)
  BY <1>1, <1>3 DEF Sound
<1>6. ASSUME NEW i \in Intents PROVE MediaPlaced(mixture, journals[i].phase, i)
  <2>1. MediaPlaced(d, journals[i].phase, i) /\ MediaPlaced(s, journals[i].phase, i)
    BY DEF Sound
  <2>2. Quarantine("media", i) \in Names
    BY PlaceNames DEF Kinds
  <2>3. QED
    BY <1>1, <1>2, <1>3, <2>1, <2>2 DEF MediaPlaced
<1>7. ASSUME NEW i \in DOMAIN sidecars
      PROVE  SidecarPlaced(mixture, journals[i].phase, i, sidecars[i])
  <2>1. /\ SidecarPlaced(d, journals[i].phase, i, sidecars[i])
        /\ SidecarPlaced(s, journals[i].phase, i, sidecars[i])
    BY DEF Sound
  <2>2. QED
    BY <1>1, <1>2, <2>1 DEF SidecarPlaced
<1>8. QED
  BY <1>4, <1>5, <1>6, <1>7 DEF Sound

(* The link of a phase keeps a directory sound while no other journal is past its  *)
(* first phase.                                                                   *)
LEMMA LinkIsSound ==
    ASSUME NEW d \in [Names -> Files], NEW journals, NEW sidecars, NEW removed,
           Sound(d, journals, sidecars, removed),
           \A k \in DOMAIN sidecars : sidecars[k] \in Sidecars \cup {NoFile},
           DOMAIN sidecars \subseteq Intents,
           NEW i \in Intents, i \in DOMAIN sidecars, NEW phase, phase = journals[i].phase,
           NEW file, file = FileIn(phase, i, sidecars), file # NoFile, MovingIn(phase),
           LinkReady(d, phase, i, file),
           \A k \in Intents \ {i} : journals[k].phase \in {"none", FirstPhase}
    PROVE  Sound([d EXCEPT ![TargetIn(phase, i)] = file], journals, sidecars, removed)
<1> DEFINE new == [d EXCEPT ![TargetIn(phase, i)] = file]
<1>1. /\ Sorted(d) /\ \A k \in Intents : MediaPlaced(d, journals[k].phase, k)
      /\ \A k \in DOMAIN sidecars : SidecarPlaced(d, journals[k].phase, k, sidecars[k])
      /\ removed => Gone(d, Media)
  BY DEF Sound
<1>2. /\ \A k \in Intents : Quarantine("media", k) \in Names /\ Quarantine("sidecar", k) \in Names
      /\ Here("media") \in Names /\ Here("sidecar") \in Names
      /\ \A k \in Intents : Quarantine("media", k)[1] = "media"
                              /\ Quarantine("sidecar", k)[1] = "sidecar"
      /\ \A k, l \in Intents : Quarantine("media", k) = Quarantine("media", l) => k = l
      /\ \A k, l \in Intents : Quarantine("media", k) # Quarantine("sidecar", l)
  <2>1. Kinds = {"media", "sidecar"}
    BY DEF Kinds
  <2>2. QED
    BY <2>1, PlaceNames DEF Quarantine
<1>3. Media # NoFile /\ Media \notin Sidecars
  BY CleanupAssumption
<1>4. CASE phase = "prepared"
  <2>1. /\ KindIn(phase) = "sidecar" /\ TargetIn(phase, i) = Quarantine("sidecar", i)
        /\ file = sidecars[i] /\ file # Media
    BY <1>3, <1>4 DEF KindIn, TargetIn, FileIn
  <2>2. \A n \in Names : new[n] = (IF n = Quarantine("sidecar", i) THEN file ELSE d[n])
    BY <2>1
  <2> HIDE DEF new
  <2>3. \A k \in Intents : journals[k].phase \in {"none", "prepared"}
    BY <1>4, PhaseNames
  <2>4. Sorted(new)
    BY <1>1, <1>2, <2>1, <2>2 DEF Sorted
  <2>5. removed => Gone(new, Media)
    BY <1>1, <2>1, <2>2 DEF Gone
  <2>6. ASSUME NEW k \in Intents PROVE MediaPlaced(new, journals[k].phase, k)
    BY <1>1, <1>2, <2>2, <2>3 DEF MediaPlaced
  <2>7. \A k \in DOMAIN sidecars : SidecarPlaced(new, journals[k].phase, k, sidecars[k])
    BY <2>3 DEF SidecarPlaced, RemovalDecided
  <2>8. QED
    BY <2>4, <2>5, <2>6, <2>7 DEF Sound, new
<1>5. CASE phase = "sidecar_quarantined"
  <2>1. /\ KindIn(phase) = "media" /\ TargetIn(phase, i) = Quarantine("media", i)
        /\ file = Media
    BY <1>5 DEF KindIn, TargetIn, FileIn
  <2>2. \A n \in Names : new[n] = (IF n = Quarantine("media", i) THEN Media ELSE d[n])
    BY <2>1
  <2>3. ~ removed
    BY <1>1, <1>2, <1>3, <2>1 DEF LinkReady, Gone
  <2> HIDE DEF new
  <2>4. Sorted(new)
    BY <1>1, <1>2, <2>2 DEF Sorted
  <2>5. ASSUME NEW k \in Intents PROVE MediaPlaced(new, journals[k].phase, k)
    <3>1. CASE k = i
      BY <1>5, <3>1 DEF MediaPlaced
    <3>2. CASE k # i
      <4>1. journals[k].phase \in {"none", "prepared"} /\ MediaPlaced(d, journals[k].phase, k)
        BY <1>1, <3>2, PhaseNames
      <4>2. new[Quarantine("media", k)] = d[Quarantine("media", k)]
        BY <1>2, <2>2, <3>2
      <4>3. QED
        BY <4>1, <4>2 DEF MediaPlaced
    <3>3. QED
      BY <3>1, <3>2
  <2>6. ASSUME NEW k \in DOMAIN sidecars
        PROVE  SidecarPlaced(new, journals[k].phase, k, sidecars[k])
    <3>1. CASE k = i
      <4>1. SidecarPlaced(d, journals[k].phase, k, sidecars[k]) /\ sidecars[k] # Media
        BY <1>1, <1>3
      <4>2. OnlyAt(d, sidecars[k], Quarantine("sidecar", k)) =>
               OnlyAt(new, sidecars[k], Quarantine("sidecar", k))
        BY <2>2, <4>1 DEF OnlyAt
      <4>3. journals[k].phase = "sidecar_quarantined"
        BY <1>5, <3>1
      <4>4. QED
        BY <4>1, <4>2, <4>3 DEF SidecarPlaced, RemovalDecided
    <3>2. CASE k # i
      <4>1. journals[k].phase \in {"none", "prepared"}
        BY <3>2, PhaseNames
      <4>2. QED
        BY <4>1 DEF SidecarPlaced, RemovalDecided
    <3>3. QED
      BY <3>1, <3>2
  <2>7. QED
    BY <2>3, <2>4, <2>5, <2>6 DEF Sound, new
<1>6. QED
  BY <1>4, <1>5 DEF MovingIn

(* A correction moves the recording only from its own name, where no journal past   *)
(* its second phase leaves it, and writes a sidecar no journal knows.              *)
LEMMA CorrectionIsSound ==
    ASSUME NEW d \in [Names -> Files], NEW new, NEW journals, NEW sidecars, NEW removed,
           Sound(d, journals, sidecars, removed),
           \A k \in DOMAIN sidecars : sidecars[k] \in Sidecars \cup {NoFile},
           DOMAIN sidecars \subseteq Intents,
           \A k \in Intents : journals[k].phase \in Phases \cup {"none"},
           d[Here("media")] = Media, NEW fresh \in Sidecars,
           \A k \in DOMAIN sidecars : sidecars[k] # fresh,
           NEW place \in {Original, Renamed},
           \A n \in Names :
              new[n] = (IF n = <<"sidecar", place>> THEN fresh
                        ELSE IF n = <<"media", place>> THEN Media
                        ELSE IF n = Here("sidecar") \/ n = Here("media") THEN NoFile ELSE d[n])
    PROVE  /\ Sound(new, journals, sidecars, removed)
           /\ <<"media", place>> \in Names /\ new[<<"media", place>>] = Media
<1>1. /\ Sorted(d) /\ \A k \in Intents : MediaPlaced(d, journals[k].phase, k)
      /\ \A k \in DOMAIN sidecars : SidecarPlaced(d, journals[k].phase, k, sidecars[k])
      /\ removed => Gone(d, Media)
  BY DEF Sound
<1>2. /\ Media # NoFile /\ Media \notin Sidecars /\ NoFile \notin Sidecars
      /\ Original \notin Intents /\ Renamed \notin Intents /\ Original # Renamed
  BY CleanupAssumption
<1>3. /\ <<"media", place>> \in Names /\ <<"sidecar", place>> \in Names
      /\ Here("media") \in Names /\ Here("sidecar") \in Names
  BY DEF Names, Kinds, Here
<1>4. \A n \in Names :
         new[n] = (IF n = <<"sidecar", place>> THEN fresh
                   ELSE IF n = <<"media", place>> THEN Media
                   ELSE IF n = Here("sidecar") \/ n = Here("media") THEN NoFile ELSE d[n])
  OBVIOUS
<1>5. new[<<"media", place>>] = Media
  BY <1>3, <1>4
<1>6. ~ removed
  BY <1>1, <1>3 DEF Gone
<1>7. \A k \in Intents : journals[k].phase \in {"none", "prepared", "sidecar_quarantined"}
  <2>1. \A k \in Intents : Here("media") # Quarantine("media", k)
    BY <1>2 DEF Here, Quarantine
  <2>2. \A k \in Intents : ~ Gone(d, Media) /\ ~ OnlyAt(d, Media, Quarantine("media", k))
    BY <1>3, <2>1 DEF Gone, OnlyAt
  <2>3. QED
    BY <1>1, <2>2, PhaseNames DEF MediaPlaced
<1>8. Sorted(new)
  <2>1. /\ <<"sidecar", place>>[1] = "sidecar" /\ <<"media", place>>[1] = "media"
        /\ Here("sidecar")[1] = "sidecar" /\ Here("media")[1] = "media"
    BY DEF Here
  <2>2. QED
    BY <1>1, <1>2, <1>4, <2>1 DEF Sorted
<1>9. ASSUME NEW k \in Intents PROVE MediaPlaced(new, journals[k].phase, k)
  <2>1. Quarantine("media", k) \in Names
    BY PlaceNames DEF Kinds
  <2>2. /\ Quarantine("media", k) # <<"sidecar", place>>
        /\ Quarantine("media", k) # <<"media", place>>
        /\ Quarantine("media", k) # Here("sidecar") /\ Quarantine("media", k) # Here("media")
    BY <1>2 DEF Quarantine, Here
  <2>3. new[Quarantine("media", k)] = d[Quarantine("media", k)]
    BY <1>4, <2>1, <2>2
  <2>4. QED
    BY <1>1, <1>7, <2>3 DEF MediaPlaced
<1>10. ASSUME NEW k \in DOMAIN sidecars
       PROVE  SidecarPlaced(new, journals[k].phase, k, sidecars[k])
  <2>1. /\ SidecarPlaced(d, journals[k].phase, k, sidecars[k])
        /\ sidecars[k] # Media /\ sidecars[k] # fresh
    BY <1>1, <1>2
  <2>2. sidecars[k] # NoFile /\ OnlyAt(d, sidecars[k], Quarantine("sidecar", k)) =>
           OnlyAt(new, sidecars[k], Quarantine("sidecar", k))
    BY <1>4, <2>1 DEF OnlyAt
  <2>3. journals[k].phase \notin RemovalDecided
    BY <1>7 DEF RemovalDecided
  <2>4. QED
    BY <2>1, <2>2, <2>3 DEF SidecarPlaced
<1>11. Sound(new, journals, sidecars, removed)
  BY <1>6, <1>8, <1>9, <1>10 DEF Sound
<1>12. QED
  BY <1>3, <1>5, <1>11

(* A phase may be recorded in both directories once its step has been reached.     *)
LEMMA AdvanceIsSound ==
    ASSUME NEW d, NEW journals, NEW later, NEW sidecars, NEW removed,
           Sound(d, journals, sidecars, removed), NEW i \in Intents, i \in DOMAIN sidecars,
           NEW phase \in Phases, phase = journals[i].phase, phase # LastPhase,
           FileIn(phase, i, sidecars) # NoFile =>
              Reached(d, phase, i, FileIn(phase, i, sidecars)),
           DOMAIN sidecars \subseteq Intents,
           later[i].phase = NextPhase(phase),
           \A k \in Intents \ {i} : later[k].phase = journals[k].phase
    PROVE  Sound(d, later, sidecars, removed)
<1>1. /\ Sorted(d) /\ \A k \in Intents : MediaPlaced(d, journals[k].phase, k)
      /\ \A k \in DOMAIN sidecars : SidecarPlaced(d, journals[k].phase, k, sidecars[k])
      /\ removed => Gone(d, Media)
  BY DEF Sound
<1>2. MediaPlaced(d, later[i].phase, i) /\ SidecarPlaced(d, later[i].phase, i, sidecars[i])
  <2>1. MediaPlaced(d, phase, i) /\ SidecarPlaced(d, phase, i, sidecars[i]) /\ Media # NoFile
    BY <1>1, CleanupAssumption
  <2>2. CASE phase = "prepared"
    <3>1. /\ later[i].phase = "sidecar_quarantined"
          /\ sidecars[i] # NoFile => OnlyAt(d, sidecars[i], Quarantine("sidecar", i))
      BY <2>2, NextPhases DEF FileIn, KindIn, Reached
    <3>2. QED
      BY <3>1 DEF MediaPlaced, SidecarPlaced, RemovalDecided
  <2>3. CASE phase = "sidecar_quarantined"
    <3>1. /\ later[i].phase = "media_quarantined"
          /\ OnlyAt(d, Media, Quarantine("media", i))
      BY <2>1, <2>3, NextPhases DEF FileIn, KindIn, Reached
    <3>2. QED
      BY <2>1, <2>3, <3>1 DEF MediaPlaced, SidecarPlaced, RemovalDecided
  <2>4. CASE phase = "media_quarantined"
    <3>1. /\ later[i].phase = "sidecar_unlinked"
          /\ sidecars[i] # NoFile => Gone(d, sidecars[i])
      BY <2>4, NextPhases DEF FileIn, KindIn, Reached
    <3>2. QED
      BY <2>1, <2>4, <3>1 DEF MediaPlaced, SidecarPlaced, RemovalDecided
  <2>5. CASE phase = "sidecar_unlinked"
    <3>1. later[i].phase = "media_unlinked" /\ Gone(d, Media)
      BY <2>1, <2>5, NextPhases DEF FileIn, KindIn, Reached
    <3>2. QED
      BY <2>1, <2>5, <3>1 DEF MediaPlaced, SidecarPlaced, RemovalDecided
  <2>6. QED
    BY <2>2, <2>3, <2>4, <2>5, PhaseNames
<1>3. QED
  BY <1>1, <1>2 DEF Sound

(* A journal is dropped before its first step or when the recording is gone, and a   *)
(* row is marked removed only then.                                               *)
LEMMA DropIsSound ==
    ASSUME NEW d \in [Names -> Files], NEW journals, NEW later, NEW sidecars, NEW removed,
           NEW marked, Sound(d, journals, sidecars, removed), NEW i \in Intents,
           journals[i].phase \in {FirstPhase, LastPhase}, later[i].phase = "none",
           DOMAIN sidecars \subseteq Intents,
           \A k \in Intents \ {i} : later[k].phase = journals[k].phase,
           marked => removed \/ journals[i].phase = LastPhase
    PROVE  Sound(d, later, sidecars, marked)
<1>1. /\ Sorted(d) /\ \A k \in Intents : MediaPlaced(d, journals[k].phase, k)
      /\ \A k \in DOMAIN sidecars : SidecarPlaced(d, journals[k].phase, k, sidecars[k])
      /\ removed => Gone(d, Media)
  BY DEF Sound
<1>2. Quarantine("media", i) \in Names /\ Quarantine("media", i)[1] = "media"
  BY PlaceNames DEF Kinds
<1>3. MediaPlaced(d, journals[i].phase, i)
  BY <1>1
<1>4. d[Quarantine("media", i)] = NoFile
  BY <1>1, <1>2, <1>3, PhaseNames DEF MediaPlaced, Sorted, Gone
<1>5. marked => Gone(d, Media)
  BY <1>1, <1>3, PhaseNames DEF MediaPlaced
<1>6. MediaPlaced(d, later[i].phase, i)
  BY <1>4 DEF MediaPlaced
<1>7. \A file : SidecarPlaced(d, later[i].phase, i, file)
  BY DEF SidecarPlaced, RemovalDecided
<1>8. QED
  BY <1>1, <1>5, <1>6, <1>7 DEF Sound

---------------------------------------------------------------------------
(* What the store's operations do to the phases of journals and to removed rows.   *)

Over == {"local_removed", "forgotten"}

RowsCalm ==
    /\ \A j \in Jobs : jobs[j].state \in Over => jobs'[j].state \in Over
    /\ \A j \in Jobs : jobs'[j].state = "local_removed" => jobs[j].state = "local_removed"

PhasesSame ==
    \A k \in Intents : intents'[k].phase = intents[k].phase /\ intents'[k].path = intents[k].path

(* Operations on leases and the operator's operations remove no row.              *)
LEMMA StatesSame ==
    ASSUME \A j \in Jobs : jobs'[j].state = jobs[j].state
    PROVE  RowsCalm
BY DEF RowsCalm

LEMMA LeasesCalm ==
    ASSUME StoreInv, NEW i \in Intents, NEW c, NEW claim,
           ClaimGroup(i, c) \/ RenewGroup(i, claim)
    PROVE  RowsCalm /\ PhasesSame
<1>1. jobs \in [Jobs -> Row] /\ intents \in [Intents -> IntentRow]
  BY DEF StoreInv, TypeOK
<1>2. ASSUME NEW j \in Jobs PROVE jobs'[j].state = jobs[j].state
  <2>1. jobs[j] \in Row
    BY <1>1
  <2>2. CASE ClaimGroup(i, c)
    <3>1. jobs'[j] = jobs[j] \/
          jobs'[j] = [jobs[j] EXCEPT !.cOwner = c, !.cGen = jobs[j].cGen + 1,
                                     !.cExpires = clock + CleanupLeaseMs,
                                     !.updated = Later(clock, jobs[j].created)]
      BY <2>2 DEF ClaimGroup
    <3>2. QED
      BY <2>1, <3>1 DEF Row
  <2>3. CASE RenewGroup(i, claim)
    <3>1. jobs'[j] = jobs[j] \/
          jobs'[j] = [jobs[j] EXCEPT !.cExpires = clock + CleanupLeaseMs,
                                     !.updated = Later(clock, jobs[j].created)]
      BY <2>3 DEF RenewGroup
    <3>2. QED
      BY <2>1, <3>1 DEF Row
  <2>4. QED
    BY <2>2, <2>3
<1>3. PhasesSame
  <2>1. CASE ClaimGroup(i, c)
    <3>1. \E gens : intents' = [intents EXCEPT ![i].gens = gens]
      BY <2>1 DEF ClaimGroup
    <3>2. QED
      BY <1>1, <3>1 DEF PhasesSame, IntentRow
  <2>2. CASE RenewGroup(i, claim)
    BY <2>2 DEF RenewGroup, PhasesSame
  <2>3. QED
    BY <2>1, <2>2
<1>4. QED
  BY <1>2, <1>3, StatesSame

LEMMA AbortsCalm ==
    ASSUME StoreInv, NEW i \in Intents, NEW claim, Abort(i) \/ AbortClaimed(i, claim)
    PROVE  RowsCalm /\ intents[i].phase = FirstPhase /\ intents' = [intents EXCEPT ![i] = NoIntent]
<1>1. jobs \in [Jobs -> Row]
  BY DEF StoreInv, TypeOK
<1>2. ASSUME NEW j \in Jobs PROVE jobs'[j].state = jobs[j].state
  <2>1. jobs[j] \in Row
    BY <1>1
  <2>2. jobs'[j] = jobs[j] \/
        jobs'[j] = [jobs[j] EXCEPT !.cOwner = NoOwner, !.cExpires = 0,
                                   !.updated = Later(clock, jobs[j].created)]
    BY DEF Abort, AbortClaimed, CleanupLeasesCleared
  <2>3. QED
    BY <2>1, <2>2 DEF Row
<1>3. QED
  BY <1>2, StatesSame DEF Abort, AbortClaimed

LEMMA OperatorsCalmly ==
    ASSUME StoreInv, NEW j \in Jobs, EnqueueCopy(j) \/ OperatorMoves(j)
    PROVE  RowsCalm /\ UNCHANGED <<intents, clock>> /\ UNCHANGED removalVars
<1>1. jobs \in [Jobs -> Row]
  BY DEF StoreInv, TypeOK
<1>2. CASE EnqueueCopy(j)
  <2>1. /\ jobs[j].state = "absent" /\ UNCHANGED <<intents, clock>> /\ UNCHANGED removalVars
        /\ \E row : row.state = "queued" /\ jobs' = [jobs EXCEPT ![j] = row]
    BY <1>2 DEF EnqueueCopy, Create, Commit, NoRow
  <2>2. QED
    BY <1>1, <2>1 DEF RowsCalm, Over
<1>3. CASE Forget(j) /\ UNCHANGED removalVars
  <2>1. /\ UNCHANGED <<intents, clock>>
        /\ \E row : row.state = "forgotten" /\ jobs' = [jobs EXCEPT ![j] = row]
    BY <1>3 DEF Forget, NoRow
  <2>2. QED
    BY <1>1, <1>3, <2>1 DEF RowsCalm, Over
<1>4. ASSUME NEW path \in Paths, Relink(j, NoOwner, 0, path), UNCHANGED removalVars
      PROVE  RowsCalm /\ UNCHANGED <<intents, clock>> /\ UNCHANGED removalVars
  <2>1. PICK row : row = Relinked(jobs[j], path)
    OBVIOUS
  <2>2. jobs' = [jobs EXCEPT ![j] = row] /\ UNCHANGED <<intents, clock>>
    BY <1>4, <2>1 DEF Relink, Commit
  <2>3. \/ row.state = jobs[j].state
        \/ /\ jobs[j].state = "missing"
           /\ row.state \in {"queued", "uncertain", "metadata_pending"}
    <3>1. jobs[j] \in Row
      BY <1>1
    <3>2. CASE jobs[j].state = "missing" /\ ResumeTarget(jobs[j].intent) # "refused"
      <4>1. row.state = ResumeTarget(jobs[j].intent)
        <5>1. PICK target : target = ResumeTarget(jobs[j].intent)
          OBVIOUS
        <5>2. PICK base : base = Resumed(jobs[j], target, clock)
          OBVIOUS
        <5>3. row = [base EXCEPT !.path = path, !.owner = jobs[j].owner,
                                 !.expires = jobs[j].expires]
          BY <2>1, <3>2, <5>1, <5>2 DEF Relinked
        <5>4. base.state = target /\ DOMAIN base = DOMAIN jobs[j]
          BY <3>1, <5>2 DEF Resumed, Row
        <5>5. row.state = base.state
          BY <5>3
        <5>6. QED
          BY <5>1, <5>4, <5>5
      <4>2. QED
        BY <3>2, <4>1 DEF ResumeTarget
    <3>3. CASE ~ (jobs[j].state = "missing" /\ ResumeTarget(jobs[j].intent) # "refused")
      BY <2>1, <3>1, <3>3 DEF Relinked, Row
    <3>4. QED
      BY <3>2, <3>3
  <2>4. QED
    BY <1>1, <1>4, <2>2, <2>3 DEF RowsCalm, Over
<1>5. QED
  BY <1>2, <1>3, <1>4 DEF OperatorMoves

LEMMA CorrectionsCalm ==
    ASSUME StoreInv, NEW renames \in BOOLEAN, Correct(renames)
    PROVE  RowsCalm /\ intents' = intents
<1>1. jobs \in [Jobs -> Row]
  BY DEF StoreInv, TypeOK
<1>2. UpdatePath(RecordingPath, NewPath, Jobs) \/ UNCHANGED storeVars
  BY Zenon DEF Correct
<1>3. CASE UpdatePath(RecordingPath, NewPath, Jobs)
  <2>1. \A j \in Jobs : jobs'[j].state = jobs[j].state
    BY <1>1, <1>3 DEF UpdatePath, Row
  <2>2. QED
    BY <1>3, <2>1, StatesSame DEF UpdatePath
<1>4. CASE UNCHANGED storeVars
  BY <1>4, StatesSame DEF storeVars
<1>5. QED
  BY <1>2, <1>3, <1>4

(* Whoever's rows are still the exact group of the path has no rival past its first *)
(* phase: the rival's rows would be at the path too.                              *)
LEMMA NoRival ==
    ASSUME LedgerInv, JournalsHere, NEW i \in Intents, MembersUnchanged(i)
    PROVE  \A k \in Intents \ {i} : intents[k].phase \in {"none", FirstPhase}
<1> SUFFICES ASSUME NEW k \in Intents \ {i}, intents[k].phase \notin {"none", FirstPhase}
             PROVE  FALSE
  OBVIOUS
<1>1. JournalHolds(k)
  BY DEF LedgerInv, JournalInv
<1>2. /\ intents[k].members # {}
      /\ \A j \in intents[k].members : jobs[j].state = "published" /\ jobs[j].path = intents[k].path
  BY <1>1 DEF JournalHolds
<1>3. PICK j \in intents[k].members : TRUE
  BY <1>2
<1>4. j \in Jobs /\ MemberOf(j) = {k}
  BY MembersOf
<1>5. intents[k].path = RecordingPath /\ intents[i].path = RecordingPath
  BY DEF JournalsHere, MembersUnchanged
<1>6. j \in Group(intents[i].path)
  BY <1>2, <1>4, <1>5 DEF Group, Exists, LiveStates
<1>7. i \in MemberOf(j)
  BY <1>6 DEF MembersUnchanged, MemberOf
<1>8. QED
  BY <1>4, <1>7

---------------------------------------------------------------------------
(* Each step keeps the directory sound and the recording named.                   *)

Decided ==
    \/ \E i \in Intents : intents[i].phase \in RemovalDecided
    \/ \E j \in Jobs : jobs[j].state \in Over

Named == \E n \in Names : names[n] = Media /\ synced[n] = Media

LEMMA KeptIs == MediaKept <=> Decided \/ Named
BY DEF MediaKept, Decided, Named, Over

(* A step that changes neither a name nor a phase.                                *)
LEMMA SoundStays ==
    ASSUME NEW d, Sound(d, intents, expected, Removed), PhasesSame, RowsCalm,
           DOMAIN expected \subseteq Intents
    PROVE  Sound(d, intents', expected, Removed')
<1>1. Removed' => Removed
  BY DEF Removed, RowsCalm
<1>2. QED
  BY <1>1 DEF Sound, PhasesSame

LEMMA DecidedStays ==
    ASSUME PhasesSame, RowsCalm, Decided
    PROVE  Decided'
BY DEF Decided, PhasesSame, RowsCalm

LEMMA QuietDirectory ==
    ASSUME CleanupInv, PhasesSame, RowsCalm, UNCHANGED <<names, synced, expected>>
    PROVE  DirectoryInv'
<1>1. DOMAIN expected \subseteq Intents
  BY DEF CleanupInv, CleanupTypeOK
<1>2. /\ Sound(names, intents, expected, Removed) /\ Sound(synced, intents, expected, Removed)
      /\ Decided \/ Named
  BY KeptIs DEF CleanupInv, DirectoryInv
<1>3. /\ Sound(names, intents', expected, Removed')
      /\ Sound(synced, intents', expected, Removed')
  BY <1>1, <1>2, SoundStays
<1>4. Decided' \/ Named'
  BY <1>2, DecidedStays DEF Named
<1>5. QED
  BY <1>3, <1>4, KeptIs DEF DirectoryInv, MediaKept, Decided, Named, Over

(* A new journal begins at its first phase.                                       *)
LEMMA BeginDirectory ==
    ASSUME CleanupInv, NEW c \in Cleaners, NEW i \in Intents, Begin(c, i)
    PROVE  DirectoryInv'
<1>1. /\ CleanupTypeOK /\ StoreInv /\ intents \in [Intents -> IntentRow] /\ DirectoryInv
      /\ JournalsHere
  BY DEF CleanupInv, LedgerInv, StoreInv, TypeOK
<1>2. /\ jobs' = jobs /\ intents[i].phase = "none" /\ i \notin DOMAIN expected
      /\ UNCHANGED <<names, synced>>
      /\ expected' = [k \in DOMAIN expected \cup {i} |->
                         IF k = i THEN names[Here("sidecar")] ELSE expected[k]]
  BY DEF Begin, PrepareIntent
<1>3. /\ intents'[i].phase = "prepared"
      /\ \A k \in Intents \ {i} : intents'[k] = intents[k]
  BY <1>1, PhaseNames DEF Begin, PrepareIntent
<1>4. ASSUME NEW d, Sound(d, intents, expected, Removed)
      PROVE  Sound(d, intents', expected', Removed')
  <2>1. \A k \in Intents : MediaPlaced(d, intents'[k].phase, k)
    BY <1>2, <1>3, <1>4 DEF Sound, MediaPlaced
  <2>2. \A k \in DOMAIN expected' : SidecarPlaced(d, intents'[k].phase, k, expected'[k])
    <3>1. \A file : SidecarPlaced(d, intents'[i].phase, i, file)
      BY <1>3 DEF SidecarPlaced, RemovalDecided
    <3>2. \A k \in DOMAIN expected :
             k # i /\ expected'[k] = expected[k] /\ intents'[k].phase = intents[k].phase
      BY <1>1, <1>2, <1>3 DEF CleanupTypeOK
    <3>3. DOMAIN expected' = DOMAIN expected \cup {i}
      BY <1>2
    <3>4. QED
      BY <1>4, <3>1, <3>2, <3>3 DEF Sound
  <2>3. Removed' = Removed
    BY <1>2 DEF Removed
  <2>4. QED
    BY <1>4, <2>1, <2>2, <2>3 DEF Sound
<1>5. Decided \/ Named => Decided' \/ Named'
  <2>1. Decided => Decided'
    BY <1>2, <1>3 DEF Decided, RemovalDecided
  <2>2. QED
    BY <1>2, <2>1 DEF Named
<1>6. /\ Sound(names, intents', expected', Removed') /\ Sound(synced, intents', expected', Removed')
  BY <1>1, <1>4 DEF DirectoryInv
<1>7. MediaKept'
  BY <1>1, <1>5, KeptIs DEF DirectoryInv, MediaKept, Decided, Named, Over
<1>8. QED
  BY <1>2, <1>6, <1>7 DEF DirectoryInv

(* What the invariant says of the directory, in the words of the lemmas above.     *)
LEMMA DirectoryNow ==
    ASSUME CleanupInv
    PROVE  /\ names \in [Names -> Files] /\ synced \in [Names -> Files]
           /\ DOMAIN expected \subseteq Intents
           /\ \A k \in DOMAIN expected : expected[k] \in Sidecars \cup {NoFile}
           /\ Sound(names, intents, expected, Removed)
           /\ Sound(synced, intents, expected, Removed)
           /\ Decided \/ Named
           /\ StoreInv /\ LedgerInv /\ JournalsHere /\ intents \in [Intents -> IntentRow]
BY KeptIs DEF CleanupInv, DirectoryInv, CleanupTypeOK, LedgerInv, StoreInv, TypeOK

LEMMA DirectoryNext ==
    ASSUME Sound(names', intents', expected', Removed'),
           Sound(synced', intents', expected', Removed'), Decided' \/ Named'
    PROVE  DirectoryInv'
BY KeptIs DEF DirectoryInv, MediaKept, Decided, Named, Over

(* The phase advances once its step has been reached in both directories.          *)
LEMMA AdvanceDirectory ==
    ASSUME CleanupInv, NEW c \in Cleaners, AdvancePhase(c)
    PROVE  /\ DirectoryInv' /\ RowsCalm
           /\ intents' = [intents EXCEPT ![Intent(c)].phase = NextPhase(Phase(c))]
<1> DEFINE i == Intent(c)
           phase == Phase(c)
<1>1. pc[c] = "advance" /\ UNCHANGED <<jobs, names, synced, expected>>
  BY DEF AdvancePhase, Advance
<1>2. intents' = [intents EXCEPT ![i].phase = NextPhase(phase)]
  BY DEF AdvancePhase, Advance
<1>3. i \in Intents /\ phase \in Phases /\ i \in DOMAIN expected
  BY <1>1, AtWork
<1>4. StepHolds("advance", phase, i, names, synced, FileIn(phase, i, expected))
  BY <1>1 DEF CleanupInv, CommandInv, CommandHolds
<1>5. /\ phase # LastPhase
      /\ FileIn(phase, i, expected) # NoFile =>
            /\ Reached(names, phase, i, FileIn(phase, i, expected))
            /\ Reached(synced, phase, i, FileIn(phase, i, expected))
  BY <1>4, Zenon DEF StepHolds
<1>6. /\ intents'[i].phase = NextPhase(phase) /\ phase = intents[i].phase
      /\ \A k \in Intents \ {i} : intents'[k].phase = intents[k].phase
  BY <1>2, <1>3, DirectoryNow DEF Phase, IntentRow
<1> HIDE DEF i, phase
<1>7. Removed' = Removed
  BY <1>1 DEF Removed
<1>8. /\ Sound(names, intents', expected, Removed)
      /\ Sound(synced, intents', expected, Removed)
  BY <1>3, <1>5, <1>6, DirectoryNow, AdvanceIsSound
<1>9. Decided => Decided'
  <2>1. phase \in RemovalDecided => NextPhase(phase) \in RemovalDecided
    BY <1>5, NextPhases, PhaseNames DEF RemovalDecided
  <2>2. QED
    BY <1>1, <1>3, <1>6, <2>1 DEF Decided
<1>10. Named => Named'
  BY <1>1 DEF Named
<1>11. RowsCalm
  BY <1>1, StatesSame
<1>12. DirectoryInv'
  BY <1>1, <1>7, <1>8, <1>9, <1>10, DirectoryNow, DirectoryNext
<1>13. QED
  BY <1>2, <1>11, <1>12 DEF i, phase

(* A journal is dropped unworked or with its rows marked removed.                 *)
LEMMA DropDirectory ==
    ASSUME CleanupInv, NEW c \in Cleaners,
           \/ CompleteGroup(Intent(c), TheClaim(c)) \/ Abort(Intent(c))
           \/ AbortClaimed(Intent(c), TheClaim(c)),
           UNCHANGED <<names, synced, expected>>
    PROVE  /\ DirectoryInv' /\ intents' = [intents EXCEPT ![Intent(c)] = NoIntent]
<1> DEFINE i == Intent(c)
<1>1. i \in Intents
  BY CommandMemory DEF CleanupInv
<1>2. /\ intents' = [intents EXCEPT ![i] = NoIntent]
      /\ intents[i].phase \in {FirstPhase, LastPhase}
  BY Zenon DEF CompleteGroup, Abort, AbortClaimed
<1>3. /\ intents'[i].phase = "none"
      /\ \A k \in Intents \ {i} : intents'[k].phase = intents[k].phase
  BY <1>1, <1>2, DirectoryNow DEF NoIntent
<1>4. /\ Removed' => Removed \/ intents[i].phase = LastPhase
      /\ Decided => Decided'
  <2>1. CASE Abort(i) \/ AbortClaimed(i, TheClaim(c))
    <3>1. RowsCalm /\ intents[i].phase = FirstPhase
      BY <1>1, <2>1, DirectoryNow, AbortsCalm
    <3>2. intents[i].phase \notin RemovalDecided
      BY <3>1, PhaseNames DEF RemovalDecided
    <3>3. Decided => Decided'
      BY <1>1, <1>3, <3>1, <3>2 DEF Decided, RowsCalm
    <3>4. QED
      BY <3>1, <3>3 DEF Removed, RowsCalm
  <2>2. CASE CompleteGroup(i, TheClaim(c))
    <3>1. ClaimCurrent(i, TheClaim(c)) /\ TheClaim(c).owner \in Cleaners
      BY <2>2 DEF CompleteGroup, TheClaim
    <3>2. intents[i].phase = LastPhase /\ intents[i].members # {}
      BY <1>1, <2>2, <3>1, ClaimHeld, DirectoryNow DEF CompleteGroup
    <3>3. PICK j \in intents[i].members : TRUE
      BY <3>2
    <3>4. j \in Jobs /\ jobs[j] \in Row
      BY <1>1, DirectoryNow, MembersOf
    <3>5. jobs'[j] = LocallyRemoved(jobs[j])
      BY <2>2, <3>4 DEF CompleteGroup
    <3>6. jobs'[j].state = "local_removed"
      BY <3>4, <3>5 DEF LocallyRemoved, Row
    <3>7. Decided'
      BY <3>4, <3>6 DEF Decided, Over
    <3>8. QED
      BY <3>2, <3>7
  <2>3. QED
    BY <2>1, <2>2
<1> HIDE DEF i
<1>5. /\ Sound(names, intents', expected, Removed')
      /\ Sound(synced, intents', expected, Removed')
  BY <1>1, <1>2, <1>3, <1>4, DirectoryNow, DropIsSound
<1>6. Named => Named'
  BY DEF Named
<1>7. DirectoryInv'
  BY <1>4, <1>5, <1>6, DirectoryNow, DirectoryNext
<1>8. QED
  BY <1>2, <1>7 DEF i

(* A sync makes durable what everyone sees.                                       *)
LEMMA SyncDirectory ==
    ASSUME CleanupInv, UNCHANGED <<storeVars, names, expected>>, synced' = names
    PROVE  DirectoryInv'
<1>1. intents' = intents /\ Removed' = Removed /\ names' = names /\ expected' = expected
  BY DEF storeVars, Removed
<1>2. (Decided => Decided') /\ (Named => Named')
  BY <1>1 DEF Decided, Named, storeVars
<1>3. QED
  BY <1>1, <1>2, DirectoryNow, DirectoryNext

(* A link of the phase's file beside the original.                                *)
LEMMA LinkDirectory ==
    ASSUME CleanupInv, NEW c \in Cleaners, Link(c)
    PROVE  DirectoryInv'
<1> DEFINE i == Intent(c)
           phase == Phase(c)
           file == FileIn(phase, i, expected)
<1>1. /\ pc[c] = "link" /\ UNCHANGED <<storeVars, synced, expected>>
      /\ names' = [names EXCEPT ![Target(c)] = FileOf(Kind(c), Intent(c))]
  BY DEF Link
<1>2. /\ i \in Intents /\ i \in DOMAIN expected /\ phase \in Phases
      /\ FileOf(Kind(c), Intent(c)) = file /\ Target(c) = TargetIn(phase, i)
      /\ Target(c) \in Names /\ phase = intents[i].phase
  BY <1>1, AtWork DEF Target, TargetIn, Phase
<1>3. CommandHolds(c) /\ pc[c] # "idle" /\ pc[c] # "claim"
  BY <1>1 DEF CleanupInv, CommandInv
<1>4. /\ StepHolds("link", phase, i, names, synced, file)
      /\ \A k \in Intents \ {i} : intents[k].phase \in {"none", FirstPhase}
  BY <1>1, <1>3 DEF CommandHolds, ClaimHolds
<1>5. MovingIn(phase) /\ file # NoFile /\ LinkReady(names, phase, i, file)
  BY <1>4, Zenon DEF StepHolds
<1>6. names' = [names EXCEPT ![TargetIn(phase, i)] = file]
  BY <1>1, <1>2
<1>7. PICK f : f = file
  OBVIOUS
<1>8. Sound([names EXCEPT ![TargetIn(phase, i)] = f], intents, expected, Removed)
  <2> HIDE DEF i, phase
  <2>1. f = FileIn(phase, i, expected) /\ f # NoFile /\ LinkReady(names, phase, i, f)
    BY <1>5, <1>7
  <2>2. QED
    BY <1>2, <1>4, <1>5, <2>1, DirectoryNow, LinkIsSound
<1>9. Named => Named'
  <2>1. ASSUME NEW n \in Names, names[n] = Media, synced[n] = Media
        PROVE  names'[n] = Media
    <3>1. names[Target(c)] \in {file, NoFile}
      BY <1>2, <1>5 DEF LinkReady
    <3>2. QED
      BY <1>2, <1>6, <2>1, <3>1, DirectoryNow, CleanupAssumption
  <2>2. QED
    BY <1>1, <2>1 DEF Named
<1>10. /\ intents' = intents /\ Removed' = Removed /\ (Decided => Decided')
  BY <1>1 DEF storeVars, Removed, Decided
<1> HIDE DEF i, phase, file
<1>11. QED
  BY <1>1, <1>6, <1>7, <1>8, <1>9, <1>10, DirectoryNow, DirectoryNext

(* An unlink takes a name away, and the recording's own only once the other one is   *)
(* durable or its removal decided.                                                *)
LEMMA UnlinkDirectory ==
    ASSUME CleanupInv, NEW c \in Cleaners, Unlink(c)
    PROVE  DirectoryInv'
<1> DEFINE i == Intent(c)
           phase == Phase(c)
           file == FileIn(phase, i, expected)
           victim == IF Moving(c) THEN Source(c) ELSE Target(c)
<1>1. /\ pc[c] = "unlink" /\ UNCHANGED <<storeVars, synced, expected>>
      /\ names' = [names EXCEPT ![victim] = NoFile]
  BY DEF Unlink
<1>2. /\ i \in Intents /\ i \in DOMAIN expected /\ phase \in Phases
      /\ FileOf(Kind(c), i) = file /\ Target(c) = TargetIn(phase, i)
      /\ Target(c) \in Names /\ Source(c) \in Names /\ Moving(c) = MovingIn(phase)
      /\ Kind(c) \in Kinds /\ Kind(c) = KindIn(phase)
  BY <1>1, AtWork DEF Target, TargetIn
<1>3. StepHolds("unlink", phase, i, names, synced, file)
  BY <1>1 DEF CleanupInv, CommandInv, CommandHolds
<1>4. /\ phase # LastPhase /\ file # NoFile
      /\ MovingIn(phase) => names[TargetIn(phase, i)] = file /\ synced[TargetIn(phase, i)] = file
  BY <1>3, Zenon DEF StepHolds
<1>5. victim \in Names
  BY <1>2
<1>6. \A n \in Names : names'[n] \in {names[n], synced[n], NoFile}
  BY <1>1, <1>5, DirectoryNow
<1>7. PICK new : new = names'
  OBVIOUS
<1>8. Sound(new, intents, expected, Removed)
  BY <1>6, <1>7, MixtureIsSound, DirectoryNow
<1>9. Decided \/ Named'
  <2>1. CASE Kind(c) = "sidecar"
    <3>1. victim[1] = "sidecar"
      BY <1>2, <2>1, PlaceNames DEF Source, Target
    <3>2. names[victim] # Media
      BY <1>5, <3>1, DirectoryNow DEF Sound, Sorted
    <3>3. Named => Named'
      BY <1>1, <1>5, <3>2, DirectoryNow DEF Named
    <3>4. QED
      BY <3>3, DirectoryNow
  <2>2. CASE Kind(c) = "media" /\ Moving(c)
    <3>1. file = Media /\ victim = Source(c) /\ Source(c) # Target(c)
      BY <1>2, <2>2, PlaceNames DEF FileIn, Source, Target
    <3>2. names[Target(c)] = Media /\ synced[Target(c)] = Media
      BY <1>2, <1>4, <2>2, <3>1
    <3>3. names'[Target(c)] = Media /\ synced'[Target(c)] = Media
      BY <1>1, <1>2, <3>1, <3>2, DirectoryNow
    <3>4. QED
      BY <1>2, <3>3 DEF Named
  <2>3. CASE Kind(c) = "media" /\ ~ Moving(c)
    <3>1. phase = "sidecar_unlinked"
      BY <1>2, <1>4, <2>3, PhaseNames DEF KindIn, MovingIn
    <3>2. QED
      BY <1>2, <3>1 DEF Decided, RemovalDecided, Phase
  <2>4. QED
    BY <1>2, <2>1, <2>2, <2>3 DEF Kinds
<1>10. /\ intents' = intents /\ Removed' = Removed /\ (Decided => Decided')
  BY <1>1 DEF storeVars, Removed, Decided
<1> HIDE DEF i, phase, file, victim
<1>11. QED
  BY <1>1, <1>7, <1>8, <1>9, <1>10, DirectoryNow, DirectoryNext

(* After a power loss each name is as it was or as it was last synced.            *)
LEMMA LossDirectory ==
    ASSUME CleanupInv, PowerLoss
    PROVE  DirectoryInv'
<1>1. PICK lost : names' = [n \in Names |-> IF n \in lost THEN synced[n] ELSE names[n]]
  BY DEF PowerLoss
<1>2. synced' = names' /\ UNCHANGED <<storeVars, expected>>
  BY DEF PowerLoss
<1>3. PICK new : new = names'
  OBVIOUS
<1>4. \A n \in Names : new[n] \in {names[n], synced[n], NoFile}
  BY <1>1, <1>3
<1>5. Sound(new, intents, expected, Removed)
  BY <1>4, MixtureIsSound, DirectoryNow
<1>6. Named => Named'
  BY <1>1, <1>2 DEF Named
<1>7. /\ intents' = intents /\ Removed' = Removed /\ (Decided => Decided')
  BY <1>2 DEF storeVars, Removed, Decided
<1>8. QED
  BY <1>2, <1>3, <1>5, <1>6, <1>7, DirectoryNow, DirectoryNext

(* A correction by another command of the application.                            *)
LEMMA CorrectDirectory ==
    ASSUME CleanupInv, NEW renames \in BOOLEAN, Correct(renames)
    PROVE  DirectoryInv'
<1>1. PICK fresh \in Sidecars, place \in {Renamed, Original} :
         /\ \A k \in DOMAIN expected : expected[k] # fresh
         /\ names' = [[names EXCEPT ![Here("media")] = NoFile, ![Here("sidecar")] = NoFile]
                        EXCEPT ![<<"media", place>>] = Media, ![<<"sidecar", place>>] = fresh]
  BY Zenon DEF Correct
<1>2. names[Here("media")] = Media /\ synced' = names' /\ expected' = expected
  BY DEF Correct
<1>3. RowsCalm /\ intents' = intents
  BY CorrectionsCalm, DirectoryNow
<1>4. \A k \in Intents : intents[k].phase \in Phases \cup {"none"}
  BY DirectoryNow DEF IntentRow
<1>10. PICK new : new = names'
  OBVIOUS
<1>11. \A n \in Names :
          new[n] = (IF n = <<"sidecar", place>> THEN fresh
                    ELSE IF n = <<"media", place>> THEN Media
                    ELSE IF n = Here("sidecar") \/ n = Here("media") THEN NoFile ELSE names[n])
  BY <1>1, <1>10, DirectoryNow DEF Here, Names, Kinds
<1>12. /\ Sound(new, intents, expected, Removed)
       /\ <<"media", place>> \in Names /\ new[<<"media", place>>] = Media
  <2> HIDE DEF Sound
  <2>1. place \in {Original, Renamed}
    OBVIOUS
  <2>2. \A k \in DOMAIN expected : expected[k] # fresh
    BY <1>1
  <2>3. names[Here("media")] = Media
    BY <1>2
  <2>4. PICK removed \in BOOLEAN : removed = Removed
    BY DEF Removed
  <2>5. /\ names \in [Names -> Files] /\ Sound(names, intents, expected, removed)
        /\ \A k \in DOMAIN expected : expected[k] \in Sidecars \cup {NoFile}
        /\ DOMAIN expected \subseteq Intents
    BY <2>4, DirectoryNow
  <2>6. /\ Sound(new, intents, expected, removed)
        /\ <<"media", place>> \in Names /\ new[<<"media", place>>] = Media
    BY <1>4, <1>11, <2>1, <2>2, <2>3, <2>5, CorrectionIsSound
  <2>7. QED
    BY <2>4, <2>6
<1>5. /\ Sound(names', intents, expected, Removed)
      /\ <<"media", place>> \in Names /\ names'[<<"media", place>>] = Media
  BY <1>10, <1>12
<1>6. Named'
  BY <1>2, <1>5 DEF Named
<1>7. Removed' => Removed
  BY <1>3 DEF RowsCalm, Removed
<1>8. Sound(names', intents, expected, Removed')
  BY <1>5, <1>7 DEF Sound
<1>9. QED
  BY <1>2, <1>3, <1>6, <1>8, DirectoryNext

---------------------------------------------------------------------------
(* Each step keeps what commands know.                                            *)

(* Only one command is at work, so a step of one leaves the others idle.           *)
LEMMA ActorStep ==
    ASSUME CleanupInv, NEW c \in Cleaners, pc[c] # "idle" \/ lock = NoOwner,
           NEW step, Goto(c, step), CommandHolds(c)'
    PROVE  CommandInv'
<1> SUFFICES ASSUME NEW x \in Cleaners PROVE CommandHolds(x)'
  BY DEF CommandInv
<1>1. CASE x = c
  BY <1>1
<1>2. CASE x # c
  <2>1. pc[x] = "idle"
    BY <1>2, StoreAssumption DEF CleanupInv, CommandInv, CommandHolds
  <2>2. pc'[x] = "idle"
    BY <1>2, <2>1 DEF CleanupInv, CleanupTypeOK, Goto
  <2>3. QED
    BY <2>2 DEF CommandHolds
<1>3. QED
  BY <1>1, <1>2

LEMMA AtStep ==
    ASSUME CleanupTypeOK, NEW c \in Cleaners, NEW step, Goto(c, step)
    PROVE  pc'[c] = step
BY DEF CleanupTypeOK, Goto

(* A command that ends knows nothing.                                             *)
LEMMA EndStep ==
    ASSUME CleanupInv, NEW c \in Cleaners, pc[c] # "idle", Goto(c, "idle")
    PROVE  CommandInv'
<1>1. pc'[c] = "idle"
  BY AtStep DEF CleanupInv
<1>2. QED
  BY <1>1, ActorStep DEF CommandHolds

(* What has to be shown of a command that goes on.                                *)
LEMMA GoOn ==
    ASSUME CleanupInv, NEW c \in Cleaners, pc[c] # "idle" \/ lock = NoOwner,
           NEW step \in Steps, pc' = [pc EXCEPT ![c] = step],
           NEW i, mem'[c].intent = i, lock' = c,
           NEW phase, intents'[i].phase = phase, phase # "none",
           NEW gens, mem'[c].gens = gens,
           step # "claim" => /\ intents'[i].gens = gens
                             /\ \A k \in Intents \ {i} : intents'[k].phase \in {"none", FirstPhase},
           StepHolds(step, phase, i, names', synced', FileIn(phase, i, expected'))
    PROVE  CommandInv'
<1>1. pc'[c] = step /\ Goto(c, step)
  BY DEF CleanupInv, CleanupTypeOK, Goto
<1>2. Intent(c)' = i /\ Phase(c)' = phase
  BY DEF Intent, Phase
<1>3. CommandHolds(c)'
  BY <1>1, <1>2 DEF CommandHolds, ClaimHolds
<1>4. QED
  BY <1>1, <1>3, ActorStep

LEMMA StartStep ==
    ASSUME CleanupInv, NEW c \in Cleaners, NEW i \in Intents, Begin(c, i) \/ Resume(c, i)
    PROVE  CommandInv'
<1>1. /\ lock = NoOwner /\ lock' = c /\ pc' = [pc EXCEPT ![c] = "claim"]
      /\ mem' = [mem EXCEPT ![c].intent = i]
  BY DEF Begin, Resume, Goto
<1>2. mem'[c].intent = i
  BY <1>1 DEF CleanupInv, CleanupTypeOK, Memory
<1>3. intents'[i].phase # "none"
  <2>1. CASE Begin(c, i)
    BY <2>1, DirectoryNow, PhaseNames DEF Begin, PrepareIntent
  <2>2. CASE Resume(c, i)
    BY <2>2 DEF Resume, storeVars
  <2>3. QED
    BY <2>1, <2>2
<1>4. StepHolds("claim", intents'[i].phase, i, names', synced',
                FileIn(intents'[i].phase, i, expected'))
  BY DEF StepHolds
<1>5. "claim" \in Steps
  BY DEF Steps
<1>6. QED
  BY <1>1, <1>2, <1>3, <1>4, <1>5, GoOn

LEMMA TakeClaimStep ==
    ASSUME CleanupInv, NEW c \in Cleaners, TakeClaim(c)
    PROVE  CommandInv'
<1> DEFINE i == Intent(c)
<1>1. /\ pc[c] = "claim" /\ ClaimGroup(i, c) /\ UNCHANGED lock /\ MembersUnchanged(i)
      /\ pc' = [pc EXCEPT ![c] = "check"]
      /\ mem' = [mem EXCEPT ![c].gens = intents'[i].gens, ![c].fresh = FALSE,
                            ![c].mutated = FALSE]
  BY DEF TakeClaim, Goto, ClaimGroup
<1>2. i \in Intents /\ lock = c /\ intents[i].phase \in Phases
  BY <1>1, AtWork DEF Phase
<1>3. mem'[c].intent = i /\ mem'[c].gens = intents'[i].gens
  BY <1>1 DEF CleanupInv, CleanupTypeOK, Memory, Intent
<1>4. PhasesSame
  BY <1>1, <1>2, LeasesCalm, DirectoryNow
<1>5. intents'[i].phase = intents[i].phase /\ intents'[i].phase # "none"
  BY <1>2, <1>4, PhaseNames DEF PhasesSame
<1>6. \A k \in Intents \ {i} : intents'[k].phase \in {"none", FirstPhase}
  BY <1>1, <1>2, <1>4, NoRival, DirectoryNow DEF PhasesSame
<1>7. StepHolds("check", intents'[i].phase, i, names', synced',
                FileIn(intents'[i].phase, i, expected'))
  BY DEF StepHolds
<1>8. "check" \in Steps
  BY DEF Steps
<1> HIDE DEF i
<1>9. QED
  BY <1>1, <1>2, <1>3, <1>5, <1>6, <1>7, <1>8, GoOn

(* A command at work past its claim, in one place.                                *)
LEMMA PastClaim ==
    ASSUME CleanupInv, NEW c \in Cleaners, pc[c] \notin {"idle", "claim"}
    PROVE  /\ mem[c].gens = intents[Intent(c)].gens
           /\ \A k \in Intents \ {Intent(c)} : intents[k].phase \in {"none", FirstPhase}
           /\ StepHolds(pc[c], Phase(c), Intent(c), names, synced,
                        FileIn(Phase(c), Intent(c), expected))
BY DEF CleanupInv, CommandInv, CommandHolds, ClaimHolds

(* A step past the claim that changes neither the journals nor the claim.          *)
LEMMA WorkStep ==
    ASSUME CleanupInv, NEW c \in Cleaners, pc[c] \notin {"idle", "claim"},
           NEW step \in Steps, pc' = [pc EXCEPT ![c] = step],
           UNCHANGED <<intents, expected, lock>>,
           Intent(c)' = Intent(c), mem'[c].gens = mem[c].gens,
           StepHolds(step, Phase(c), Intent(c), names', synced',
                     FileIn(Phase(c), Intent(c), expected))
    PROVE  CommandInv'
<1>1. mem'[c].intent = Intent(c)
  BY DEF Intent
<1>2. lock = c /\ Phase(c) # "none"
  BY AtWork, PhaseNames
<1>3. intents'[Intent(c)].phase = Phase(c)
  BY DEF Phase
<1>4. StepHolds(step, Phase(c), Intent(c), names', synced', FileIn(Phase(c), Intent(c), expected'))
  OBVIOUS
<1>5. QED
  BY <1>1, <1>2, <1>3, <1>4, PastClaim, GoOn

(* A file found under one or both of its names may be linked to the second.        *)
LEMMA PairIsReady ==
    ASSUME NEW kind \in Kinds, NEW i \in Intents, PairHolds(kind, i),
           NEW file, file = FileOf(kind, i)
    PROVE  /\ names[Here(kind)] \in {file, NoFile} /\ names[Quarantine(kind, i)] \in {file, NoFile}
           /\ names[Here(kind)] = NoFile =>
                 names[Quarantine(kind, i)] = file /\ OnlyAt(names, file, Quarantine(kind, i))
<1> DEFINE at == {n \in {Here(kind), Quarantine(kind, i)} : names[n] # NoFile}
<1>1. at # {} /\ (\A n \in at : names[n] = file) /\ LinkCount(file) = Cardinality(at)
  BY DEF PairHolds
<1>2. ASSUME names[Here(kind)] = NoFile
      PROVE  names[Quarantine(kind, i)] = file /\ OnlyAt(names, file, Quarantine(kind, i))
  <2>1. at = {Quarantine(kind, i)}
    BY <1>1, <1>2
  <2>2. names[Quarantine(kind, i)] = file /\ LinkCount(file) = 1
    BY <1>1, <2>1, FS_Singleton
  <2>3. QED
    BY <2>2, PlaceNames, CountedLinks
<1>3. QED
  BY <1>1, <1>2

LEMMA CheckStep ==
    ASSUME CleanupInv, NEW c \in Cleaners, Check(c)
    PROVE  CommandInv'
<1> DEFINE i == Intent(c)
           phase == Phase(c)
           file == FileIn(phase, i, expected)
           step == IF phase = LastPhase THEN "complete"
                   ELSE IF NothingToDo(c) THEN "advance"
                   ELSE IF Moving(c) THEN "link" ELSE "unlink"
<1>1. /\ pc[c] = "check" /\ NamesHold(i) /\ RenewGroup(i, TheClaim(c))
      /\ pc' = [pc EXCEPT ![c] = step] /\ UNCHANGED <<names, synced, expected, lock>>
  BY DEF Check, Goto
<1>2. PICK mutated : mem' = [mem EXCEPT ![c].mutated = mutated]
  BY DEF Check
<1>3. intents' = intents
  BY <1>1 DEF RenewGroup
<1>4. /\ i \in Intents /\ phase \in Phases /\ phase = intents[i].phase
      /\ FileOf(Kind(c), i) = file /\ Kind(c) = KindIn(phase) /\ Kind(c) \in Kinds
      /\ Moving(c) = MovingIn(phase) /\ NothingToDo(c) = (file = NoFile)
  BY <1>1, AtWork DEF Phase, NothingToDo
<1>5. StepHolds(step, phase, i, names', synced', file)
  <2>1. CASE phase = LastPhase
    BY <2>1 DEF StepHolds
  <2>2. CASE phase # LastPhase /\ file = NoFile
    <3>1. step = "advance"
      BY <1>4, <2>2
    <3>2. QED
      BY <2>2, <3>1 DEF StepHolds
  <2>3. CASE phase # LastPhase /\ file # NoFile /\ ~ MovingIn(phase)
    <3>1. step = "unlink"
      BY <1>4, <2>3
    <3>2. QED
      BY <2>3, <3>1 DEF StepHolds
  <2>4. CASE phase # LastPhase /\ file # NoFile /\ MovingIn(phase)
    <3>1. step = "link"
      BY <1>4, <2>4
    <3>2. PairHolds(Kind(c), i)
      <4>1. CASE phase = "prepared"
        <5>1. expected[i] # NoFile /\ Kind(c) = "sidecar"
          BY <1>4, <2>4, <4>1 DEF FileIn, KindIn
        <5>2. QED
          BY <1>1, <1>4, <4>1, <5>1 DEF NamesHold
      <4>2. CASE phase = "sidecar_quarantined"
        <5>1. Kind(c) = "media"
          BY <1>4, <4>2 DEF KindIn
        <5>2. QED
          BY <1>1, <1>4, <4>2, <5>1 DEF NamesHold
      <4>3. QED
        BY <2>4, <4>1, <4>2 DEF MovingIn
    <3>3. LinkReady(names, phase, i, file)
      BY <1>4, <3>2, PairIsReady DEF LinkReady, TargetIn
    <3>4. names' = names
      BY <1>1
    <3>5. QED
      BY <2>4, <3>1, <3>3, <3>4 DEF StepHolds
  <2>5. QED
    BY <2>1, <2>2, <2>3, <2>4
<1>6. step \in Steps
  BY DEF Steps
<1>7. pc[c] \notin {"idle", "claim"}
  BY <1>1
<1>8. UNCHANGED <<intents, expected, lock>>
  BY <1>1, <1>3
<1>9. Intent(c)' = Intent(c) /\ mem'[c].gens = mem[c].gens
  BY <1>1, <1>2 DEF CleanupInv, CleanupTypeOK, Memory, Intent
<1> HIDE DEF step
<1>10. QED
  BY <1>1, <1>2, <1>5, <1>6, <1>7, <1>8, <1>9, WorkStep

LEMMA RenewalStep ==
    ASSUME CleanupInv, NEW c \in Cleaners, Renewal(c)
    PROVE  CommandInv'
<1>1. /\ pc[c] \in {"link", "unlink", "advance"} /\ RenewGroup(Intent(c), TheClaim(c))
      /\ mem' = [mem EXCEPT ![c].fresh = TRUE]
      /\ UNCHANGED <<names, synced, expected, lock, pc>>
  BY DEF Renewal
<1>2. PICK step \in Steps : step = pc[c]
  BY CommandMemory DEF CleanupInv
<1>3. pc' = [pc EXCEPT ![c] = step]
  BY <1>1, <1>2 DEF CleanupInv, CleanupTypeOK
<1>4. pc[c] \notin {"idle", "claim"} /\ UNCHANGED <<intents, expected, lock>>
  BY <1>1 DEF RenewGroup
<1>5. names' = names /\ synced' = synced
  BY <1>1
<1>6. StepHolds(step, Phase(c), Intent(c), names', synced',
                FileIn(Phase(c), Intent(c), expected))
  BY <1>2, <1>4, <1>5, PastClaim
<1>7. Intent(c)' = Intent(c) /\ mem'[c].gens = mem[c].gens
  BY <1>1 DEF CleanupInv, CleanupTypeOK, Memory, Intent
<1>8. QED
  BY <1>1, <1>3, <1>4, <1>6, <1>7, WorkStep

LEMMA LinkStep ==
    ASSUME CleanupInv, NEW c \in Cleaners, Link(c)
    PROVE  CommandInv'
<1> DEFINE i == Intent(c)
           phase == Phase(c)
           file == FileIn(phase, i, expected)
           step == IF names[Source(c)] = NoFile THEN "unlink_sync" ELSE "link_sync"
<1>1. /\ pc[c] = "link" /\ UNCHANGED <<storeVars, synced, expected, lock>>
      /\ names' = [names EXCEPT ![Target(c)] = FileOf(Kind(c), Intent(c))]
      /\ pc' = [pc EXCEPT ![c] = step]
      /\ mem' = [mem EXCEPT ![c].fresh = FALSE, ![c].mutated = TRUE]
  BY DEF Link, Goto, SpendRenewal
<1>2. /\ i \in Intents /\ phase \in Phases
      /\ FileOf(Kind(c), Intent(c)) = file /\ Target(c) = TargetIn(phase, i)
      /\ Target(c) \in Names /\ Source(c) = Here(KindIn(phase)) /\ Kind(c) = KindIn(phase)
  BY <1>1, AtWork DEF Target, TargetIn, Source
<1>3. StepHolds("link", phase, i, names, synced, file)
  BY <1>1, PastClaim
<1>4. MovingIn(phase) /\ file # NoFile /\ LinkReady(names, phase, i, file)
  BY <1>3, Zenon DEF StepHolds
<1>5. names'[Target(c)] = file
  BY <1>1, <1>2, DirectoryNow
<1>6. StepHolds(step, phase, i, names', synced', file)
  <2>1. CASE names[Source(c)] # NoFile
    <3>1. step = "link_sync"
      BY <2>1
    <3>2. names'[TargetIn(phase, i)] = file
      BY <1>2, <1>5
    <3>3. QED
      BY <1>4, <3>1, <3>2 DEF StepHolds
  <2>2. CASE names[Source(c)] = NoFile
    <3>1. step = "unlink_sync"
      BY <2>2
    <3>2. OnlyAt(names, file, Target(c))
      BY <1>2, <1>4, <2>2 DEF LinkReady
    <3>3. OnlyAt(names', file, Target(c))
      BY <1>1, <1>2, <3>2, DirectoryNow DEF OnlyAt
    <3>4. phase # LastPhase
      BY <1>4, PhaseNames DEF MovingIn
    <3>5. Reached(names', phase, i, file)
      <4>1. CASE phase = "prepared"
        <5>1. Target(c) = Quarantine("sidecar", i)
          BY <1>2, <4>1 DEF TargetIn, KindIn
        <5>2. QED
          BY <3>3, <4>1, <5>1 DEF Reached
      <4>2. CASE phase = "sidecar_quarantined"
        <5>1. Target(c) = Quarantine("media", i)
          BY <1>2, <4>2 DEF TargetIn, KindIn
        <5>2. QED
          BY <3>3, <4>2, <5>1 DEF Reached
      <4>3. QED
        BY <1>4, <4>1, <4>2 DEF MovingIn
    <3>6. QED
      BY <3>1, <3>4, <3>5 DEF StepHolds
  <2>3. QED
    BY <2>1, <2>2
<1>7. step \in Steps
  BY DEF Steps
<1>8. pc[c] \notin {"idle", "claim"} /\ UNCHANGED <<intents, expected, lock>>
  BY <1>1 DEF storeVars
<1>9. Intent(c)' = Intent(c) /\ mem'[c].gens = mem[c].gens
  BY <1>1 DEF CleanupInv, CleanupTypeOK, Memory, Intent
<1> HIDE DEF step
<1>10. QED
  BY <1>1, <1>6, <1>7, <1>8, <1>9, WorkStep

LEMMA SyncLinkStep ==
    ASSUME CleanupInv, NEW c \in Cleaners, SyncLink(c)
    PROVE  CommandInv'
<1> DEFINE file == FileIn(Phase(c), Intent(c), expected)
<1>1. /\ pc[c] = "link_sync" /\ UNCHANGED <<storeVars, expected, lock>>
      /\ names' = names /\ synced' = names
      /\ pc' = [pc EXCEPT ![c] = "unlink"] /\ mem' = mem
  BY DEF SyncLink, Goto
<1>2. StepHolds("link_sync", Phase(c), Intent(c), names, synced, file)
  BY <1>1, PastClaim
<1>3. /\ MovingIn(Phase(c)) /\ file # NoFile
      /\ names[TargetIn(Phase(c), Intent(c))] = file
  BY <1>2, Zenon DEF StepHolds
<1>4. Phase(c) # LastPhase
  BY <1>3, PhaseNames DEF MovingIn
<1>5. StepHolds("unlink", Phase(c), Intent(c), names', synced', file)
  BY <1>1, <1>3, <1>4 DEF StepHolds
<1>6. "unlink" \in Steps
  BY DEF Steps
<1>7. pc[c] \notin {"idle", "claim"} /\ UNCHANGED <<intents, expected, lock>>
  BY <1>1 DEF storeVars
<1>8. Intent(c)' = Intent(c) /\ mem'[c].gens = mem[c].gens
  BY <1>1 DEF CleanupInv, CleanupTypeOK, Memory, Intent
<1>9. QED
  BY <1>1, <1>5, <1>6, <1>7, <1>8, WorkStep

(* Of two links the unlink takes one and leaves the other; of a last one, none.    *)
LEMMA UnlinkStep ==
    ASSUME CleanupInv, NEW c \in Cleaners, Unlink(c)
    PROVE  CommandInv'
<1> DEFINE i == Intent(c)
           phase == Phase(c)
           file == FileIn(phase, i, expected)
           victim == IF Moving(c) THEN Source(c) ELSE Target(c)
<1>1. /\ pc[c] = "unlink" /\ UNCHANGED <<storeVars, synced, expected, lock>>
      /\ names' = [names EXCEPT ![victim] = NoFile]
      /\ pc' = [pc EXCEPT ![c] = "unlink_sync"]
      /\ mem' = [mem EXCEPT ![c].fresh = FALSE, ![c].mutated = TRUE]
  BY DEF Unlink, Goto, SpendRenewal
<1>2. /\ i \in Intents /\ phase \in Phases /\ i \in DOMAIN expected /\ phase = intents[i].phase
      /\ FileOf(Kind(c), i) = file /\ Target(c) = TargetIn(phase, i)
      /\ Target(c) \in Names /\ Source(c) \in Names /\ Moving(c) = MovingIn(phase)
      /\ Kind(c) \in Kinds /\ Kind(c) = KindIn(phase) /\ Source(c) # Target(c)
  BY <1>1, AtWork, PlaceNames DEF Target, TargetIn, Source, Phase
<1>3. StepHolds("unlink", phase, i, names, synced, file)
  BY <1>1, PastClaim
<1>4. /\ phase # LastPhase /\ file # NoFile
      /\ MovingIn(phase) => names[TargetIn(phase, i)] = file
  BY <1>3, Zenon DEF StepHolds
<1>5. Reached(names', phase, i, file)
  <2>1. CASE MovingIn(phase)
    <3>1. names[Source(c)] = file /\ LinkCount(file) = 2 /\ victim = Source(c)
      BY <1>2, <2>1 DEF Unlink
    <3>2. names[Target(c)] = file
      BY <1>2, <1>4, <2>1
    <3>3. \A k \in Names : names[k] = file => k = Source(c) \/ k = Target(c)
      BY <1>2, <3>1, <3>2, CountedLinks
    <3>4. OnlyAt(names', file, Target(c))
      BY <1>1, <1>2, <1>4, <3>1, <3>3, DirectoryNow DEF OnlyAt
    <3>5. CASE phase = "prepared"
      <4>1. Target(c) = Quarantine("sidecar", i)
        BY <1>2, <3>5 DEF TargetIn, KindIn
      <4>2. QED
        BY <3>4, <3>5, <4>1 DEF Reached
    <3>6. CASE phase = "sidecar_quarantined"
      <4>1. Target(c) = Quarantine("media", i)
        BY <1>2, <3>6 DEF TargetIn, KindIn
      <4>2. QED
        BY <3>4, <3>6, <4>1 DEF Reached
    <3>7. QED
      BY <2>1, <3>5, <3>6 DEF MovingIn
  <2>2. CASE ~ MovingIn(phase)
    <3>1. victim = Target(c) /\ phase \in {"media_quarantined", "sidecar_unlinked"}
      BY <1>2, <1>4, <2>2, PhaseNames DEF MovingIn
    <3>2. OnlyAt(names, file, Target(c))
      <4>1. CASE phase = "media_quarantined"
        <5>1. Target(c) = Quarantine("sidecar", i) /\ file = expected[i]
          BY <1>2, <4>1 DEF TargetIn, KindIn, FileIn
        <5>2. SidecarPlaced(names, phase, i, expected[i])
          BY <1>2, DirectoryNow DEF Sound
        <5>3. QED
          BY <1>4, <4>1, <5>1, <5>2 DEF SidecarPlaced
      <4>2. CASE phase = "sidecar_unlinked"
        <5>1. Target(c) = Quarantine("media", i) /\ file = Media
          BY <1>2, <4>2 DEF TargetIn, KindIn, FileIn
        <5>2. MediaPlaced(names, phase, i)
          BY <1>2, DirectoryNow DEF Sound
        <5>3. QED
          BY <4>2, <5>1, <5>2 DEF MediaPlaced
      <4>3. QED
        BY <3>1, <4>1, <4>2
    <3>3. Gone(names', file)
      BY <1>1, <1>2, <1>4, <3>1, <3>2, DirectoryNow DEF OnlyAt, Gone
    <3>4. QED
      BY <3>1, <3>3 DEF Reached
  <2>3. QED
    BY <2>1, <2>2
<1>6. StepHolds("unlink_sync", phase, i, names', synced', file)
  BY <1>4, <1>5 DEF StepHolds
<1>7. "unlink_sync" \in Steps
  BY DEF Steps
<1>8. pc[c] \notin {"idle", "claim"} /\ UNCHANGED <<intents, expected, lock>>
  BY <1>1 DEF storeVars
<1>9. Intent(c)' = Intent(c) /\ mem'[c].gens = mem[c].gens
  BY <1>1 DEF CleanupInv, CleanupTypeOK, Memory, Intent
<1>10. QED
  BY <1>1, <1>6, <1>7, <1>8, <1>9, WorkStep

LEMMA SyncUnlinkStep ==
    ASSUME CleanupInv, NEW c \in Cleaners, SyncUnlink(c)
    PROVE  CommandInv'
<1> DEFINE file == FileIn(Phase(c), Intent(c), expected)
<1>1. /\ pc[c] = "unlink_sync" /\ UNCHANGED <<storeVars, expected, lock>>
      /\ names' = names /\ synced' = names
      /\ pc' = [pc EXCEPT ![c] = "advance"] /\ mem' = mem
  BY DEF SyncUnlink, Goto
<1>2. StepHolds("unlink_sync", Phase(c), Intent(c), names, synced, file)
  BY <1>1, PastClaim
<1>3. Phase(c) # LastPhase /\ Reached(names, Phase(c), Intent(c), file)
  BY <1>2, Zenon DEF StepHolds
<1>4. StepHolds("advance", Phase(c), Intent(c), names', synced', file)
  BY <1>1, <1>3 DEF StepHolds
<1>5. "advance" \in Steps
  BY DEF Steps
<1>6. pc[c] \notin {"idle", "claim"} /\ UNCHANGED <<intents, expected, lock>>
  BY <1>1 DEF storeVars
<1>7. Intent(c)' = Intent(c) /\ mem'[c].gens = mem[c].gens
  BY <1>1 DEF CleanupInv, CleanupTypeOK, Memory, Intent
<1>8. QED
  BY <1>1, <1>4, <1>5, <1>6, <1>7, WorkStep

(* A new phase is looked at afresh.                                               *)
LEMMA AdvanceStep ==
    ASSUME CleanupInv, NEW c \in Cleaners, AdvancePhase(c)
    PROVE  CommandInv'
<1> DEFINE i == Intent(c)
           phase == NextPhase(Phase(c))
<1>1. /\ pc[c] = "advance" /\ UNCHANGED <<names, synced, expected, lock>>
      /\ pc' = [pc EXCEPT ![c] = "check"]
      /\ mem' = [mem EXCEPT ![c].fresh = FALSE, ![c].mutated = TRUE]
  BY DEF AdvancePhase, Goto, SpendRenewal
<1>2. /\ intents' = [intents EXCEPT ![i].phase = phase] /\ i \in Intents
      /\ Phase(c) \in Phases /\ lock = c
  BY <1>1, AtWork, AdvanceDirectory
<1>3. StepHolds("advance", Phase(c), i, names, synced, FileIn(Phase(c), i, expected))
  BY <1>1, PastClaim
<1>4. Phase(c) # LastPhase
  BY <1>3, Zenon DEF StepHolds
<1>5. phase # "none"
  BY <1>2, <1>4, NextPhases, PhaseNames
<1>6. mem'[c].intent = i /\ mem'[c].gens = mem[c].gens
  BY <1>1 DEF CleanupInv, CleanupTypeOK, Memory, Intent
<1>7. pc[c] \notin {"idle", "claim"}
  BY <1>1
<1>8. /\ mem[c].gens = intents[i].gens
      /\ \A k \in Intents \ {i} : intents[k].phase \in {"none", FirstPhase}
  BY <1>7, PastClaim
<1> HIDE DEF i, phase
<1>9. PICK gens : gens = mem[c].gens
  OBVIOUS
<1>10. /\ intents'[i].phase = phase /\ intents'[i].gens = gens /\ mem'[c].gens = gens
       /\ \A k \in Intents \ {i} : intents'[k].phase \in {"none", FirstPhase}
  BY <1>2, <1>6, <1>8, <1>9, DirectoryNow DEF IntentRow
<1>11. pc'[c] = "check" /\ lock' = c
  BY <1>1, <1>2 DEF CleanupInv, CleanupTypeOK
<1>12. Intent(c)' = i /\ Phase(c)' = phase
  BY <1>6, <1>10 DEF Intent, Phase
<1>13. CommandHolds(c)'
  BY <1>5, <1>10, <1>11, <1>12 DEF CommandHolds, ClaimHolds, StepHolds
<1>14. Goto(c, "check") /\ pc[c] # "idle"
  BY <1>1 DEF Goto
<1>15. QED
  BY <1>13, <1>14, ActorStep

(* Nobody is at work while the lock is free, and nobody knows anything then.        *)
LEMMA AllRest ==
    ASSUME CleanupInv, lock = NoOwner
    PROVE  \A c \in Cleaners : pc[c] = "idle"
BY StoreAssumption DEF CleanupInv, CommandInv, CommandHolds

LEMMA RestStep ==
    ASSUME \A c \in Cleaners : pc'[c] = "idle"
    PROVE  CommandInv'
BY DEF CommandInv, CommandHolds

LEMMA QuietStep ==
    ASSUME CleanupInv, UNCHANGED <<intents, names, synced, expected, lock, pc, mem>>
    PROVE  CommandInv'
<1>1. ASSUME NEW c \in Cleaners PROVE CommandHolds(c)'
  <2>1. CommandHolds(c)
    BY DEF CleanupInv, CommandInv
  <2>2. Intent(c)' = Intent(c) /\ Phase(c)' = Phase(c)
    BY DEF Intent, Phase
  <2>3. /\ lock' = lock /\ intents' = intents /\ names' = names /\ synced' = synced
        /\ pc' = pc /\ mem' = mem
        /\ FileIn(Phase(c)', Intent(c)', expected') = FileIn(Phase(c), Intent(c), expected)
    BY <2>2
  <2>4. QED
    BY <2>1, <2>2, <2>3 DEF CommandHolds, ClaimHolds
<1>2. QED
  BY <1>1 DEF CommandInv

---------------------------------------------------------------------------
(* Journals stay journals of this recording.                                      *)

LEMMA JournalsStay ==
    ASSUME JournalsHere, PhasesSame, expected' = expected
    PROVE  JournalsHere'
BY DEF JournalsHere, PhasesSame

LEMMA BegunJournals ==
    ASSUME CleanupInv, NEW c \in Cleaners, NEW i \in Intents, Begin(c, i)
    PROVE  JournalsHere'
<1>1. DOMAIN expected' = DOMAIN expected \cup {i}
  BY DEF Begin
<1>2. /\ intents'[i].path = RecordingPath
      /\ \A k \in Intents \ {i} : intents'[k] = intents[k]
  BY DirectoryNow DEF Begin, PrepareIntent
<1>3. QED
  BY <1>1, <1>2, DirectoryNow DEF JournalsHere

LEMMA MovedJournals ==
    ASSUME CleanupInv, NEW c \in Cleaners, pc[c] # "idle", expected' = expected,
           NEW phase, \/ intents' = [intents EXCEPT ![Intent(c)].phase = phase]
                      \/ intents' = [intents EXCEPT ![Intent(c)] = NoIntent]
    PROVE  JournalsHere'
<1> DEFINE i == Intent(c)
<1>1. i \in Intents /\ i \in DOMAIN expected /\ intents[i].phase # "none"
  BY AtWork, PhaseNames DEF Phase
<1>2. intents[i].path = RecordingPath
  BY <1>1, DirectoryNow DEF JournalsHere
<1>3. /\ \A k \in Intents \ {i} : intents'[k] = intents[k]
      /\ intents'[i].phase = "none" \/ intents'[i].path = RecordingPath
  BY <1>1, <1>2, DirectoryNow DEF IntentRow, NoIntent
<1>4. QED
  BY <1>1, <1>3, DirectoryNow DEF JournalsHere

---------------------------------------------------------------------------
(* Every step of a command.                                                       *)

(* What remains of the invariant once the ledger and the types are known to be kept. *)
RestKept == JournalsHere' /\ CommandInv' /\ DirectoryInv'

LEMMA StoppedCommand ==
    ASSUME CleanupInv, NEW c \in Cleaners, Abandon(c) \/ Crash(c) \/ Complete(c)
    PROVE  RestKept
<1>1. pc[c] # "idle" /\ Goto(c, "idle") /\ UNCHANGED <<names, synced, expected>>
  BY Zenon DEF Abandon, Crash, Complete
<1>2. CommandInv'
  BY <1>1, EndStep
<1>3. \/ UNCHANGED storeVars \/ Abort(Intent(c)) \/ AbortClaimed(Intent(c), TheClaim(c))
      \/ CompleteGroup(Intent(c), TheClaim(c))
  BY AbandonedStore, Zenon DEF Crash, Complete
<1>4. CASE UNCHANGED storeVars
  <2>1. PhasesSame /\ RowsCalm
    BY <1>4, StatesSame DEF storeVars, PhasesSame
  <2>2. QED
    BY <1>1, <1>2, <2>1, JournalsStay, QuietDirectory, DirectoryNow DEF RestKept
<1>5. CASE ~ UNCHANGED storeVars
  <2>1. DirectoryInv' /\ intents' = [intents EXCEPT ![Intent(c)] = NoIntent]
    BY <1>1, <1>3, <1>5, DropDirectory
  <2>2. JournalsHere'
    BY <1>1, <2>1, MovedJournals
  <2>3. QED
    BY <1>2, <2>1, <2>2 DEF RestKept
<1>6. QED
  BY <1>4, <1>5

LEMMA CommandStep ==
    ASSUME CleanupInv, NEW c \in Cleaners, Command(c)
    PROVE  RestKept
<1>1. ASSUME NEW i \in Intents, Begin(c, i) PROVE RestKept
  BY <1>1, BegunJournals, StartStep, BeginDirectory DEF RestKept
<1>2. ASSUME NEW i \in Intents, Resume(c, i) PROVE RestKept
  <2>1. UNCHANGED <<storeVars, names, synced, expected>>
    BY <1>2 DEF Resume
  <2>2. PhasesSame /\ RowsCalm
    BY <2>1, StatesSame DEF storeVars, PhasesSame
  <2>3. QED
    BY <1>2, <2>1, <2>2, StartStep, JournalsStay, QuietDirectory, DirectoryNow DEF RestKept
<1>3. ASSUME TakeClaim(c) \/ Check(c) \/ Renewal(c) PROVE RestKept
  <2>1. /\ UNCHANGED <<names, synced, expected>>
        /\ ClaimGroup(Intent(c), c) \/ RenewGroup(Intent(c), TheClaim(c))
    BY <1>3 DEF TakeClaim, Check, Renewal
  <2>2. PhasesSame /\ RowsCalm
    BY <2>1, LeasesCalm, DirectoryNow, CommandMemory DEF CleanupInv
  <2>3. CommandInv'
    BY <1>3, TakeClaimStep, CheckStep, RenewalStep
  <2>4. QED
    BY <2>1, <2>2, <2>3, JournalsStay, QuietDirectory, DirectoryNow DEF RestKept
<1>4. ASSUME Link(c) \/ Unlink(c) \/ SyncLink(c) \/ SyncUnlink(c) PROVE RestKept
  <2>1. UNCHANGED <<storeVars, expected>>
    BY <1>4 DEF Link, Unlink, SyncLink, SyncUnlink
  <2>2. PhasesSame
    BY <2>1 DEF storeVars, PhasesSame
  <2>3. CommandInv'
    BY <1>4, LinkStep, UnlinkStep, SyncLinkStep, SyncUnlinkStep
  <2>4. CASE SyncLink(c) \/ SyncUnlink(c)
    <3>1. UNCHANGED <<storeVars, names, expected>> /\ synced' = names
      BY <2>4 DEF SyncLink, SyncUnlink
    <3>2. QED
      BY <2>1, <2>2, <2>3, <3>1, JournalsStay, SyncDirectory, DirectoryNow DEF RestKept
  <2>5. CASE Link(c) \/ Unlink(c)
    BY <2>1, <2>2, <2>3, <2>5, JournalsStay, LinkDirectory, UnlinkDirectory, DirectoryNow
       DEF RestKept
  <2>6. QED
    BY <1>4, <2>4, <2>5
<1>5. ASSUME AdvancePhase(c) PROVE RestKept
  <2>1. DirectoryInv' /\ intents' = [intents EXCEPT ![Intent(c)].phase = NextPhase(Phase(c))]
    BY <1>5, AdvanceDirectory
  <2>2. pc[c] # "idle" /\ expected' = expected
    BY <1>5 DEF AdvancePhase
  <2>3. JournalsHere'
    BY <2>1, <2>2, MovedJournals
  <2>4. QED
    BY <1>5, <2>1, <2>3, AdvanceStep DEF RestKept
<1>6. ASSUME Complete(c) \/ Refused(c) \/ CallFails(c) \/ Crash(c) PROVE RestKept
  <2>1. Abandon(c) \/ Crash(c) \/ Complete(c)
    BY <1>6, Zenon DEF Refused, CallFails
  <2>2. QED
    BY <2>1, StoppedCommand
<1>7. QED
  BY <1>1, <1>2, <1>3, <1>4, <1>5, <1>6 DEF Command, Progress

LEMMA OtherStep ==
    ASSUME CleanupInv,
           \/ PowerLoss \/ Passage \/ \E renames \in BOOLEAN : Correct(renames)
           \/ \E j \in Jobs : EnqueueCopy(j) \/ OperatorMoves(j)
           \/ UNCHANGED vars
    PROVE  RestKept
<1>1. CASE PowerLoss
  <2>1. UNCHANGED <<storeVars, expected>> /\ pc' = [c \in Cleaners |-> "idle"]
    BY <1>1 DEF PowerLoss
  <2>2. PhasesSame /\ \A c \in Cleaners : pc'[c] = "idle"
    BY <2>1 DEF storeVars, PhasesSame
  <2>3. QED
    BY <1>1, <2>1, <2>2, JournalsStay, RestStep, LossDirectory, DirectoryNow DEF RestKept
<1>2. ASSUME NEW renames \in BOOLEAN, Correct(renames) PROVE RestKept
  <2>1. lock = NoOwner /\ UNCHANGED <<expected, pc>> /\ intents' = intents
    BY <1>2, CorrectionsCalm, DirectoryNow DEF Correct
  <2>2. PhasesSame /\ \A c \in Cleaners : pc'[c] = "idle"
    BY <2>1, AllRest DEF PhasesSame
  <2>3. QED
    BY <1>2, <2>1, <2>2, JournalsStay, RestStep, CorrectDirectory, DirectoryNow DEF RestKept
<1>3. ASSUME UNCHANGED intents, UNCHANGED <<names, synced, expected, lock, pc, mem>>, RowsCalm
      PROVE  RestKept
  <2>1. PhasesSame
    BY <1>3 DEF PhasesSame
  <2>2. QED
    BY <1>3, <2>1, QuietStep, JournalsStay, QuietDirectory, DirectoryNow DEF RestKept
<1>4. ASSUME NEW j \in Jobs, EnqueueCopy(j) \/ OperatorMoves(j) PROVE RestKept
  BY <1>3, <1>4, OperatorsCalmly, DirectoryNow DEF removalVars
<1>5. CASE Passage \/ UNCHANGED vars
  <2>1. UNCHANGED <<jobs, intents>> /\ UNCHANGED removalVars
    BY <1>5 DEF Passage, Tick, vars, storeVars
  <2>2. QED
    BY <1>3, <2>1, StatesSame DEF removalVars
<1>6. QED
  BY <1>1, <1>2, <1>4, <1>5

LEMMA CleanupKeeps == CleanupInv /\ [Next]_vars => CleanupInv'
<1> SUFFICES ASSUME CleanupInv, [Next]_vars PROVE CleanupInv'
  OBVIOUS
<1>1. LedgerInv'
  <2>1. [StoreNext]_storeVars
    BY CleanupUsesStore DEF CleanupInv, LedgerInv, StoreInv
  <2>2. QED
    BY <2>1, LedgerSteps DEF CleanupInv
<1>2. \/ \E c \in Cleaners : Command(c)
      \/ PowerLoss \/ Passage \/ \E renames \in BOOLEAN : Correct(renames)
      \/ \E j \in Jobs : EnqueueCopy(j) \/ OperatorMoves(j)
      \/ UNCHANGED vars
  BY DEF Next, CommandNext
<1>3. CleanupTypeOK' /\ RestKept
  BY <1>1, <1>2, CommandTypes, OtherTypes, CommandStep, OtherStep
<1>4. QED
  BY <1>1, <1>3 DEF CleanupInv, RestKept

(* Rows a publication left satisfy the ledger's invariant with no journal.         *)
LEMMA SettledLedger ==
    ASSUME Settled(jobs), intents = [i \in Intents |-> NoIntent], clock = 1
    PROVE  LedgerInv
<1>1. jobs \in [Jobs -> Row] /\ NoIntent \in IntentRow
  BY JournalTypes DEF Settled
<1>2. ASSUME NEW j \in Jobs
      PROVE  /\ jobs[j].cOwner = NoOwner /\ jobs[j].owner = NoOwner
             /\ Exists(j) => RowOK(jobs[j])
             /\ ~ Exists(j) => jobs[j].remote = NoRemote
             /\ TimeHolds(jobs[j])
  <2>1. CASE jobs[j] = NoRow
    <3>1. /\ NoRow.state = "absent" /\ NoRow.cOwner = NoOwner /\ NoRow.owner = NoOwner
          /\ NoRow.remote = NoRemote /\ NoRow.created = 0 /\ NoRow.updated = 0
          /\ NoRow.started = 0 /\ NoRow.accepted = 0 /\ NoRow.published = 0
          /\ NoRow.intent = "none"
      BY DEF NoRow
    <3>2. ~ Exists(j)
      BY <2>1, <3>1 DEF Exists, LiveStates
    <3>3. QED
      BY <1>1, <2>1, <3>1, <3>2, StoreAssumption DEF TimeHolds
  <2>2. CASE jobs[j] # NoRow
    <3>1. /\ RowOK(jobs[j]) /\ jobs[j].state = "published"
          /\ jobs[j].owner = NoOwner /\ jobs[j].cOwner = NoOwner
          /\ jobs[j].created <= 1 /\ jobs[j].updated <= 1 /\ jobs[j].started <= 1
          /\ jobs[j].accepted <= 1 /\ jobs[j].published <= 1
      BY <2>2 DEF Settled
    <3>2. PhaseCoherent(jobs[j])
      BY <3>1 DEF RowOK
    <3>3. jobs[j].remote # NoRemote /\ jobs[j].intent = "none"
      BY <3>1, <3>2, Zenon DEF PhaseCoherent
    <3>4. Exists(j)
      BY <3>1 DEF Exists, LiveStates
    <3>5. QED
      BY <3>1, <3>3, <3>4 DEF TimeHolds
  <2>3. QED
    BY <2>1, <2>2
<1>3. StoreInv
  BY <1>1, <1>2 DEF StoreInv, TypeOK, RowsValid, UnusedRowsBlank
<1>4. NoIntent.phase = "none" /\ NoIntent.members = {}
  BY DEF NoIntent
<1>5. JournalInv
  BY <1>2, <1>4 DEF JournalInv, JournalHolds, LeaseHolds, MemberOf
<1>6. TimesInv
  BY <1>2 DEF TimesInv
<1>7. QED
  BY <1>3, <1>5, <1>6 DEF LedgerInv

LEMMA CleanupStarts ==
    ASSUME NEW published, \A rows \in published : Settled(rows), CleanupInit(published)
    PROVE  CleanupInv
<1>1. Settled(jobs) /\ intents = [i \in Intents |-> NoIntent] /\ clock = 1
  BY DEF CleanupInit
<1>2. LedgerInv
  BY <1>1, SettledLedger
<1>3. PICK sidecar \in Sidecars \cup {NoFile} :
         names = [n \in Names |-> IF n = Here("media") THEN Media
                                  ELSE IF n = Here("sidecar") THEN sidecar ELSE NoFile]
  BY DEF CleanupInit
<1>4. /\ synced = names /\ expected = [i \in {} |-> NoFile] /\ lock = NoOwner
      /\ pc = [c \in Cleaners |-> "idle"] /\ "idle" \in Steps
  BY DEF CleanupInit, Steps
<1>5. mem \in [Cleaners -> Memory]
  <2>1. PICK i \in Intents : i = CHOOSE k \in Intents : TRUE
    BY CleanupAssumption
  <2>2. NoGens \in [Jobs -> Nat]
    BY DEF NoGens
  <2>3. mem = [c \in Cleaners |-> [intent |-> i, gens |-> NoGens,
                                   fresh |-> FALSE, mutated |-> FALSE]]
    BY <2>1 DEF CleanupInit
  <2>4. QED
    BY <2>2, <2>3 DEF Memory
<1>6. names \in [Names -> Files]
  BY <1>3 DEF Files
<1>7. CleanupTypeOK
  BY <1>4, <1>5, <1>6 DEF CleanupTypeOK
<1>8. \A i \in Intents : intents[i].phase = "none"
  BY <1>1 DEF NoIntent
<1>9. JournalsHere /\ CommandInv
  BY <1>4, <1>8 DEF JournalsHere, CommandInv, CommandHolds
<1>10. Sound(names, intents, expected, Removed)
  <2>1. ~ Removed
    <3>1. ASSUME NEW j \in Jobs PROVE jobs[j].state # "local_removed"
      BY <1>1 DEF Settled, NoRow
    <3>2. QED
      BY <3>1 DEF Removed
  <2>2. Sorted(names)
    <3>1. /\ Here("media")[1] = "media" /\ Here("sidecar")[1] = "sidecar"
          /\ Here("sidecar") # Here("media")
      BY DEF Here
    <3>2. QED
      BY <1>3, <3>1, CleanupAssumption DEF Sorted
  <2>3. ASSUME NEW i \in Intents PROVE MediaPlaced(names, intents[i].phase, i)
    <3>1. /\ Quarantine("media", i) \in Names /\ Quarantine("media", i) # Here("media")
          /\ Quarantine("media", i) # Here("sidecar")
      BY PlaceNames DEF Kinds, Here, Quarantine
    <3>2. names[Quarantine("media", i)] = NoFile
      BY <1>3, <3>1
    <3>3. QED
      BY <1>8, <3>2 DEF MediaPlaced
  <2>4. QED
    BY <1>4, <2>1, <2>2, <2>3 DEF Sound
<1>11. MediaKept
  <2>1. Here("media") \in Names /\ names[Here("media")] = Media
    BY <1>3, CleanupAssumption DEF Here, Names, Kinds
  <2>2. QED
    BY <1>4, <2>1 DEF MediaKept
<1>12. DirectoryInv
  BY <1>4, <1>10, <1>11 DEF DirectoryInv
<1>13. QED
  BY <1>2, <1>7, <1>9, <1>12 DEF CleanupInv

---------------------------------------------------------------------------
(* The theorems.  The rows a cleanup starts from are any that publications may      *)
(* have left: for one origin or for several, of any number of recordings.          *)

(* Whatever commands, crashes, power losses, corrections and operators do, in any    *)
(* number: at most one command is past the directory lock, it knows which names its  *)
(* file has and where it must not be any more, only its journal is past the first    *)
(* phase, and the directory, durable or not, agrees with every journal.             *)
THEOREM CleanupInvariant ==
    ASSUME NEW published, \A rows \in published : Settled(rows)
    PROVE  CleanupSpec(published) => []CleanupInv
<1>1. CleanupInit(published) => CleanupInv
  BY CleanupStarts
<1>2. QED
  BY <1>1, CleanupKeeps, PTL DEF CleanupSpec

(* Until the removal of the recording is decided in the journal, the recording has a  *)
(* name that a loss of power at that instant would leave it.                        *)
THEOREM RecordingOutlivesDoubt ==
    ASSUME NEW published, \A rows \in published : Settled(rows)
    PROVE  CleanupSpec(published) => []MediaKept
<1>1. CleanupInv => MediaKept
  BY DEF CleanupInv, DirectoryInv
<1>2. QED
  BY <1>1, CleanupInvariant, PTL

(* A journal's phase is true of the directory as it is and as the disk has it: what  *)
(* _resume_locked_impl takes for moved or removed is so after any crash.             *)
THEOREM JournalsAreTrue ==
    ASSUME NEW published, \A rows \in published : Settled(rows)
    PROVE  CleanupSpec(published) => []JournalMatchesDirectory
<1>1. ASSUME CleanupInv, NEW i \in DOMAIN expected, NEW dir \in {names, synced}
      PROVE  LET phase == intents[i].phase
                 gone(file) == \A n \in Names : dir[n] # file
             IN
             /\ phase \notin {"none", "prepared"} /\ expected[i] # NoFile =>
                   dir[Here("sidecar")] # expected[i]
             /\ phase \in {"media_quarantined"} \cup RemovalDecided => dir[Here("media")] # Media
             /\ phase \in RemovalDecided /\ expected[i] # NoFile => gone(expected[i])
             /\ phase = "media_unlinked" => gone(Media)
             /\ dir[Quarantine("media", i)] # NoFile => phase \notin {"none", "prepared"}
             /\ (\E j \in Jobs : jobs[j].state = "local_removed") => gone(Media)
  <2> DEFINE phase == intents[i].phase
  <2>1. i \in Intents /\ phase \in Phases \cup {"none"}
    BY <1>1, DirectoryNow DEF IntentRow
  <2>2. Sound(dir, intents, expected, Removed)
    BY <1>1, DirectoryNow
  <2>3. /\ MediaPlaced(dir, phase, i) /\ SidecarPlaced(dir, phase, i, expected[i])
        /\ Removed => Gone(dir, Media)
    BY <2>1, <2>2 DEF Sound
  <2>4. /\ Here("media") \in Names /\ Here("media") # Quarantine("media", i)
        /\ Here("sidecar") \in Names /\ Here("sidecar") # Quarantine("sidecar", i)
    BY <2>1, PlaceNames DEF Kinds
  <2> HIDE DEF phase
  <2>5. phase \notin {"none", "prepared"} /\ expected[i] # NoFile =>
          dir[Here("sidecar")] # expected[i]
    BY <2>1, <2>3, <2>4, PhaseNames DEF SidecarPlaced, OnlyAt, Gone, RemovalDecided
  <2>6. phase \in {"media_quarantined"} \cup RemovalDecided => dir[Here("media")] # Media
    BY <2>3, <2>4 DEF MediaPlaced, OnlyAt, Gone, RemovalDecided
  <2>7. /\ phase \in RemovalDecided /\ expected[i] # NoFile => Gone(dir, expected[i])
        /\ phase = "media_unlinked" => Gone(dir, Media)
        /\ dir[Quarantine("media", i)] # NoFile => phase \notin {"none", "prepared"}
    BY <2>3 DEF MediaPlaced, SidecarPlaced
  <2>8. QED
    BY <2>3, <2>5, <2>6, <2>7 DEF Gone, Removed, phase
<1>2. CleanupInv => JournalMatchesDirectory
  BY <1>1 DEF JournalMatchesDirectory
<1>3. QED
  BY <1>2, CleanupInvariant, PTL

(* The journals of real commands pin their rows as those of the store alone do.      *)
THEOREM CommandsPinTheirRows ==
    ASSUME NEW published, \A rows \in published : Settled(rows)
    PROVE  CleanupSpec(published) => []JournalPinsMembers
<1>1. CleanupInv => JournalPinsMembers
  BY LedgerPins DEF CleanupInv
<1>2. QED
  BY <1>1, CleanupInvariant, PTL

(* A link or an unlink is always of the command whose claim is its journal's latest:  *)
(* the directory lock, and not the lease, is what keeps an overtaken command out.    *)
THEOREM OvertakenCommandsStop ==
    ASSUME NEW published, \A rows \in published : Settled(rows)
    PROVE  CleanupSpec(published) => StaleCommandNeverMutates
<1>1. ASSUME CleanupInv, NEW c \in Cleaners, pc[c] \in {"link", "unlink"}
      PROVE  Phase(c) # "none" /\ intents[Intent(c)].gens = mem[c].gens
  <2>1. Phase(c) \in Phases
    BY <1>1, AtWork
  <2>2. QED
    BY <1>1, <2>1, PhaseNames, PastClaim
<1>2. CleanupInv /\ [Next]_vars =>
        [\A c \in Cleaners :
            pc[c] \in {"link", "unlink"} /\ pc'[c] # "idle" /\ names' # names =>
                /\ Phase(c) # "none"
                /\ pc'[c] # pc[c] => intents[Intent(c)].gens = mem[c].gens]_vars
  BY <1>1
<1>3. QED
  BY <1>2, CleanupInvariant, PTL DEF CleanupSpec, StaleCommandNeverMutates

(* The commands, with everything that happens around them, are users of the store:   *)
(* each of their steps is one of its operations or leaves it alone.  So what the     *)
(* store promises of its journals and leases it keeps towards them.                 *)
THEOREM CommandsUseTheStore ==
    ASSUME NEW published, \A rows \in published : Settled(rows)
    PROVE  CleanupSpec(published) =>
              [][StoreNext]_storeVars /\ JournalNeverRewound /\ ExpiredLeaseFences
<1>1. CleanupInv /\ [Next]_vars => [StoreNext]_storeVars
  BY CleanupUsesStore DEF CleanupInv, LedgerInv, StoreInv
<1>2. CleanupInv /\ [Next]_vars =>
        [\A i \in Intents : intents[i].phase \notin {"none", FirstPhase} =>
            \/ intents'[i].phase = intents[i].phase
            \/ intents[i].phase # LastPhase /\ intents'[i].phase = NextPhase(intents[i].phase)
            \/ /\ intents[i].phase = LastPhase /\ intents'[i] = NoIntent
               /\ \A j \in intents[i].members : jobs'[j].state = "local_removed"]_storeVars
  BY <1>1, LedgerSteps DEF CleanupInv, JournalMoves
<1>3. CleanupInv /\ [Next]_vars =>
        [\A j \in Jobs : jobs'[j] # jobs[j] =>
            /\ jobs[j].owner # NoOwner /\ jobs[j].expires <= clock =>
                  TakenOver(jobs[j], jobs'[j])
            /\ jobs[j].cOwner # NoOwner /\ jobs[j].cExpires <= clock =>
                  jobs'[j].cGen > jobs[j].cGen]_storeVars
  BY <1>1, LedgerSteps DEF CleanupInv, Fences
<1>4. QED
  BY <1>1, <1>2, <1>3, CleanupInvariant, PTL
     DEF CleanupSpec, JournalNeverRewound, ExpiredLeaseFences

============================================================================
