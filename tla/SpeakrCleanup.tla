--------------------------- MODULE SpeakrCleanup ---------------------------
(* The explicit removal of a published recording: speakr_cleanup.py, over the      *)
(* journal of PublicationStore.  One private path is modelled with the names of    *)
(* its directory; each cleanup command (one Cleaner) takes the directory lock,     *)
(* then alternates store transactions with link, unlink and fsync.  A process may  *)
(* die between any two of them and the machine may lose power, after which a name  *)
(* changed since the last fsync may be found either way.                           *)
EXTENDS PublicationStore

CONSTANTS
    RecordingPath,  \* the private path the commands clean up
    NewPath,        \* where a calendar correction may move the recording
    Media,          \* the inode of the recording
    Sidecars,       \* inodes of the sidecars written over time
    NoFile,         \* an absent name
    Original, Renamed,  \* the places of a name that belongs to no journal
    MaxFaults       \* bound: crashes, power losses and failing calls together

ASSUME CleanupAssumption ==
    /\ RecordingPath \in Paths /\ NewPath \in Paths /\ RecordingPath # NewPath
    /\ Media \notin Sidecars /\ NoFile \notin Sidecars \cup {Media}
    /\ Original \notin Intents /\ Renamed \notin Intents /\ Original # Renamed
    /\ MaxFaults \in Nat
    /\ IsFiniteSet(Intents) /\ Intents # {}   \* journal IDs are uuid4 values

VARIABLES
    names,      \* the directory as running processes see it
    synced,     \* the directory as of its last fsync
    expected,   \* by journal ever prepared: the sidecar inode it recorded
    lock,       \* who holds recording_directory_lock
    pc, mem,    \* where each command stands, and the claim it holds
    faults      \* faults so far

removalVars == <<names, synced, expected, lock, pc, mem, faults>>
vars == <<storeVars, removalVars>>

Kinds == {"media", "sidecar"}
Names == Kinds \X (Intents \cup {Original, Renamed})
Files == Sidecars \cup {Media, NoFile}
Steps == {"idle", "claim", "check", "link", "link_sync", "unlink", "unlink_sync",
          "advance", "complete"}
Memory == [intent : Intents, gens : [Jobs -> Nat], fresh : BOOLEAN, mutated : BOOLEAN]

Here(kind) == <<kind, Original>>
Quarantine(kind, i) == <<kind, i>>
LinkCount(file) == Cardinality({n \in Names : names[n] = file})
FileOf(kind, i) == IF kind = "media" THEN Media ELSE expected[i]

Intent(c) == mem[c].intent
Phase(c) == intents[Intent(c)].phase
TheClaim(c) == [owner |-> c, gens |-> mem[c].gens]
(* Which file the current phase moves into quarantine, or removes from it.        *)
Kind(c) == IF Phase(c) \in {"prepared", "media_quarantined"} THEN "sidecar" ELSE "media"
Moving(c) == Phase(c) \in {"prepared", "sidecar_quarantined"}
Source(c) == Here(Kind(c))
Target(c) == Quarantine(Kind(c), Intent(c))
(* A journal of a recording without a sidecar skips the two sidecar steps.        *)
NothingToDo(c) == FileOf(Kind(c), Intent(c)) = NoFile

Goto(c, step) == pc' = [pc EXCEPT ![c] = step]
(* The renewal before a namespace operation is spent by that operation.           *)
SpendRenewal(c) == mem' = [mem EXCEPT ![c].fresh = FALSE, ![c].mutated = TRUE]

---------------------------------------------------------------------------
(* Taking the lock: _delete_group inspects and journals a new group, and           *)
(* _resume_intent takes up whatever journal an earlier command left.              *)

(* _inspect: the recording and its sidecar are single regular files.              *)
Inspected ==
    /\ names[Here("media")] = Media /\ LinkCount(Media) = 1
    /\ names[Here("sidecar")] # NoFile => LinkCount(names[Here("sidecar")]) = 1

Begin(c, i) ==
    /\ pc[c] = "idle" /\ lock = NoOwner
    /\ i \notin DOMAIN expected /\ Inspected
    /\ PrepareIntent(i, RecordingPath)
    /\ expected' = [k \in DOMAIN expected \cup {i} |->
                      IF k = i THEN names[Here("sidecar")] ELSE expected[k]]
    /\ lock' = c
    /\ mem' = [mem EXCEPT ![c].intent = i]
    /\ Goto(c, "claim")
    /\ UNCHANGED <<names, synced, faults>>

(* Mutant: a resuming command does not wait for the directory lock.               *)
ResumeUnlocked(c, i) ==
    /\ pc[c] = "idle"
    /\ intents[i].phase # "none"
    /\ lock' = c
    /\ mem' = [mem EXCEPT ![c].intent = i]
    /\ Goto(c, "claim")
    /\ UNCHANGED <<storeVars, names, synced, expected, faults>>

Resume(c, i) ==
    /\ pc[c] = "idle" /\ lock = NoOwner
    /\ intents[i].phase # "none"
    /\ lock' = c
    /\ mem' = [mem EXCEPT ![c].intent = i]
    /\ Goto(c, "claim")
    /\ UNCHANGED <<storeVars, names, synced, expected, faults>>

TakeClaim(c) ==
    /\ pc[c] = "claim"
    /\ ClaimGroup(Intent(c), c)
    /\ mem' = [mem EXCEPT ![c].gens = intents'[Intent(c)].gens,
                          ![c].fresh = FALSE, ![c].mutated = FALSE]
    /\ Goto(c, "check")
    /\ UNCHANGED <<names, synced, expected, lock, faults>>

---------------------------------------------------------------------------
(* _resume_locked_impl: each phase renews, checks the names, acts and advances.    *)

(* _valid_pair: the file has one or both of its names and no other.               *)
PairHolds(kind, i) ==
    LET at == {n \in {Here(kind), Quarantine(kind, i)} : names[n] # NoFile} IN
    /\ at # {}
    /\ \A n \in at : names[n] = FileOf(kind, i)
    /\ LinkCount(FileOf(kind, i)) = Cardinality(at)

Absent(kind, i) == names[Here(kind)] = NoFile /\ names[Quarantine(kind, i)] = NoFile
Moved(kind, i) == names[Here(kind)] = NoFile /\ PairHolds(kind, i)

(* _revalidate_originals, _verify_prepared_recovery, _verify_phase_state and the   *)
(* final check that every name is gone.                                           *)
NamesHold(i) ==
    LET phase == intents[i].phase
        sidecar == expected[i] # NoFile
        untouched == \A kind \in Kinds : names[Quarantine(kind, i)] = NoFile
    IN
    CASE phase = "prepared" ->
            /\ PairHolds("media", i)
            /\ IF sidecar THEN PairHolds("sidecar", i) ELSE Absent("sidecar", i)
            /\ untouched => Inspected
      [] phase = "sidecar_quarantined" ->
            /\ PairHolds("media", i)
            /\ IF sidecar THEN Moved("sidecar", i) ELSE Absent("sidecar", i)
      [] phase = "media_quarantined" ->
            /\ Moved("media", i)
            /\ \/ Absent("sidecar", i)
               \/ sidecar /\ Moved("sidecar", i)
      [] phase = "sidecar_unlinked" ->
            /\ \/ Absent("media", i)
               \/ names[Quarantine("media", i)] # NoFile /\ PairHolds("media", i)
            /\ Absent("sidecar", i)
      [] phase = "media_unlinked" -> Absent("media", i) /\ Absent("sidecar", i)

Check(c) ==
    /\ pc[c] = "check"
    /\ RenewGroup(Intent(c), TheClaim(c))
    /\ NamesHold(Intent(c))
    /\ Goto(c, IF Phase(c) = LastPhase THEN "complete"
               ELSE IF NothingToDo(c) THEN "advance"
               ELSE IF Moving(c) THEN "link" ELSE "unlink")
    /\ mem' = [mem EXCEPT ![c].mutated =
                 \/ Phase(c) # FirstPhase
                 \/ \E kind \in Kinds : names[Quarantine(kind, Intent(c))] # NoFile]
    /\ UNCHANGED <<names, synced, expected, lock, faults>>

Renewal(c) ==
    /\ pc[c] \in {"link", "unlink", "advance"} /\ ~ mem[c].fresh
    /\ RenewGroup(Intent(c), TheClaim(c))
    /\ mem' = [mem EXCEPT ![c].fresh = TRUE]
    /\ UNCHANGED <<names, synced, expected, lock, pc, faults>>

(* Mutant: a quarantine name an earlier command made is taken for a collision.    *)
LinkOnce(c) ==
    /\ pc[c] = "link" /\ mem[c].fresh
    /\ names[Target(c)] = NoFile
    /\ names' = [names EXCEPT ![Target(c)] = FileOf(Kind(c), Intent(c))]
    /\ Goto(c, "link_sync")
    /\ SpendRenewal(c)
    /\ UNCHANGED <<storeVars, synced, expected, lock, faults>>

(* _quarantine, from whichever side of its own steps an earlier crash left it: a   *)
(* new link, or the two names or the one quarantine name it finds.                *)
Link(c) ==
    /\ pc[c] = "link" /\ mem[c].fresh
    /\ names' = [names EXCEPT ![Target(c)] = FileOf(Kind(c), Intent(c))]
    /\ Goto(c, IF names[Source(c)] = NoFile THEN "unlink_sync" ELSE "link_sync")
    /\ SpendRenewal(c)
    /\ UNCHANGED <<storeVars, synced, expected, lock, faults>>

(* Mutant: the original is unlinked before the new name is durable.               *)
SyncLinkSkipped(c) ==
    /\ pc[c] = "link_sync"
    /\ Goto(c, "unlink")
    /\ UNCHANGED <<storeVars, names, synced, expected, lock, mem, faults>>

SyncLink(c) ==
    /\ pc[c] = "link_sync"
    /\ synced' = names
    /\ Goto(c, "unlink")
    /\ UNCHANGED <<storeVars, names, expected, lock, mem, faults>>

(* unlink_verified_file_dirfd: the original while both names exist, or, in the     *)
(* later phases, the quarantined name once the original is gone.                  *)
Unlink(c) ==
    LET file == FileOf(Kind(c), Intent(c))
        victim == IF Moving(c) THEN Source(c) ELSE Target(c)
    IN
    /\ pc[c] = "unlink" /\ mem[c].fresh
    /\ IF Moving(c) THEN names[victim] = file /\ LinkCount(file) = 2
       ELSE /\ names[Source(c)] = NoFile
            /\ \/ names[victim] = NoFile
               \/ names[victim] = file /\ LinkCount(file) = 1
    /\ names' = [names EXCEPT ![victim] = NoFile]
    /\ Goto(c, "unlink_sync")
    /\ SpendRenewal(c)
    /\ UNCHANGED <<storeVars, synced, expected, lock, faults>>

(* Mutant: the phase is recorded before the unlink is durable.                    *)
SyncUnlinkSkipped(c) ==
    /\ pc[c] = "unlink_sync"
    /\ Goto(c, "advance")
    /\ UNCHANGED <<storeVars, names, synced, expected, lock, mem, faults>>

SyncUnlink(c) ==
    /\ pc[c] = "unlink_sync"
    /\ synced' = names
    /\ Goto(c, "advance")
    /\ UNCHANGED <<storeVars, names, expected, lock, mem, faults>>

AdvancePhase(c) ==
    /\ pc[c] = "advance" /\ mem[c].fresh
    /\ Advance(Intent(c), TheClaim(c), Phase(c))
    /\ Goto(c, "check")
    /\ SpendRenewal(c)
    /\ UNCHANGED <<names, synced, expected, lock, faults>>

Complete(c) ==
    /\ pc[c] = "complete"
    /\ CompleteGroup(Intent(c), TheClaim(c))
    /\ lock' = NoOwner
    /\ Goto(c, "idle")
    /\ UNCHANGED <<names, synced, expected, mem, faults>>

---------------------------------------------------------------------------
(* Failures.                                                                      *)

(* A failure not marked as one after a mutation aborts a prepared journal, when    *)
(* the store lets it; any other failure leaves the journal to a later command.    *)
Abandon(c) ==
    LET i == Intent(c)
        abort == IF pc[c] = "claim" THEN Abort(i) ELSE AbortClaimed(i, TheClaim(c))
        unmarked == pc[c] \in {"claim", "check"} \/ ~ mem[c].mutated
        refused == IF pc[c] = "claim"
                   THEN \/ intents[i].members # Group(intents[i].path)
                        \/ \E j \in intents[i].members :
                              intents[i].gens[j] # 0 \/ jobs[j].cOwner # NoOwner
                   ELSE ~ ClaimCurrent(i, TheClaim(c))
    IN
    /\ pc[c] # "idle"
    /\ IF unmarked /\ Phase(c) = FirstPhase /\ ~ refused THEN abort ELSE UNCHANGED storeVars
    /\ lock' = NoOwner
    /\ Goto(c, "idle")
    /\ UNCHANGED <<names, synced, expected, mem>>

(* What the command meets without any fault: a claim or a renewal the store        *)
(* refuses, or names that are not as the journal recorded them.                   *)
Refused(c) ==
    LET i == Intent(c) IN
    /\ CASE pc[c] = "claim" ->
              \/ ~ MembersUnchanged(i)
              \/ \E j \in intents[i].members :
                    jobs[j].cOwner # NoOwner /\ jobs[j].cExpires > clock
         [] pc[c] = "check" -> ~ (ClaimCurrent(i, TheClaim(c)) /\ NamesHold(i))
         [] pc[c] = "unlink" /\ mem[c].fresh /\ ~ Moving(c) -> names[Source(c)] # NoFile
         [] \/ pc[c] \in {"link", "advance", "complete"}
            \/ pc[c] = "unlink" /\ (~ mem[c].fresh \/ Moving(c)) ->
              ~ ClaimCurrent(i, TheClaim(c))
         [] OTHER -> FALSE
    /\ Abandon(c)
    /\ UNCHANGED faults

(* Bound: no fault so late that the lease it leaves could not expire by MaxClock.  *)
Fault ==
    /\ faults < MaxFaults /\ faults' = faults + 1
    /\ clock + CleanupLeaseMs <= MaxClock

(* A store call that finds the database busy, or a directory that cannot be read   *)
(* or synced, at any step.                                                        *)
CallFails(c) == Abandon(c) /\ Fault

Crash(c) ==
    /\ pc[c] # "idle" /\ Fault
    /\ lock' = NoOwner
    /\ Goto(c, "idle")
    /\ UNCHANGED <<storeVars, names, synced, expected, mem>>

PowerLoss ==
    /\ Fault
    /\ \E lost \in SUBSET {n \in Names : names[n] # synced[n]} :
          names' = [n \in Names |-> IF n \in lost THEN synced[n] ELSE names[n]]
    /\ synced' = names'
    /\ lock' = NoOwner
    /\ pc' = [c \in Cleaners |-> "idle"]
    /\ UNCHANGED <<storeVars, expected, mem>>

---------------------------------------------------------------------------
(* The rest of the application at the same path.                                  *)

(* A calendar correction rewrites the sidecar, in place or along with the media's  *)
(* new name, under the directory lock; each change is synced.  The publication row *)
(* follows the rename unless it is leased.                                        *)
Correct(renames) ==
    /\ lock = NoOwner
    /\ names[Here("media")] = Media /\ names[Here("sidecar")] # NoFile
    /\ \E fresh \in Sidecars : \E place \in {IF renames THEN Renamed ELSE Original} :
          /\ LinkCount(fresh) = 0
          /\ \A i \in DOMAIN expected : expected[i] # fresh
          /\ names' = [[names EXCEPT ![Here("media")] = NoFile, ![Here("sidecar")] = NoFile]
                         EXCEPT ![<<"media", place>>] = Media, ![<<"sidecar", place>>] = fresh]
    /\ synced' = names'
    /\ IF renames THEN UpdatePath(RecordingPath, NewPath, Jobs) ELSE UNCHANGED storeVars
    /\ UNCHANGED <<expected, lock, pc, mem, faults>>

(* Another publication of the recording, whose file was found just before.        *)
EnqueueCopy(j) ==
    /\ LinkCount(Media) > 0
    /\ Create(j, RecordingPath, {})
    /\ UNCHANGED removalVars

OperatorMoves(j) ==
    /\ Forget(j) \/ \E path \in Paths : Relink(j, NoOwner, 0, path)
    /\ UNCHANGED removalVars

Passage == Tick /\ UNCHANGED removalVars

---------------------------------------------------------------------------
(* Rows as a publication leaves them: finished, unleased, and not of the future.   *)
Settled(rows) ==
    /\ rows \in [Jobs -> Row]
    /\ \A j \in Jobs :
          \/ rows[j] = NoRow
          \/ /\ RowOK(rows[j]) /\ rows[j].state = "published"
             /\ rows[j].owner = NoOwner /\ rows[j].cOwner = NoOwner
             /\ \A time \in {rows[j].created, rows[j].updated, rows[j].started,
                             rows[j].accepted, rows[j].published} : time <= 1

(* The rows of the recording are published, for one origin or for several.        *)
CleanupInit(published) ==
    /\ jobs \in published
    /\ intents = [i \in Intents |-> NoIntent]
    /\ clock = 1
    /\ \E sidecar \in Sidecars \cup {NoFile} :
          names = [n \in Names |-> IF n = Here("media") THEN Media
                                   ELSE IF n = Here("sidecar") THEN sidecar ELSE NoFile]
    /\ synced = names
    /\ expected = [i \in {} |-> NoFile]
    /\ lock = NoOwner
    /\ pc = [c \in Cleaners |-> "idle"]
    /\ mem = [c \in Cleaners |-> [intent |-> CHOOSE i \in Intents : TRUE, gens |-> NoGens,
                                  fresh |-> FALSE, mutated |-> FALSE]]
    /\ faults = 0

Progress(c) ==
    \/ \E i \in Intents : Resume(c, i)
    \/ TakeClaim(c) \/ Check(c) \/ Renewal(c)
    \/ Link(c) \/ SyncLink(c) \/ Unlink(c) \/ SyncUnlink(c)
    \/ AdvancePhase(c) \/ Complete(c) \/ Refused(c)

Command(c) ==
    \/ \E i \in Intents : Begin(c, i)
    \/ Progress(c) \/ CallFails(c) \/ Crash(c)

CommandNext ==
    \/ \E c \in Cleaners : Command(c)
    \/ PowerLoss \/ Passage

Next ==
    \/ CommandNext
    \/ \E renames \in BOOLEAN : Correct(renames)
    \/ \E j \in Jobs : EnqueueCopy(j) \/ OperatorMoves(j)

---------------------------------------------------------------------------
(* Properties.                                                                    *)

RemovalDecided == {"sidecar_unlinked", "media_unlinked"}

(* Until a journal has durably passed the removal of the sidecar, the recording    *)
(* keeps a name that survives a power loss at that instant.                       *)
MediaKept ==
    \/ \E i \in Intents : intents[i].phase \in RemovalDecided
    \/ \E j \in Jobs : jobs[j].state \in {"local_removed", "forgotten"}
    \/ \E n \in Names : names[n] = Media /\ synced[n] = Media

(* The durable phase never runs ahead of the durable directory: a file the phase   *)
(* calls quarantined or removed is so after a power loss too, and a recording in   *)
(* quarantine always has its journal.  A row says local_removed only when no name  *)
(* of the recording is left in either.                                            *)
JournalMatchesDirectory ==
    \A i \in DOMAIN expected : \A dir \in {names, synced} :
        LET phase == intents[i].phase
            gone(file) == \A n \in Names : dir[n] # file
        IN
        /\ phase \notin {"none", "prepared"} /\ expected[i] # NoFile =>
              dir[Here("sidecar")] # expected[i]
        /\ phase \in {"media_quarantined"} \cup RemovalDecided => dir[Here("media")] # Media
        /\ phase \in RemovalDecided /\ expected[i] # NoFile => gone(expected[i])
        /\ phase = "media_unlinked" => gone(Media)
        /\ dir[Quarantine("media", i)] # NoFile => phase \notin {"none", "prepared"}
        /\ (\E j \in Jobs : jobs[j].state = "local_removed") => gone(Media)

(* A command that was overtaken changes no name any more: every link and unlink    *)
(* belongs to the latest claim of its journal, however long the lease is expired.  *)
StaleCommandNeverMutates ==
    [][\A c \in Cleaners :
          pc[c] \in {"link", "unlink"} /\ pc'[c] # "idle" /\ names' # names =>
              /\ Phase(c) # "none"
              /\ pc'[c] # pc[c] => intents[Intent(c)].gens = mem[c].gens]_vars

(* A removal interrupted after its first quarantine is finished by later commands. *)
InterruptedRemovalFinishes ==
    \A i \in Intents :
        intents[i].phase \notin {"none", FirstPhase} ~> intents[i].phase = "none"

============================================================================
