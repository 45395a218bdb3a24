# Meeting Recorder: TLA+ models, checks and proofs

This directory holds TLA+ specifications of the Python program in
`src/meeting_recorder`, TLC configurations that check them on small instances, and
proofs that TLAPS checks for every value of the constants.  The sources are the
reference: every definition that models code is translated from the lines listed for
it in `PROJECT.json` under `map`.

Run a check with `tlc -config StoreRow.cfg MCPublicationStore.tla`, a proof with
`tlapm PublicationStore_proofs.tla`.

## 1. The system

Meeting Recorder notices that a meeting has begun, records it, names the file after
the calendar entry, publishes it to a Speakr server when a trusted network is
available, and later removes published files from the disk.

| Component | State it keeps | Operations | Talks to | Hard behaviour | What makes it correct |
|---|---|---|---|---|---|
| Publication store (`speakr_store`, `speakr_domain`) | SQLite rows: phase, lease, generations, remote ID, marker, tags, times; a cleanup journal with its members | create, claim, renew, release, schedule, transition, tags, retry, relink, rename, forget; prepare, claim, advance, renew, release, complete, abort a journal; due snapshot, next wake | publisher, cleanup, service, command line; several processes on one file | two lease kinds on one row, expiry, raw column updates, a journal prepared before it is claimed | rows stay readable, fences hold, a known remote copy is never lost, the journal pins its members, the due query agrees with the claim |
| Publisher (`speakr_publisher`) | the claim in memory, staged copy, heartbeat | run_one, run_due, POST / reconcile / PATCH phases, safe requeue | store, transport, files | lease lost while a request is in flight, unknown outcomes, crash between send and record | at most one copy on the server that nobody asked for twice |
| HTTP transport (`speakr_http`) | none between calls | upload, query by marker, patch, tags | Speakr server | timeouts, partial sends | classifies outcomes conservatively |
| Cleanup (`speakr_cleanup`) | the journal (in the store), open directory descriptor, claim in memory | preview, delete, resume, abort | store, directory, directory lock | crash or power loss between any two of link, fsync, unlink, fsync, phase advance; a rival that takes over | the only copy is kept until removal is decided, the journal describes the directory, an interrupted removal finishes |
| Publication service (`speakr_service`) | thread, bounded queue, wake event, active cancellation, stop flag | start, submit_completed, submit_rename, stop, worker loop | controller (callbacks), publisher, NetworkManager | wake/clear race, stop against a network call about to begin, full queue | no lost wake, ordered handling, stop quiesces |
| Enrichment and correction (`recording_enrichment`, `meeting_sidecar`) | media and sidecar names, intent in the sidecar | enrich, apply or clear a match, recover | calendar cache, directory lock, rename callback | crash between sidecar intent, link, unlink and sidecar move | one recording has one name and one sidecar after recovery |
| Recording paths (`recording_paths`) | reservation markers and their locks, the directory lock | reserve, release, move without replace, link/unlink by descriptor | controller, enrichment, cleanup | a name chosen now and used later, while captures finalize outside the directory lock | no two recordings get one name |
| Controller (`controller`) | IDLE / PROMPTING / RECORDING, pending and active path, handles, reservations, tag context and generations | meeting start and end, accept, decline, portal answers, finish, finalization poll, shutdown | recorder, notifier, portal, tag discovery, enrichment, service | prompt, portal and tag answers for an earlier recording; a handle polled, waited for or aborted | every reservation is exactly held while needed, every handle reported, labels and consent belong to the recording |
| Recorder (`recorder`, `audio`) | segments, elapsed time, layout, pause flag, detached finalization handles | start, pause, resume, stop with trim or discard, poll, wait, abort | subprocesses, portal stream | a resume that fails, a pump that cannot start, ffmpeg dying unnoticed | the file is what was recorded up to the end of the call, under one layout |
| Detector (`detector`) | debounce state and deadlines | observe, tick | controller | flapping input | one start and one end per meeting, the wait before the end told to the recorder |
| Notifier, tag prompt, widget | prompt generation, answers, timeouts | ask, answer, close | controller | a late answer to a closed prompt | answers reach only the prompt they belong to |
| Tag discovery (`speakr_tag_service`, `speakr_tag_cache`) | workers, requests, one cached catalogue | activate, fetch, cancel, deliver | transport, controller | a late fetch for a former origin | delivered at most once, never another origin's tags |
| NetworkManager probe (`network_manager`) | cancellation flag and attached call, what the walk has read | probe, cancel | D-Bus, service | cancel against attach; the network changes between two calls | a cancelled probe ends; an unchanged network is judged rightly |
| Calendar cache, refresh, matching | snapshot files, operation lock, commit gate | refresh, stop, match, list | Google client, enrichment | stop against commit; a late answer of a former account | a settled refresh commits nothing, snapshots are of the stored credential |
| Calendar authorisation (`calendar_oauth`) | refresh token in the secret service | connect, refresh, disconnect | browser, Google, cache | failure or death between two steps | cache and credential belong together, a reported disconnect left nothing |
| Portal and region selection | D-Bus session, timer | create, select, start, fail, close | controller | answers after close or timeout | the stream lives as long as its capture |
| Command line, configuration, settings | none of their own | retry, relink, forget, cleanup, ... | store, publisher, cleanup | runs beside the daemon | uses the same fences |
| Tray, container and release scripts | - | - | - | - | - |

Interactions worth knowing: the daemon's worker thread, a command line run and a
cleanup run are different processes on one SQLite file; leases with generations are all
that separates them.  Enrichment and cleanup exclude each other by the recording
directory's lock; the publisher does not take it and works on a staged copy.  The
controller hands completions and renames to the service as callbacks and ignores
whether the queue took them.

`PROJECT.json` lists the hazards of this code under `hazards`, each at its line, with the
properties that cover it or the reason why none does yet.

## 2. The modules

    PublicationLifecycle  what publication promises
        ^ implemented by
    SpeakrPublisher       workers, wire, server         <- SpeakrPublisher_proofs
    SpeakrCleanup         journal, directory, crashes   <- SpeakrCleanup_proofs
        v EXTEND
    PublicationStore      rows, leases, journal         <- PublicationStore_proofs
    NetworkManagerProbe   the SSID gate, call by call   <- NetworkManagerProbe_proofs
        v EXTENDS
    PublicationService    worker thread and callbacks
    RecordingEnrichment   renames and their recovery    <- RecordingEnrichment_proofs
    MeetingCapture        what of a call reaches the file   <- MeetingCapture_proofs
    RecordingController   what belongs to which recording   <- RecordingController_proofs
    CalendarRefresh       credential and snapshots      <- CalendarRefresh_proofs
    MCPublicationStore, MCSpeakrPublisher, MCSpeakrCleanup, MCRecordingEnrichment
                          instances for TLC

A definition whose comment begins with "Mutant:" is no part of a model: it is a plausible
bug, listed in `PROJECT.json` under `mutants`, that TLC must refute in place of the definition
after it.

**PublicationStore.**  `jobs[j]` is one row, `intents[i]` one cleanup journal with its
members and their cleanup generations, `clock` the wall clock.  Each store method is one
action because each is one SQLite transaction (`_write`); `Commit` is `_update_job`, which
builds a `PublicationJob` and therefore rolls back when `RowOK`, the translation of its
`__post_init__`, is false.  Methods that write columns directly (claim, recovery, rename,
journal) do not go through `Commit`, which is why `RowsValid` is a property.  `Fenced` is
`_fence`; `Recovered` is `_recover_expired`; `DueIds` and `WakeDeadlines` are the two
SQL queries.  Paths, markers, remote IDs and owners are members of small sets; a media
identity is its path; error codes, HTTP statuses and attempt counts are left out, since no
guard of the store reads them.  `StoreNext` lets any client call any method at any
time, more than the program does; `SpeakrPublisher` and `SpeakrCleanup` restrict it to
what their callers do.

**SpeakrPublisher** adds workers: `pc[w]` is the line of `_run_claimed` a worker is about to
execute between two store or network calls, `mem[w]` its local variables.  The server is
external: `wire` are requests sent and not yet stored or refused, `recordings` the stored
copies.  The last look at the lease before the upload (`PostRenew`) and the departure of the request
(`PostSend`) are two steps, as are those of the PATCH: in between the lease may run out and another
worker recover the row.  A sender may give up (`UploadTimeout`) while its request stays on the wire.
`authorised` counts the copies an operator has asked for.  `Stop` is a crash, a refused fence
or a failed transaction: the worker forgets its job, and row, lease and request stay as they are.

**PublicationLifecycle** is the abstract publication: seven stages of a recording, a number of
uploads that may still set out, uploads that set out and have not left their sender (`leaving`), uploads
in transit and copies on the server, without workers, leases, markers or clocks.  A permit is spent when
an upload sets out, which is the last look at its lease; the request may leave at any later time, when the
recording is in doubt, given to POST again or gone, or stay behind and give the permit back.  Under the mapping at the end of `SpeakrPublisher` (`StageOf`,
permits from the senders, requests and copies) every step of every worker and operator is one of its
steps or none.  Its content is what a log of the rows cannot show: an upload sets out only
from a row in transfer and under a permit, "uploaded" needs a copy, "published" needs a description that arrived, and a doubtful
upload is sent again only by its operator or while its permit is unspent.

**SpeakrCleanup** adds the directory: `names` is what the kernel shows, `synced` what is
on the disk.  Each link or unlink changes `names`, each fsync copies to `synced`, and
`PowerLoss` lets every name that changed since the last fsync survive or not on its own.
`Crash` loses a command's memory and its directory lock but keeps its lease.  Everything a
command verifies before a change (`Check`) stands for `_inspect`, `_verify_phase_state`
and their helpers; `lock` is the directory lock.  Corrections and relinks by others are
steps of the environment; a correction needs the directory lock to be free.

**PublicationService** has the worker's position `pc`, the thread, the bounded `queue`, the
`wake` event, `active` (the network operation's cancellation handle) and `stopper`, the
position of a `stop()` call between its lock, its cancellation, its thread start and its
join.  `accepted`, `submitted` and `handled` number the callbacks.

**NetworkManagerProbe** spells out two of its steps.  `LeaveNetwork` from the probe becomes the walk
of `_probe`: owner, root, every active connection, then device, wireless settings and access
point of each Wi-Fi connection, each a D-Bus call (`at` = `call`, `calling`) that may fail, be
cancelled or time out, while `NetworkChanges` rewrites a connection between two calls.
`Cancel` becomes the three steps of `NetworkManagerCancellation.cancel()` against the probe's
attach and detach.  A connection is one of six kinds, what its type, state and SSID amount to.

**RecordingEnrichment** has the recording directory by name: `media[n]` is the recording
(the inode) a name links to, `beside[n]` the sidecar beside it, whose `names` field is the
intent.  Two names with equal sidecars are two links of one file, which `load_sidecar_fd`
refuses; a sidecar is written only under its own name, so equal content has no other
cause.  `txn` is the transaction that holds the directory lock: its `step` is the file system
call it makes next, and each call is one action with its failures beside it (`WriteFails`, ...,
`RestoreFails`), before or after the call took effect as the code tells
`MovePrecommitError` from `MoveCommittedError`.  `CorrectionDies` and `DaemonDies` end a
process between any two calls; the lock and the daemon's reservations fall with it.
Reservations (`stage`, `home`) are taken under the lock, but a capture finalizes without it,
in the middle of anyone's transaction.  A correction that first recovers is two commands
here, `Recover` and then `Select` or `Clear`.  `report` is what the last transaction returned
or raised.

**MeetingCapture** has a clock of ticks.  `machine` is `DebounceMachine`; `Polled` is one `tick()`
of the detector, with any application or none holding the microphone.  A segment is the
set of ticks its ffmpeg wrote, so "the file" is a set of ticks and the trim keeps the first so
many of them.  `recorder` has `_accum` and the start of the current segment, from which
`Elapsed` is computed as the code does; `CaptureDies` ends an ffmpeg behind the recorder's
back.  `outcome` and `missing` are history: what the last run left, and since when the
detector has seen no application.

**RecordingController** has no clock; its subject is which answer belongs to which recording.  A
call, its prompt, its portal session, its recording and its finalization handle have the
call's number.  `pending` and `active` are the controller's two paths, `session` and `attached`
the controller's and the recorder's reference to a portal session, `portal[s]` what each
`ScreenCastSession` knows and what the compositor has (`stream`).  A reply that is under way
stays under way when the session is closed, as `close()` cancels none.  A handler and everything
it calls is one action, for it runs on the GLib loop; a worker's tag result, a finalizer and
the `record` process take steps in between.  `answered`, `fed` and `chosen` are history.

**CalendarRefresh** has the refresh token, the snapshot of each calendar (known by the token it was
fetched with), the advisory lock, and the position of four processes: the daemon's worker and
the `refresh`, `connect` and `disconnect` commands.  Every process may die at each step
(`Dies`), every step of the secret service and the cache may fail before or after it took effect
where the code cannot tell.

## 3. The runs

| Run | Instance | What it shows |
|---|---|---|
| `store_row` | one row, one worker, two cleaners, two journals, one tag, clock to 3, leases of one tick | every interleaving of all store methods on one row: rows stay valid, final outcomes can always be recorded, no runnable row is slept past, under an expired lease a row changes only by recovery or a new claim, a known copy is kept, a journal is never moved back, removal is final |
| `publisher` | one job, two workers, two markers, one tag, two paths, one operator retry, clock to 3 | no copy beyond the first and one per operator retry, the remote ID is the row's own copy with the tags the row reports and no other copy is ever described, every step is one of `PublicationLifecycle` |
| `cleanup` | two rows of one recording, two journals, two commands, one fault, edits by others | media kept until removal is decided, the journal's phase matches the directory even after power loss, it pins its members, a stale command changes nothing |
| `cleanup_faults` | one row, one journal, two commands, three faults | an interrupted removal is finished by later commands |
| `enrichment` | two recordings that ask for one fallback name, two visible meetings and a private one, five names, two faults | a recording never loses its last name, a planned name is still free when it is linked, what is reported is true of the directory, discovery finds no other recording's metadata, confirmed tags survive all steps but the repair of an enrichment whose move failed |
| `service` | `NetworkManagerProbe` with a queue of one, two callbacks, two connections, one start and one stop | no lost wake, network quiesced after stop, the cancelled call is cancelled, only an allowed network is admitted, accepted callbacks handled, stop ends the worker |
| `capture` | two applications, debounces of one and two ticks, a minimum of two, seven ticks, three segments, portal | what is trimmed, the live timer, and that all parts of a run have a video or none |
| `recording` | two calls, one tag request, a portal, one stop that raises | reservations, tags, consent and streams belong to their recording, nobody waits for the portal for ever, every handle is reported |
| `calendar` | two calendars, two grants, three attempts, two pages | credential and snapshots belong together, a reported disconnect is clean, a settled stop is final, the worker ends |

Three more runs check what a comment says and find it violated; see section 5.

*Why the bounds are enough.*  A lease of one tick with a clock of three lets a lease be
taken, expire, be taken by another and expire again, which is the longest chain the fences
react to; generations count claims, so their bound only limits how often that happens.  Two
workers suffice because a third could only repeat what the second does to the first: no
guard counts owners.  Two markers allow one upload and one more after the permitted retry.
Two journals allow a rival that prepares before the first has claimed; two rows allow a
group.  One fault in `cleanup` meets edits by
others; three faults in `cleanup_faults` allow a crash during the recovery from a
crash during a recovery.  Two faults in `enrichment` allow a failed repair after a failed
move, and a crash in the recovery from a crash; two recordings of one meeting compete for its
name, its variant and the fallback, and a third would only take further variants.  A queue of
one can be full while the item before is handled, and the second callback overflows it; two
connections are the fewest with which one may be judged while the other changes, or be on
another SSID.  In `capture`, seven ticks hold a start debounce, two segments with a pause, an absence undone
by a sighting, and the absence that ends the call.  In `recording`, two calls give every late
answer a later recording to be mistaken for, and one finalizer that still runs while the next
path is chosen; a third call would meet the same two.  In `calendar`, two grants let an account
replace another, two calendars let a failure stop half-way, and two pages with three attempts
pass every limit of the client.  The bounds are `MaxClock`, `MaxGen`, `MaxCleanupGen`, `MaxMarkers`, `MaxRetries`,
`MaxFaults`, `MaxItems`, `MaxSegments`, `MaxCalls`, `MaxRequests`, `MaxRefusals`, `MaxGrants`, the one
change of a network in a probe, and the numbered variants listed in `Candidates`, each a guard of the action that would pass it; every one is large
enough that TLC reaches the cases named above (each property has a mutant of the code,
listed under `mutants`, that TLC refutes within the same bounds).

*Symmetry.*  Workers, paths and cleanup commands are interchangeable and are permuted where a run's
properties are invariants or constrain single steps and quantify over all of them alike; the
runs with liveness use none.

*Deadlock.*  `CHECK_DEADLOCK FALSE` is set for `cleanup*`, where removal is the end, for
`service`, where a stopped service stops, for `enrichment*`, where every recording may
have been cleared or have an intent nobody can recover (section 5), for `capture`, whose clock
ends, for `recording` and `portal_stale`, which end with the process, and for `calendar`, where
the grants run out with every process dead.  The store and publisher models cannot stop.

*Fairness.*  `cleanup_faults`: commands keep being run, each step
a command can take is eventually taken, and the clock goes on (the bound of `MaxFaults`
says that faults end); this is the operator's part, no timer of the program does
it.  `service`: the worker thread is scheduled, its network operations return because each
has a timeout, its wait returns because it has one, and `stop()` runs on once called; no
fairness of callbacks or of the call to `stop()`.  `recording` (`FairSpec`): the GLib loop runs the
portal's timer and the poll of an ended handle, and a shutdown goes on once begun; no fairness of
the portal, the user, the finalizer or the end of a call, so `HandlesReported` asks nothing of
an encoder that never ends until shutdown kills it.  `calendar`: the daemon's worker is
scheduled, since its requests have timeouts and its wait an interval; no fairness of commands.

## 4. What is proved

Each `_proofs` module extends the module it is about (that of the probe holds the service's theorems too,
that of the publisher the refinement of the lifecycle).  They prove, for all values of the constants that satisfy the named assumptions
(types of the constants, positive lease lengths, a non-empty queue, some recording; TLC evaluates them in the runs):

- `StoreTypeCorrect`, `RowsStayValid`: `StoreSpec => []TypeOK`, `[]RowsValid`.  The
  inductive invariant is `StoreInv == TypeOK /\ RowsValid /\ UnusedRowsBlank`.  Neither of the
  first two is inductive without the last: a row that is created or recovered is built from
  the unused row, whose fields must be blank for its lease pair and times to agree.  The
  hard cases are those that write columns without `Commit`: `ClaimJob`, `ClaimNothing`
  (recovery of all rows), `UpdatePath`, and the journal's claim, renewal and release.  One lemma
  shows that `Recovered` maps valid rows to valid rows; one, that a claim does.
- `KnownRemoteIsKept`: `StoreSpec => KnownRemoteKept`, an action property, from `StoreInv`:
  `Transitioned` clears the remote ID for three target states, and `PhaseCoherent` is what shows
  that no row with a remote ID can go there.
- `LocalRemovalIsFinal`: `StoreSpec => RemovalIsFinal`.
- `ServiceTypeCorrect`, `NoWakeLost`, `StopIsQuiet`, `CallbacksInOrder`: of the service with its
  probe (`ProbeSpec`), so that they hold while the network and `cancel()` take their own steps.  The inductive
  invariant is `ServiceInv`, which adds `StopperMarks` to the four: once `stop()` is past its
  lock the stopping flag stays set.  `WakeNotLost` needs no case split beyond the worker's wait;
  `StopQuiesces` needs that the gate reads `stopping` and registers its handle in one step.
- `EnrichmentTypeCorrect`, `RecordingsAreKept`: `Spec => []RecordingsKept` of the enrichment, for any
  number of recordings, names and faults.  The inductive invariant `EnrichmentInv` adds
  `HomesNamed` (a capture has a name) and `MoveIsSound`: a transaction about to unlink has two
  different names with the same media.  For a rename this comes from its own link; for a
  recovery, which starts with the unlink, only from the comparison of the two inodes at
  discovery.
- `CancellationReachesCall`, `AdmissionIsSound`: the first comes from `GateInv`, which
  adds to `ServiceInv` where a probe may run and `CancelOrdered`: `cancel()` sets the event before it
  reads the handle and the probe publishes the handle before it reads the event, so a call under way when
  `cancel()` has returned was attached early enough or cancelled by the probe itself.
  `AdmissionIsSound` comes from `WalkInv`, whose `Faithful` says, while the network has not changed,
  that each connection read so far is of the kind the walk took it for.  The connections may be any set,
  read in any order.
- `TimerIsRight`, `PartsConcatenate`, `TrimKeepsTheCall`: any debounces, any length of call, any number of
  pauses.  The inductive invariant (`CaptureInv`, `OutcomeOK`) says that the accumulated time and the
  start of the current part count the ticks of the tape, and that the detector's wait began with the first
  look without a sighting.  Two lemmas about counting carry it: what was recorded without a gap since a
  moment is what lies before it and as many ticks as have passed (`GaplessTail`), and the first so many
  ticks of a tape are those before that moment (`FirstTicksAreThoseBefore`).  `PartsConcatenate` says that the parts agree
  in having a video, not that each shows the screen (section 5).  `TrimKeepsTheCall`
  assumes `MinRecording # 0`: with a minimum of zero a call with nothing recorded before the
  last sighting keeps a clip, for the recorder's trim leaves a minimum.
- `CacheBelongsToCredential`, `DisconnectLeavesNothing`, `SettledRefreshIsOver`: any calendars, pages,
  attempts and grants, each process dying anywhere.  The inductive invariant `CalendarInv` adds three
  facts to the properties: whoever is past the lock holds it; a refresh works with the token that is
  stored; and the gate is held from the last look at the cancellation to the commit.
- `PublisherUsesStore`: `Spec => StoreSpec` for the publisher, so what is proved of the store under any
  clients holds under these workers and operators.
- `RowsNameTheirCopies` and `NoDuplicateWithoutPermission`: `Spec => []RemoteIsOwnCopy` and
  `[]NoUnauthorisedDuplicate`, for any number of recordings, workers, tags, transfers and retries, and
  leases that run out anywhere.  The inductive invariant `PublisherInv` links four places: the row, whose
  marker nobody else's row has (`RowsLinked`); requests and copies, which the row that still has their
  marker describes (`RequestsDescribed`) and of which no two share a marker (`SentOnce`); and the memory of
  each worker, which agrees with its row as long as it holds the lease (`Remembers`) and which, lease or
  not, is right about its own request (`Knows`).  The count of copies is bounded through permissions
  (`Permitted`): each marker spent, each worker between the two transactions of a requeue and each row that
  may still be uploaded holds one of the `1 + authorised[j]`.  That the requeue's second transaction hands
  back what its first took is why the disagreement of section 5 adds no copy.  That no copy but the one the
  row names is ever described needs `PatchedInv` on top: a worker patches only the ID its row knew while it
  held the lease, and a copy once named stays the one named until the row is forgotten.
- `PublisherImplementsLifecycle`: `Spec => ImplementsLifecycle`, a refinement, for any number of
  recordings, workers, transfers and retries.  The permits of the lifecycle are not a variable of the
  program but the difference `1 + authorised[j]` less senders past their last look, requests and copies; that
  this is positive whenever a worker begins, sets out or requeues is `Permitted` again, since the markers of senders, requests and copies are all
  different and so are counted by them (`Numbers`, two bijections).  That a row whose upload is accepted
  has a copy, and a row that is published a described one, comes from `RowsLinked` and `Remembers`; that
  a row given up or resumed keeps its stage, from `PhaseCoherent` of the rows before and after.
- `JournalsPinTheirRows`, `ExpiryFences`, `JournalsOnlyAdvance`, `OutcomesAreRecorded`, `WakesMatchClaims`:
  the other properties of the store.  The inductive invariant `LedgerInv` adds to `StoreInv` what ties
  journals and leases (`JournalInv`: the rows of a journal are leased together or not at all, a cleanup
  lease has one journal, a published row has no worker) and that no time of a row lies in the future
  (`TimesInv`), without which the validation could refuse an outcome.  Operations on rows are shown to be
  `Calm`, which is all the journal invariant needs of them; operations on journals are shown one by one.
  `WakesMatchClaims` needs no more than `StoreInv`.  For `ExpiryFences` each call of a worker is refused under
  an expired lease, and what is left, `claim_one` and its recovery, is shown to leave the row recovered or
  under the new claim (`TakenOver`).
- `TargetsStayFree`, `DiscoveryIsOwn`, `ReportsAreTrue`, `TagsDoSurvive`: the other properties of the
  enrichment.  The inductive invariant `DirectoryInv` accounts for the whole directory: no sidecar lies
  beside another recording's media and a recording has one sidecar (`DiskInv`), a planned transaction has
  its names for itself (`PlanHolds`), what its two names hold at each step (`PlaceHolds`), and what was
  reported (`ReportHolds`).  `TagsSurvive` excepts the `restore` step of an enrichment whose media is still
  at its old name, and no other step.  `AbsenceAssumption` says that the absent value is no sidecar, transaction or report.
- `PathsAreReserved`, `LabelsAreChosen`, `OnlyOwnConsent`, `StreamsOutlive`: the safety of the controller,
  for any number of calls, requests
  and paths (the first two of runs in which the recorder refused no stop, as the properties say).  The inductive invariant `ControllerInv` says that a
  prompt on display is that of the present call, that a session which has handed out its stream waits for
  nothing, that what is recorded or pending is of the present call, and that holders of reservations have
  different ones.
- `RecordingOutlivesDoubt`, `JournalsAreTrue`, `CommandsPinTheirRows`, `OvertakenCommandsStop`: the safety
  of cleanup, for any commands, journals, rows, sidecars, faults, corrections and operators.  The theorems
  speak of `CleanupSpec(published)` for any set of initial tables whose rows are `Settled`, finished and
  unleased as a publication leaves them; an assumption of `MCSpeakrCleanup` checks that the tables of the
  runs are.  `CleanupInv` adds to `LedgerInv` what a command knows at each of its steps and where a file
  may be in each phase of its journal.  The latter (`Sound`) is said name by name and of one directory, so
  that it holds of any mixture of two directories of which it holds: this is the power loss.  That one
  journal at a time is past its first phase comes from the store: a claim needs the members unchanged and
  the rows of another such journal are leased.  Link counts become facts about names through `CountedLinks`
  and the finiteness of the journals.
- `CommandsUseTheStore`: `CleanupSpec(published) => [][StoreNext]_storeVars`, with `JournalNeverRewound` and
  `ExpiredLeaseFences` as consequences, so the commands, their crashes and the corrections beside them use
  the store only through its transactions.

Every invariant, action property and refinement that a passing run checks is proved.  Only model-checked:
liveness, which this prover does not treat (`InterruptedRemovalFinishes`, `AcceptedIsHandled`,
`StopEndsWorker`, `PendingResolves`, `HandlesReported`, `StopEndsRefresh`), and the three disagreements of
section 5, which are counterexamples.  The long inductive invariants (`CleanupInv`, `ControllerInv`, the
enrichment's `DirectoryInv`) were model-checked on the instances of their runs before they were proved.

## 5. Where the code and its documentation disagree

Three runs show a disagreement:

- `publisher_stale_requeue`: the safe requeue claims the row again by its ID only.  After an
  operator retry and a second worker's expired lease, that is another upload
  (`speakr_publisher.py:1042`).  The copy this can add is within what the operator authorised
  in the instance checked; what fails is the comment's claim that only unsent requests are requeued.
- `enrichment_wedged`: a process that dies after the second correction of a recording, or a clear,
  wrote its intent leaves a sidecar that names neither the present file nor its original
  fallback; discovery refuses it from then on (`recording_enrichment.py:342`).  In the same model a
  death between the link and the unlink of the sidecar's own move leaves two links, which
  `load_sidecar_fd` refuses under either name, so the branch of the recovery for a sidecar already at its
  target is never reached.  The media are kept in both cases.
- `portal_stale`: a portal session that is closed or times out before the portal has named it is
  opened all the same when the answer comes, and nobody closes its stream (`controller.py:204`,
  `screencast.py:123`).

Read off while modelling, and checked by no run of the final set:

- a wall clock that steps back during a transfer makes the row validation refuse the acceptance, and
  the publisher records an accepted upload as a missing local file that is to be sent again
  (`speakr_publisher.py:652`); the models' clock never steps back;
- a failed verification after a crash aborts the journal of a group whose sidecar is already in
  quarantine (`speakr_cleanup.py:641`); the media are not lost;
- a callback accepted between the worker's last look at its queue and `stop()` stays there
  (`speakr_service.py:364`);
- a call that ends while the recording is paused, or after its ffmpeg died, is cut by a wait that was
  never recorded, so the cut reaches into the call (`recorder.py:625`); `TrimIsExact` therefore speaks
  of runs that captured through the wait;
- on Wayland the first segment without a pump falls back to audio, as the comments at
  `recorder.py:663-664` and `recorder.py:690-692` demand of every segment, but a later segment whose pump
  cannot be started grabs the X11 screen, which shows nothing there, because the run's layout is already
  video (`recorder.py:660`); the model has this part (`source` is `grab`), and `LayoutsAgree` promises
  only that the parts agree in having a video and that a portal's video began as the portal's;
- an error of the access token ends the refresh of all calendars, although calendars are said to be
  refreshed independently (`calendar_refresh.py:53`); a second `calendar disconnect` reports a failure, for
  there is nothing to clear; a grant without the asked scopes is not revoked (`calendar_oauth.py:562`);
- a recording that is too short leaves `_active_path` set; a `stop()` of the recorder that raises leaves
  it marked as recording, which `ReservationsExact` excepts by `refusals = 0`; a failing
  `_reserve_path` after a prompt leaves the state at PROMPTING until the call ends.

## 6. Not modelled

Hashing, staging files, HTTP framing, TLS, notices and wording; the schema's migration; the
candidate selection of `delete()` (one group is fixed) and `preview()`; the media identity a row
keeps beside its path.  `run_due` takes one reading of the clock for a batch, so a claim may use
any earlier reading.  `run_due` ignores its cancellation and the service only waits for it, so
`StopQuiesces` speaks of the probe.
In the enrichment, directory operations reach the disk in their order, so a power loss leaves what a
death of the process leaves; reads of a sidecar do not fail on their own; the rename callback, which
is advisory, and the removal of published files are left to the store's and cleanup's models.  The server stores an upload or refuses it, once; it does not
lose what it stored.

In the controller a reservation is one step; the marker file, its lock and the reaping of dead
markers are not spelt out.  The manual `record` command is only the rival that reserves a path.
Tags are known by the request that delivered them and the user picks all or none; the
cache of tags for one origin is not modelled.  In the capture model ffmpeg writes whole ticks, and the
concatenation, the video grab and GStreamer are external.  The probe's D-Bus types are checked by the code
and are one outcome here (`Malformed`).  The calendar's browser, loopback listener, token exchange,
status and event parsing, and the matching of a recording to an occurrence, are not modelled: matching is
a choice of the meeting in `RecordingEnrichment`.  Configuration, the settings window, the tray, the
region selector and the container scripts keep no interacting state.

## 7. Plan

Done: store, publisher with its abstract lifecycle, cleanup, service with the network probe,
enrichment, capture, controller, calendar; the theorems of section 4.  Next, in this order:

1. An abstract rename that happens atomically or not at all, implemented by `RecordingEnrichment`; its
   composition with the rename callback and the service's queue.
2. Proofs: every safety and action property that a passing run checks, and every refinement, is now a
   theorem.  Left are the refinement of the model above, once it is written, and the composition
   of cleanup and publisher over one store.
