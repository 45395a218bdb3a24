-------------------------- MODULE SpeakrPublisher --------------------------
(* The publication engine of meeting_recorder/speakr_publisher.py, over the store  *)
(* of PublicationStore.  Each worker is one SpeakrPublisher: the daemon's service  *)
(* thread or one CLI process.  Its program counter stands between two durable or   *)
(* remote effects; everything local to one side of an effect is part of it.  The   *)
(* Speakr server is external: it may store a request late, after its sender gave   *)
(* up or died, and any reply may be lost.                                          *)
EXTENDS PublicationStore, Sequences

CONSTANTS
    MaxMarkers,     \* bound: transfers begun (each mints a fresh marker)
    MaxRetries      \* bound: operator retries of uncertain rows

ASSUME PublisherAssumption ==
    /\ MaxMarkers \in Nat /\ MaxRetries \in Nat /\ Jobs # {}
    /\ Markers = 1..MaxMarkers /\ NoMarker = 0
    /\ Remotes = 1..MaxMarkers /\ NoRemote = 0

VARIABLES
    pc,         \* where each worker stands
    mem,        \* what each worker remembers of the job it claimed
    minted,     \* markers minted so far: the last one, by number
    wire,       \* upload requests sent and not yet handled by the server
    recordings, \* what the server stores under each remote ID, in upload order
    authorised  \* history: operator retries that took an uncertain job to POST

publisherVars == <<pc, mem, minted, wire, recordings, authorised>>
vars == <<storeVars, publisherVars>>

Request == [job : Jobs, marker : Markers, tags : SUBSET Tags]
Recording == [job : Jobs, marker : Markers, tags : SUBSET Tags, patched : BOOLEAN]
Replies == {"none", "accepted", "unknown", "not_sent", "busy", "refused"}
Memory == [job : Jobs, gen : Nat, marker : Markers \cup {NoMarker},
           tags : SUBSET Tags, reply : Replies, remote : Remotes \cup {NoRemote}]
Steps == {"idle", "block", "post_stage", "post_tags", "post_begin", "post_renew",
          "post_send", "post_wait", "post_settle", "reclaim",
          "requeue_claim", "requeue_retry", "requeue_again", "requeue_schedule",
          "reconcile", "reconcile_tags", "reconcile_accept",
          "patch_stage", "patch_send", "patch_done"}

RemoteIds == DOMAIN recordings
Job(w) == mem[w].job
Gen(w) == mem[w].gen
Goto(w, step) == pc' = [pc EXCEPT ![w] = step]

(* What a worker remembers of a job it just claimed with this generation.         *)
Fresh(j, gen) == [job |-> j, gen |-> gen, marker |-> NoMarker, tags |-> {},
                  reply |-> "none", remote |-> NoRemote]
Nothing == Fresh(CHOOSE j \in Jobs : TRUE, 0)

(* A step that touches only the store and the worker's own position; a worker     *)
(* that is done with its job forgets it.                                          *)
StoreStep(w, step) ==
    /\ Goto(w, step)
    /\ mem' = IF step = "idle" THEN [mem EXCEPT ![w] = Nothing] ELSE mem
    /\ UNCHANGED <<minted, wire, recordings, authorised>>

---------------------------------------------------------------------------
(* Claiming: run_one, run_due, run_all_due, block_configuration.                  *)

(* _run_claimed continues from the persisted phase of the row it fenced.          *)
PhaseOf(state) ==
    CASE state = "queued" -> "post_stage"
      [] state = "uncertain" -> "reconcile"
      [] state = "metadata_pending" -> "patch_stage"
      [] OTHER -> "idle"

Fence(w, j, step) ==
    /\ Goto(w, step)
    /\ mem' = [mem EXCEPT ![w] = Fresh(j, jobs'[j].gen)]
    /\ UNCHANGED <<minted, wire, recordings, authorised>>

(* run_due claims every job of its batch at the clock reading the batch began     *)
(* with: by then that reading, and the lease it grants, may be long past.         *)
Start(w, j) ==
    /\ pc[w] = "idle"
    /\ \E now \in 1..clock : ClaimJob(j, w, FALSE, now)
    /\ Fence(w, j, PhaseOf(jobs'[j].state))

(* Nothing to claim, but expired leases of any job were recovered on the way.     *)
StartNothing(w, j) ==
    /\ pc[w] = "idle"
    /\ \E now \in 1..clock : ClaimNothing(j, FALSE, now)
    /\ UNCHANGED publisherVars

StartBlock(w, j) ==
    /\ pc[w] = "idle"
    /\ ClaimJob(j, w, TRUE, clock)
    /\ Fence(w, j, "block")

BlockConfiguration(w) ==
    /\ pc[w] = "block"
    /\ Block(Job(w), w, Gen(w))
    /\ StoreStep(w, "idle")

(* _claim_and_continue: transitions release the lease, so the worker claims again.*)
Reclaim(w) ==
    /\ pc[w] = "reclaim"
    /\ \/ /\ ClaimJob(Job(w), w, FALSE, clock)
          /\ Fence(w, Job(w), PhaseOf(jobs'[Job(w)].state))
       \/ /\ ClaimNothing(Job(w), FALSE, clock)
          /\ StoreStep(w, "idle")

(* The heartbeat thread renews the lease while the main thread works.             *)
Working == Steps \ {"idle", "reclaim", "requeue_claim", "requeue_again"}
Heartbeat(w) ==
    /\ pc[w] \in Working
    /\ Renew(Job(w), w, Gen(w))
    /\ UNCHANGED publisherVars

(* A crash, a refused fence or a failed transaction: the worker abandons the job   *)
(* where it stands and leaves the row, its lease and its request as they are.      *)
Stop(w) ==
    /\ pc[w] # "idle"
    /\ StoreStep(w, "idle")
    /\ UNCHANGED storeVars

---------------------------------------------------------------------------
(* _run_post                                                                      *)

(* A file that cannot be staged, changed since, or hashes differently is missing;  *)
(* malformed or ambiguous metadata is retried later.                               *)
LocalFailure(w) ==
    /\ pc[w] \in {"post_stage", "post_tags", "post_begin", "post_renew",
                  "patch_stage", "patch_send"}
    /\ MarkMissing(Job(w), w, Gen(w))
    /\ StoreStep(w, "idle")

MetadataFailure(w) ==
    /\ pc[w] \in {"post_stage", "patch_stage"}
    /\ \E due \in {clock, clock + 1} : Schedule(Job(w), w, Gen(w), due)
    /\ StoreStep(w, "idle")

(* A rename found while the worker holds the lease is written to the row.         *)
RefreshPath(w) ==
    /\ pc[w] \in {"post_stage", "post_settle", "patch_stage"}
    /\ \E path \in Paths \ {jobs[Job(w)].path} : Relink(Job(w), w, Gen(w), path)
    /\ UNCHANGED publisherVars

PostStage(w) ==
    /\ pc[w] = "post_stage"
    /\ Renew(Job(w), w, Gen(w))
    /\ StoreStep(w, "post_tags")

(* Mutant: tags the catalog no longer lists are submitted all the same.           *)
ResolveTagsUnfiltered(w) ==
    /\ pc[w] = "post_tags"
    /\ Goto(w, "post_begin")
    /\ \E listed \in SUBSET jobs[Job(w)].frozen :
          UpdateTagStatus(Job(w), w, Gen(w), "known", listed)
    /\ mem' = [mem EXCEPT ![w].tags = jobs[Job(w)].frozen]
    /\ UNCHANGED <<minted, wire, recordings, authorised>>

(* _resolve_upload_tags: a known catalog keeps the frozen tags it still lists; an  *)
(* unreachable one submits them all and leaves their outcome unknown.              *)
ResolveTags(w) ==
    /\ pc[w] = "post_tags"
    /\ Goto(w, "post_begin")
    /\ \/ /\ jobs[Job(w)].frozen = {}
          /\ mem' = [mem EXCEPT ![w].tags = {}]
          /\ UNCHANGED storeVars
       \/ /\ jobs[Job(w)].frozen # {}
          /\ \E listed \in SUBSET jobs[Job(w)].frozen :
                /\ UpdateTagStatus(Job(w), w, Gen(w), "known", listed)
                /\ mem' = [mem EXCEPT ![w].tags = listed]
       \/ /\ jobs[Job(w)].frozen # {}
          /\ UpdateTagStatus(Job(w), w, Gen(w), "unknown", {})
          /\ mem' = [mem EXCEPT ![w].tags = jobs[Job(w)].frozen]
    /\ UNCHANGED <<minted, wire, recordings, authorised>>

(* The last durable step before request bytes may leave the process.              *)
PostBegin(w) ==
    /\ pc[w] = "post_begin"
    /\ minted < MaxMarkers
    /\ BeginTransfer(Job(w), w, Gen(w), minted + 1)
    /\ minted' = minted + 1
    /\ mem' = [mem EXCEPT ![w].marker = minted + 1, ![w].reply = "none"]
    /\ Goto(w, "post_renew")
    /\ UNCHANGED <<wire, recordings, authorised>>

(* The last look at the lease before the upload.                                   *)
PostRenew(w) ==
    /\ pc[w] = "post_renew"
    /\ Renew(Job(w), w, Gen(w))
    /\ StoreStep(w, "post_send")

(* transport.upload: the request leaves, whatever became of the lease since, or    *)
(* the connection fails before any byte of it does.                                *)
PostSend(w) ==
    /\ pc[w] = "post_send"
    /\ \/ /\ wire' = wire \cup {[job |-> Job(w), marker |-> mem[w].marker, tags |-> mem[w].tags]}
          /\ Goto(w, "post_wait")
          /\ UNCHANGED mem
       \/ /\ mem' = [mem EXCEPT ![w].reply = "not_sent"]
          /\ Goto(w, "post_settle")
          /\ UNCHANGED wire
    /\ UNCHANGED <<storeVars, minted, recordings, authorised>>

(* What the waiting sender of this request is told; nobody else is.               *)
Reply(request, kind, remote) ==
    LET waiting == {w \in Owners : pc[w] = "post_wait" /\ mem[w].marker = request.marker} IN
    /\ mem' = [w \in Owners |-> IF w \in waiting
                 THEN [mem[w] EXCEPT !.reply = kind, !.remote = remote] ELSE mem[w]]
    /\ pc' = [w \in Owners |-> IF w \in waiting THEN "post_settle" ELSE pc[w]]

(* The server stores a request and answers 202, or answers 408 or 5xx, or answers  *)
(* with a body that cannot be read.                                                *)
ServerStores(request) ==
    /\ request \in wire
    /\ wire' = wire \ {request}
    /\ recordings' = Append(recordings, [job |-> request.job, marker |-> request.marker,
                                         tags |-> request.tags, patched |-> FALSE])
    /\ \E kind \in {"accepted", "unknown"} : Reply(request, kind, Len(recordings) + 1)
    /\ UNCHANGED <<storeVars, minted, authorised>>

(* The request is refused or lost on the way: nothing is stored.  429 is busy, any *)
(* other completed rejection but 408 and 5xx is refused.                           *)
ServerRefuses(request) ==
    /\ request \in wire
    /\ wire' = wire \ {request}
    /\ \E kind \in {"unknown", "busy", "refused"} : Reply(request, kind, NoRemote)
    /\ UNCHANGED <<storeVars, minted, recordings, authorised>>

UploadTimeout(w) ==
    /\ pc[w] = "post_wait"
    /\ Goto(w, "post_settle")
    /\ mem' = [mem EXCEPT ![w].reply = "unknown"]
    /\ UNCHANGED <<storeVars, minted, wire, recordings, authorised>>

(* Persist the remote ID before any PATCH.                                        *)
Accept(w) ==
    /\ pc[w] = "post_settle" /\ mem[w].reply = "accepted"
    /\ AcceptTransfer(Job(w), w, Gen(w), "transferring", mem[w].remote)
    /\ StoreStep(w, "reclaim")

(* An ambiguous outcome, or a snapshot that changed while it was being sent.       *)
SettleUnknown(w) ==
    /\ pc[w] = "post_settle" /\ mem[w].reply # "none"
    /\ MoveToUncertain(Job(w), w, Gen(w))
    /\ StoreStep(w, "reclaim")

SettleRefused(w) ==
    /\ pc[w] = "post_settle" /\ mem[w].reply = "refused"
    /\ Block(Job(w), w, Gen(w))
    /\ StoreStep(w, "idle")

---------------------------------------------------------------------------
(* _safe_requeue_post: the only automatic return to POST, in five transactions.   *)

(* Mutant: an unknown outcome is taken for one that was not sent.                 *)
SettleUnknownAsNotSent(w) ==
    /\ pc[w] = "post_settle" /\ mem[w].reply \in {"not_sent", "busy", "unknown"}
    /\ MoveToUncertain(Job(w), w, Gen(w))
    /\ StoreStep(w, "requeue_claim")

SettleNotSent(w) ==
    /\ pc[w] = "post_settle" /\ mem[w].reply \in {"not_sent", "busy"}
    /\ MoveToUncertain(Job(w), w, Gen(w))
    /\ StoreStep(w, "requeue_claim")

RequeueClaim(w) ==
    /\ pc[w] \in {"requeue_claim", "requeue_again"}
    /\ \/ /\ ClaimJob(Job(w), w, FALSE, clock)
          /\ Fence(w, Job(w), IF pc[w] = "requeue_claim" THEN "requeue_retry"
                              ELSE "requeue_schedule")
       \/ /\ ClaimNothing(Job(w), FALSE, clock)
          /\ StoreStep(w, "idle")

RequeueRetry(w) ==
    /\ pc[w] = "requeue_retry"
    /\ Retry(Job(w), w, Gen(w))
    /\ StoreStep(w, "requeue_again")

RequeueSchedule(w) ==
    /\ pc[w] = "requeue_schedule"
    /\ \E due \in {clock, clock + 1} : Schedule(Job(w), w, Gen(w), due)
    /\ StoreStep(w, "idle")

---------------------------------------------------------------------------
(* _run_reconciliation                                                            *)

Matches(marker) == {r \in RemoteIds : recordings[r].marker = marker}

(* The search answers with what the server holds now; the worker acts on it later. *)
Reconcile(w) ==
    /\ pc[w] = "reconcile"
    /\ Renew(Job(w), w, Gen(w))
    /\ LET found == Matches(jobs[Job(w)].token) IN
       /\ mem' = [mem EXCEPT ![w].remote =
                    IF Cardinality(found) = 1 THEN CHOOSE r \in found : TRUE ELSE NoRemote]
       /\ Goto(w, "reconcile_tags")
    /\ UNCHANGED <<minted, wire, recordings, authorised>>

ReconcileUnavailable(w) ==
    /\ pc[w] = "reconcile"
    /\ \/ \E due \in {clock, clock + 1} : Schedule(Job(w), w, Gen(w), due)
       \/ Block(Job(w), w, Gen(w))
    /\ StoreStep(w, "idle")

ReconcileNoMatch(w) ==
    /\ pc[w] = "reconcile_tags" /\ mem[w].remote = NoRemote
    /\ TerminalUncertain(Job(w), w, Gen(w))
    /\ StoreStep(w, "idle")

ReconcileTags(w) ==
    /\ pc[w] = "reconcile_tags" /\ mem[w].remote # NoRemote
    /\ ResolveReconciledTags(Job(w), w, Gen(w))
    /\ StoreStep(w, "reconcile_accept")

ReconcileAccept(w) ==
    /\ pc[w] = "reconcile_accept"
    /\ AcceptTransfer(Job(w), w, Gen(w), "uncertain", mem[w].remote)
    /\ StoreStep(w, "reclaim")

---------------------------------------------------------------------------
(* _run_patch                                                                     *)

PatchStage(w) ==
    /\ pc[w] = "patch_stage"
    /\ Renew(Job(w), w, Gen(w))
    /\ mem' = [mem EXCEPT ![w].remote = jobs[Job(w)].remote]
    /\ Goto(w, "patch_send")
    /\ UNCHANGED <<minted, wire, recordings, authorised>>

Patched(remote) == recordings' = [recordings EXCEPT ![remote].patched = TRUE]

PatchSend(w) ==
    /\ pc[w] = "patch_send"
    /\ Patched(mem[w].remote)
    /\ Goto(w, "patch_done")
    /\ UNCHANGED <<storeVars, mem, minted, wire, authorised>>

(* Unavailable or retryable, with the PATCH applied or not: try again later.  Any  *)
(* other rejection blocks the job.                                                 *)
PatchFails(w) ==
    /\ pc[w] = "patch_send"
    /\ \/ /\ \E due \in {clock, clock + 1} : Schedule(Job(w), w, Gen(w), due)
          /\ UNCHANGED recordings \/ Patched(mem[w].remote)
       \/ /\ Block(Job(w), w, Gen(w))
          /\ UNCHANGED recordings
    /\ Goto(w, "idle")
    /\ mem' = [mem EXCEPT ![w] = Nothing]
    /\ UNCHANGED <<minted, wire, authorised>>

PatchDone(w) ==
    /\ pc[w] = "patch_done"
    /\ MarkPublished(Job(w), w, Gen(w))
    /\ StoreStep(w, "idle")

---------------------------------------------------------------------------
(* Operator commands, none of which holds a lease.                                *)

Enqueue(j) ==
    /\ \E path \in Paths, tags \in SUBSET Tags : Create(j, path, tags)
    /\ UNCHANGED publisherVars

OperatorRetry(j) ==
    /\ Retry(j, NoOwner, 0)
    /\ IF jobs[j].state = "uncertain"
       THEN authorised[j] < MaxRetries /\ authorised' = [authorised EXCEPT ![j] = @ + 1]
       ELSE UNCHANGED authorised
    /\ UNCHANGED <<pc, mem, minted, wire, recordings>>

OperatorRelink(j) ==
    /\ \E path \in Paths : Relink(j, NoOwner, 0, path)
    /\ UNCHANGED publisherVars

OperatorForget(j) ==
    /\ Forget(j)
    /\ UNCHANGED publisherVars

RenameCallback ==
    /\ \E old, new \in Paths, identified \in SUBSET Jobs : UpdatePath(old, new, identified)
    /\ UNCHANGED publisherVars

---------------------------------------------------------------------------
Init ==
    /\ StoreInit
    /\ pc = [w \in Owners |-> "idle"]
    /\ mem = [w \in Owners |-> Nothing]
    /\ minted = 0
    /\ wire = {}
    /\ recordings = <<>>
    /\ authorised = [j \in Jobs |-> 0]

Post(w) ==
    \/ PostStage(w) \/ ResolveTags(w) \/ PostBegin(w) \/ PostRenew(w) \/ PostSend(w)
    \/ UploadTimeout(w) \/ Accept(w)
    \/ SettleUnknown(w) \/ SettleRefused(w) \/ SettleNotSent(w)
    \/ RequeueClaim(w) \/ RequeueRetry(w) \/ RequeueSchedule(w)

ReconcileOrPatch(w) ==
    \/ Reconcile(w) \/ ReconcileUnavailable(w) \/ ReconcileNoMatch(w)
    \/ ReconcileTags(w) \/ ReconcileAccept(w)
    \/ PatchStage(w) \/ PatchSend(w) \/ PatchFails(w) \/ PatchDone(w)

Worker(w) ==
    \/ \E j \in Jobs : Start(w, j) \/ StartNothing(w, j) \/ StartBlock(w, j)
    \/ BlockConfiguration(w) \/ Reclaim(w)
    \/ Heartbeat(w) \/ Stop(w)
    \/ LocalFailure(w) \/ MetadataFailure(w) \/ RefreshPath(w)
    \/ Post(w) \/ ReconcileOrPatch(w)

Server == \E request \in wire : ServerStores(request) \/ ServerRefuses(request)

Operator(j) == Enqueue(j) \/ OperatorRetry(j) \/ OperatorRelink(j) \/ OperatorForget(j)

Passage == Tick /\ UNCHANGED publisherVars

Next ==
    \/ \E w \in Owners : Worker(w)
    \/ \E j \in Jobs : Operator(j)
    \/ RenameCallback \/ Server \/ Passage

Spec == Init /\ [][Next]_vars

---------------------------------------------------------------------------
(* Properties.                                                                    *)

Copies(j) == {r \in RemoteIds : recordings[r].job = j}

(* "Uncertain media transfers are not automatically resent": the server holds at   *)
(* most one recording of a job, plus one for each time an operator retried it while *)
(* its outcome was uncertain, whatever workers crash, stall or overlap.            *)
NoUnauthorisedDuplicate ==
    \A j \in Jobs : Cardinality(Copies(j)) <= 1 + authorised[j]

(* A row that knows its remote recording names a copy of its own media, uploaded   *)
(* with the row's current marker; the tags it reports as effective are exactly the *)
(* tags that copy was submitted with; once published that copy has the metadata,   *)
(* and no other copy of the media ever gets it.                                    *)
RemoteIsOwnCopy ==
    \A j \in Jobs : Exists(j) /\ jobs[j].remote # NoRemote =>
        LET r == jobs[j].remote IN
        /\ r \in RemoteIds
        /\ recordings[r].job = j /\ recordings[r].marker = jobs[j].token
        /\ jobs[j].outcome = "known" => recordings[r].tags = jobs[j].effective
        /\ jobs[j].outcome # "known" => recordings[r].tags = jobs[j].frozen
        /\ jobs[j].state = "published" => recordings[r].patched
        /\ \A other \in Copies(j) \ {r} : ~recordings[other].patched

---------------------------------------------------------------------------
(* The publisher implements the lifecycle of PublicationLifecycle.                 *)

(* A job that is blocked or missing stands where its resume intent would take it,  *)
(* and so does one that is queued, uncertain or pending.                          *)
ResumeStage(intent) ==
    CASE intent = "post" -> "waiting"
      [] intent = "reconcile" -> "doubtful"
      [] OTHER -> "uploaded"

StageOf(r) ==
    CASE r.state = "absent" -> "absent"
      [] r.state = "forgotten" -> "gone"
      [] r.state = "transferring" -> "sending"
      [] r.state \in {"published", "local_removed"} -> "published"
      [] OTHER -> ResumeStage(r.intent)

(* Senders past their last look at the lease whose request has not left yet.       *)
Leaving(j) == {w \in Owners : pc[w] = "post_send" /\ Job(w) = j}
Transit(j) == {request \in wire : request.job = j}

Lifecycle == INSTANCE PublicationLifecycle WITH
    Jobs <- Jobs,
    stage <- [j \in Jobs |-> StageOf(jobs[j])],
    permits <- [j \in Jobs |-> 1 + authorised[j]
        - Cardinality(Leaving(j)) - Cardinality(Transit(j)) - Cardinality(Copies(j))],
    leaving <- [j \in Jobs |-> Cardinality(Leaving(j))],
    transit <- [j \in Jobs |-> Cardinality(Transit(j))],
    copies <- [j \in Jobs |-> Cardinality(Copies(j))],
    described <- [j \in Jobs |-> \E r \in Copies(j) : recordings[r].patched]

(* Two workers, leases that run out between the last look at them and the request, *)
(* lost replies and late arrivals keep the promise of the lifecycle: every step is *)
(* one of its steps or none of its business.                                       *)
ImplementsLifecycle == Lifecycle!Spec

(* "TransferNotSent and a completed 429 are the only automatic POST requeue cases": *)
(* an uncertain row returns to POST without an operator only when no request or     *)
(* recording bears the marker of the transfer that left it uncertain.              *)
AutoRequeueOnlyUnsent ==
    [][\A j \in Jobs :
          jobs[j].state = "uncertain" /\ jobs'[j].state = "queued"
                /\ authorised'[j] = authorised[j] =>
             /\ \A request \in wire : request.marker # jobs[j].token
             /\ Matches(jobs[j].token) = {}]_vars

============================================================================
