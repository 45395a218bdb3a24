------------------------- MODULE PublicationStore -------------------------
(* The durable store of Speakr publication jobs: meeting_recorder/speakr_store.py *)
(* over the rows of meeting_recorder/speakr_domain.py.  Every public operation    *)
(* is one SQLite transaction, hence one action here: it either commits one row    *)
(* update (or one update of a whole cleanup group) or raises and changes nothing. *)
(*                                                                                *)
(* The module is open: its clients are publication workers (Owners), cleanup      *)
(* commands (Cleaners) and an operator, in any order the fences permit.           *)
(* SpeakrPublisher and SpeakrCleanup compose it with the programs that call it.   *)
EXTENDS Integers, FiniteSets

CONSTANTS
    Jobs,           \* stable job IDs: a fresh uuid4 per created row, never reused
    Origins, Shas,  \* Speakr origins and recording SHA-256 digests
    KeyOf,          \* [Jobs -> Origins \X Shas]: the UNIQUE key a row is created for
    Paths, NoPath,  \* private media paths, and SQL NULL
    Owners,         \* publication worker IDs
    Cleaners,       \* owner names of cleanup claims
    NoOwner,        \* SQL NULL in both lease_owner columns
    Markers, NoMarker,   \* reconciliation tokens, and SQL NULL
    Remotes, NoRemote,   \* remote recording IDs, and SQL NULL
    Tags,           \* Speakr tags
    Intents,        \* cleanup intent IDs
    LeaseMs,        \* publication lease duration, in clock steps
    CleanupLeaseMs, \* cleanup lease duration, in clock steps
    MaxClock,       \* bound: last clock reading explored
    MaxGen,         \* bound: publication claims of one row
    MaxCleanupGen   \* bound: cleanup claims of one row

ASSUME StoreAssumption ==
    /\ KeyOf \in [Jobs -> Origins \X Shas]
    /\ NoPath \notin Paths
    /\ NoOwner \notin Owners /\ NoOwner \notin Cleaners
    /\ NoMarker \notin Markers
    /\ NoRemote \notin Remotes
    /\ LeaseMs \in Nat \ {0} /\ CleanupLeaseMs \in Nat \ {0}
    /\ MaxClock \in Nat /\ MaxGen \in Nat /\ MaxCleanupGen \in Nat

VARIABLES
    jobs,       \* table publications, one row per job ID
    intents,    \* tables cleanup_intents and cleanup_intent_members
    clock       \* the wall clock every operation reads once (0 stands for NULL)

storeVars == <<jobs, intents, clock>>

(* PublicationState, with "absent" for an ID no row has yet and "forgotten" for   *)
(* an ID whose row an operator deleted.                                           *)
LiveStates == {"queued", "transferring", "metadata_pending", "published",
               "uncertain", "blocked", "missing", "local_removed"}
States == LiveStates \cup {"absent", "forgotten"}
Operations == {"post", "patch", "reconcile", "none"}
ResumeIntents == {"post", "patch", "reconcile", "none"}
PhaseOrder == <<"prepared", "sidecar_quarantined", "media_quarantined",
                "sidecar_unlinked", "media_unlinked">>
Phases == {PhaseOrder[n] : n \in 1..5}

(* effective_tags, missing_tags and upload_tags_unknown together: undecided (both  *)
(* NULL), known (frozen tags split in two) or unknown (NULL, flag set).            *)
TagOutcomes == {"undecided", "known", "unknown"}

Row == [state : States, op : Operations, intent : ResumeIntents,
        token : Markers \cup {NoMarker}, remote : Remotes \cup {NoRemote},
        path : Paths \cup {NoPath}, due : Nat,
        owner : Owners \cup {NoOwner}, gen : Nat, expires : Nat,
        started : Nat, accepted : Nat, published : Nat, removed : Nat,
        created : Nat, updated : Nat,
        cOwner : Cleaners \cup {NoOwner}, cGen : Nat, cExpires : Nat,
        frozen : SUBSET Tags, effective : SUBSET Tags, outcome : TagOutcomes]

NoRow == [state |-> "absent", op |-> "none", intent |-> "none",
          token |-> NoMarker, remote |-> NoRemote, path |-> NoPath, due |-> 0,
          owner |-> NoOwner, gen |-> 0, expires |-> 0,
          started |-> 0, accepted |-> 0, published |-> 0, removed |-> 0,
          created |-> 0, updated |-> 0,
          cOwner |-> NoOwner, cGen |-> 0, cExpires |-> 0,
          frozen |-> {}, effective |-> {}, outcome |-> "undecided"]

IntentRow == [phase : Phases \cup {"none"}, path : Paths \cup {NoPath},
              members : SUBSET Jobs, gens : [Jobs -> Nat]]

NoGens == [j \in Jobs |-> 0]
NoIntent == [phase |-> "none", path |-> NoPath, members |-> {}, gens |-> NoGens]

OriginOf(j) == KeyOf[j][1]
ShaOf(j) == KeyOf[j][2]

Later(a, b) == IF a >= b THEN a ELSE b
Earlier(a, b) == IF a <= b THEN a ELSE b

---------------------------------------------------------------------------
(* What a row may look like: the CHECK constraints of the table and the           *)
(* __post_init__ validation of PublicationJob, which raise and roll back.         *)

ReconciliationEligible(r) ==
    r.state = "uncertain" /\ r.op = "reconcile" /\ r.remote = NoRemote
        /\ r.token # NoMarker

HttpMethod(r) ==
    CASE r.state = "queued" /\ r.op = "post" /\ r.remote = NoRemote -> "POST"
      [] r.state = "metadata_pending" /\ r.op = "patch" /\ r.remote # NoRemote -> "PATCH"
      [] OTHER -> "NONE"

Claimable(r) == HttpMethod(r) \in {"POST", "PATCH"} \/ ReconciliationEligible(r)

LeasesPaired(r) ==
    /\ (r.owner = NoOwner) <=> (r.expires = 0)
    /\ (r.cOwner = NoOwner) <=> (r.cExpires = 0)
    /\ r.cOwner # NoOwner => r.state = "published" /\ r.cGen >= 1

(* The state, operation, resume intent and remote ID of a row agree.              *)
PhaseCoherent(r) ==
    CASE r.state = "queued" ->
            r.remote = NoRemote /\ r.op = "post" /\ r.intent = "post"
      [] r.state = "transferring" ->
            r.remote = NoRemote /\ r.op = "none" /\ r.intent = "post"
                /\ r.token # NoMarker
      [] r.state = "metadata_pending" ->
            r.remote # NoRemote /\ r.op = "patch" /\ r.intent = "patch"
      [] r.state = "published" ->
            r.remote # NoRemote /\ r.op = "none" /\ r.intent = "none"
      [] r.state = "uncertain" ->
            r.remote = NoRemote /\ r.op \in {"none", "reconcile"}
                /\ r.intent = "reconcile" /\ r.token # NoMarker
      [] r.state \in {"blocked", "missing"} ->
            /\ r.op = "none"
            /\ \/ r.intent \in {"post", "reconcile"} /\ r.remote = NoRemote
               \/ r.intent = "patch" /\ r.remote # NoRemote
               \/ r.intent = "none"
      [] r.state = "local_removed" ->
            r.op = "none" /\ r.intent = "none" /\ r.path = NoPath
                /\ r.token = NoMarker /\ r.owner = NoOwner /\ r.cOwner = NoOwner
                /\ r.cGen = 0 /\ r.due = 0 /\ r.remote # NoRemote
      [] OTHER -> FALSE

TimesOrdered(r) ==
    /\ r.state = "transferring" => r.started > 0
    /\ r.state \in {"metadata_pending", "published", "local_removed"} =>
          r.started > 0 /\ r.accepted > 0 /\ r.started <= r.accepted
    /\ r.state \in {"published", "local_removed"} =>
          r.published > 0 /\ r.accepted <= r.published
    /\ r.state = "local_removed" => r.removed > 0 /\ r.published <= r.removed
    /\ r.created <= r.updated

TagsCoherent(r) ==
    /\ r.effective \subseteq r.frozen
    /\ r.outcome # "known" => r.effective = {}

RowOK(r) ==
    /\ LeasesPaired(r) /\ PhaseCoherent(r) /\ TimesOrdered(r) /\ TagsCoherent(r)
    /\ r.path = NoPath => r.state \in {"missing", "local_removed"}

Exists(j) == jobs[j].state \in LiveStates

(* _update_job: the new row must validate, or the transaction rolls back.         *)
Commit(j, new) ==
    /\ RowOK(new)
    /\ jobs' = [jobs EXCEPT ![j] = new]
    /\ UNCHANGED <<intents, clock>>

---------------------------------------------------------------------------
(* Fences and leases.                                                             *)

(* Mutant: an expired lease still fences.                                         *)
FencedWhenExpired(r, owner, gen) ==
    r.cOwner = NoOwner /\ r.owner = owner /\ (owner = NoOwner \/ r.gen = gen)

(* Mutant: a cleanup lease does not stop other callers.                           *)
FencedUnderCleanup(r, owner, gen) ==
    IF owner = NoOwner THEN r.owner = NoOwner
    ELSE r.owner = owner /\ r.gen = gen /\ r.expires > clock

(* _fence: no cleanup lease, and either no lease at all (a caller that names no   *)
(* owner) or exactly the caller's unexpired lease.                                *)
Fenced(r, owner, gen) ==
    /\ r.cOwner = NoOwner
    /\ IF owner = NoOwner THEN r.owner = NoOwner
       ELSE r.owner = owner /\ r.gen = gen /\ r.expires > clock

(* An upload without a durable remote ID must be reconciled, never resent.        *)
AsUncertain(r, due, now) ==
    [r EXCEPT !.state = "uncertain", !.op = "reconcile", !.intent = "reconcile",
              !.owner = NoOwner, !.expires = 0, !.due = due,
              !.updated = Later(now, r.created)]

(* Mutants: recovery leaves lease_expires_at behind, or sends an interrupted       *)
(* upload again.                                                                   *)
RecoveredHalfLease(r, now) ==
    IF r.owner = NoOwner \/ r.expires > now THEN r ELSE [r EXCEPT !.owner = NoOwner]

RecoveredToPost(r, now) ==
    IF r.owner = NoOwner \/ r.expires > now THEN r
    ELSE IF r.state = "transferring"
    THEN [r EXCEPT !.state = "queued", !.op = "post", !.token = NoMarker,
                   !.owner = NoOwner, !.expires = 0, !.due = now]
    ELSE [r EXCEPT !.owner = NoOwner, !.expires = 0]

(* _recover_expired on one row.                                                   *)
Recovered(r, now) ==
    IF r.owner = NoOwner \/ r.expires > now THEN r
    ELSE IF r.state = "transferring" THEN AsUncertain(r, now, now)
    ELSE [r EXCEPT !.owner = NoOwner, !.expires = 0,
                   !.due = IF Claimable(r) THEN Earlier(r.due, now) ELSE r.due,
                   !.updated = Later(now, r.created)]

(* A row claim_one, or claim_for_action when the deadline is ignored, will fence. *)
ClaimableNow(r, anyDeadline, now) ==
    /\ Claimable(r)
    /\ r.owner = NoOwner /\ r.cOwner = NoOwner
    /\ anyDeadline \/ r.due <= now

Claimed(r, w, now) ==
    [r EXCEPT !.owner = w, !.gen = r.gen + 1, !.expires = now + LeaseMs,
              !.updated = Later(now, r.created)]

(* claim_one(reference) and claim_for_action: every expired lease is recovered    *)
(* first, in the same transaction; the claim may then still find nothing to do.   *)
(* The caller passes now: run_due passes the reading its batch began with.        *)
ClaimSucceeds(j, anyDeadline, now) ==
    Exists(j) /\ ClaimableNow(Recovered(jobs[j], now), anyDeadline, now)

ClaimJob(j, w, anyDeadline, now) ==
    /\ ClaimSucceeds(j, anyDeadline, now)
    /\ jobs[j].gen < MaxGen
    /\ jobs' = [k \in Jobs |-> IF k = j THEN Claimed(Recovered(jobs[k], now), w, now)
                               ELSE Recovered(jobs[k], now)]
    /\ UNCHANGED <<intents, clock>>

ClaimNothing(j, anyDeadline, now) ==
    /\ ~ ClaimSucceeds(j, anyDeadline, now)
    /\ jobs' = [k \in Jobs |-> Recovered(jobs[k], now)]
    /\ UNCHANGED <<intents, clock>>

Renew(j, w, gen) ==
    /\ Exists(j) /\ Fenced(jobs[j], w, gen)
    /\ Commit(j, [jobs[j] EXCEPT !.expires = clock + LeaseMs,
                                 !.updated = Later(clock, jobs[j].created)])

Release(j, w, gen, due) ==
    /\ Exists(j) /\ Fenced(jobs[j], w, gen)
    /\ Commit(j, [jobs[j] EXCEPT !.owner = NoOwner, !.expires = 0, !.due = due,
                                 !.updated = Later(clock, jobs[j].created)])

(* schedule: a worker that began a POST cannot schedule another POST directly.    *)
Schedule(j, w, gen, due) ==
    /\ Exists(j) /\ Fenced(jobs[j], w, gen)
    /\ Commit(j, IF jobs[j].state = "transferring" THEN AsUncertain(jobs[j], due, clock)
                 ELSE [jobs[j] EXCEPT !.owner = NoOwner, !.expires = 0, !.due = due,
                                      !.updated = Later(clock, jobs[j].created)])

---------------------------------------------------------------------------
(* create_or_reuse, and the state machine of transition().                        *)

(* A row with this key already exists: create_or_reuse returns it unchanged.      *)
KeyTaken(k) == \E j \in Jobs : Exists(j) /\ KeyOf[j] = k

Create(j, path, tags) ==
    /\ jobs[j].state = "absent" /\ ~ KeyTaken(KeyOf[j])
    /\ Commit(j, [NoRow EXCEPT !.state = "queued", !.op = "post", !.intent = "post",
                               !.path = path, !.due = clock, !.frozen = tags,
                               !.created = clock, !.updated = clock])

AllowedTargets ==
    [s \in LiveStates |->
        CASE s = "queued" -> {"transferring", "metadata_pending", "uncertain", "blocked", "missing"}
          [] s = "transferring" -> {"metadata_pending", "uncertain", "blocked", "missing"}
          [] s = "metadata_pending" -> {"published", "blocked", "missing"}
          [] s = "uncertain" -> {"metadata_pending", "blocked", "missing"}
          [] OTHER -> {}]

(* The operation and resume intent a state implies; blocked and missing keep the  *)
(* intent an operator may resume later, uncertain the operation asked for.        *)
OperationIn(target, requested) ==
    CASE target = "queued" -> "post"
      [] target = "metadata_pending" -> "patch"
      [] target = "uncertain" -> requested
      [] OTHER -> "none"

IntentIn(target, old) ==
    CASE target \in {"queued", "transferring"} -> "post"
      [] target = "metadata_pending" -> "patch"
      [] target = "uncertain" -> "reconcile"
      [] target = "published" -> "none"
      [] OTHER -> old

(* The row transition() writes: remote and token are the values the caller        *)
(* passes, or the null value when it passes none.                                 *)
Transitioned(r, target, remote, token, requested) ==
    LET at == Later(clock, r.updated) IN
    [r EXCEPT
        !.state = target,
        !.op = OperationIn(target, requested),
        !.intent = IntentIn(target, r.intent),
        !.remote = IF target \in {"queued", "transferring", "uncertain"} THEN NoRemote
                   ELSE IF remote = NoRemote THEN r.remote ELSE remote,
        !.token = IF target = "queued" THEN NoMarker
                  ELSE IF token = NoMarker THEN r.token ELSE token,
        !.owner = IF target = "transferring" THEN r.owner ELSE NoOwner,
        !.expires = IF target = "transferring" THEN r.expires ELSE 0,
        !.started = IF target = "transferring" THEN at ELSE r.started,
        !.accepted = IF target = "metadata_pending" /\ r.accepted = 0 THEN at ELSE r.accepted,
        !.published = IF target = "published" THEN at ELSE r.published,
        !.updated = at]

MayTransition(j, w, gen, sources, target) ==
    /\ Exists(j) /\ Fenced(jobs[j], w, gen)
    /\ jobs[j].state \in sources
    /\ target = jobs[j].state \/ target \in AllowedTargets[jobs[j].state]

Transition(j, w, gen, sources, target, remote, token, requested) ==
    /\ MayTransition(j, w, gen, sources, target)
    /\ Commit(j, Transitioned(jobs[j], target, remote, token, requested))

(* The transitions the publisher asks for, each with its expected_state.          *)
BeginTransfer(j, w, gen, marker) ==
    Transition(j, w, gen, {"queued"}, "transferring", NoRemote, marker, "none")
AcceptTransfer(j, w, gen, source, remote) ==
    Transition(j, w, gen, {source}, "metadata_pending", remote, NoMarker, "none")
MoveToUncertain(j, w, gen) ==
    Transition(j, w, gen, {"transferring"}, "uncertain", NoRemote, NoMarker, "reconcile")
TerminalUncertain(j, w, gen) ==
    Transition(j, w, gen, {"uncertain"}, "uncertain", NoRemote, NoMarker, "none")
Block(j, w, gen) ==
    Transition(j, w, gen, LiveStates, "blocked", NoRemote, NoMarker, "none")
MarkMissing(j, w, gen) ==
    Transition(j, w, gen, LiveStates, "missing", NoRemote, NoMarker, "none")
MarkPublished(j, w, gen) ==
    Transition(j, w, gen, LiveStates \ {"published"}, "published", NoRemote, NoMarker, "none")

---------------------------------------------------------------------------
(* Tag outcomes.                                                                  *)

UpdateTagStatus(j, w, gen, outcome, effective) ==
    /\ Exists(j) /\ Fenced(jobs[j], w, gen)
    /\ jobs[j].state = "queued"
    /\ Commit(j, [jobs[j] EXCEPT !.effective = effective, !.outcome = outcome,
                                 !.updated = Later(clock, jobs[j].created)])

(* A unique marker match proves the POST reached Speakr with its frozen tags.     *)
TagsReconciled(r) ==
    [r EXCEPT !.effective = IF r.outcome = "unknown" THEN r.frozen ELSE r.effective,
              !.outcome = IF r.outcome = "unknown" THEN "known" ELSE r.outcome,
              !.updated = Later(clock, r.created)]

ResolveReconciledTags(j, w, gen) ==
    /\ Exists(j) /\ Fenced(jobs[j], w, gen)
    /\ ReconciliationEligible(jobs[j])
    /\ Commit(j, TagsReconciled(jobs[j]))

---------------------------------------------------------------------------
(* Operator operations: retry, relink, forget, and the rename callback.           *)

ResumeTarget(intent) ==
    CASE intent = "post" -> "queued"
      [] intent = "reconcile" -> "uncertain"
      [] intent = "patch" -> "metadata_pending"
      [] OTHER -> "refused"

(* Only an explicit retry takes an uncertain job back to POST.                    *)
RetryTarget(r) ==
    CASE r.state = "uncertain" -> "queued"
      [] r.state \in {"blocked", "missing"} -> ResumeTarget(r.intent)
      [] r.state \in {"queued", "metadata_pending"} -> r.state
      [] OTHER -> "refused"

(* Mutant: every retry starts the upload over.                                    *)
ResumedFromScratch(r, target, due) ==
    [r EXCEPT !.state = "queued", !.op = "post", !.intent = "post", !.token = NoMarker,
              !.remote = NoRemote, !.due = due, !.owner = NoOwner, !.expires = 0]

Resumed(r, target, due) ==
    [r EXCEPT !.state = target,
              !.op = OperationIn(target, "reconcile"),
              !.intent = IntentIn(target, r.intent),
              !.token = IF target = "queued" THEN NoMarker ELSE r.token,
              !.due = due, !.owner = NoOwner, !.expires = 0,
              !.updated = Later(clock, r.created)]

Retry(j, w, gen) ==
    /\ Exists(j) /\ Fenced(jobs[j], w, gen)
    /\ RetryTarget(jobs[j]) # "refused"
    /\ Commit(j, Resumed(jobs[j], RetryTarget(jobs[j]), clock))

(* Mutant: relink also brings a removed recording back.                           *)
RelinkedAfterRemoval(r, path) ==
    IF r.state \in {"missing", "local_removed"}
    THEN [Resumed(r, IF r.remote = NoRemote THEN "queued" ELSE "metadata_pending", clock)
            EXCEPT !.path = path]
    ELSE [r EXCEPT !.path = path]

(* relink: only a missing job is resumed; every other state keeps its phase.      *)
Relinked(r, path) ==
    IF r.state = "missing" /\ ResumeTarget(r.intent) # "refused"
    THEN [Resumed(r, ResumeTarget(r.intent), clock)
            EXCEPT !.path = path, !.owner = r.owner, !.expires = r.expires]
    ELSE [r EXCEPT !.path = path, !.updated = Later(clock, r.created)]

Relink(j, w, gen, path) ==
    /\ Exists(j) /\ Fenced(jobs[j], w, gen)
    /\ Commit(j, Relinked(jobs[j], path))

(* update_path: the rename callback moves the unleased rows of the old path whose  *)
(* recorded media identity is the renamed file's; relink leaves that record stale. *)
UpdatePath(old, new, identified) ==
    /\ jobs' = [j \in Jobs |->
                  IF Exists(j) /\ jobs[j].path = old /\ j \in identified
                        /\ jobs[j].owner = NoOwner /\ jobs[j].cOwner = NoOwner
                  THEN [jobs[j] EXCEPT !.path = new] ELSE jobs[j]]
    /\ UNCHANGED <<intents, clock>>

MemberOf(j) == {i \in Intents : j \in intents[i].members}

(* forget deletes the row; a row some cleanup journal names is kept by the        *)
(* ON DELETE RESTRICT foreign key.                                                *)
Forget(j) ==
    /\ Exists(j) /\ jobs[j].owner = NoOwner /\ jobs[j].cOwner = NoOwner
    /\ MemberOf(j) = {}
    /\ jobs' = [jobs EXCEPT ![j] = [NoRow EXCEPT !.state = "forgotten"]]
    /\ UNCHANGED <<intents, clock>>

---------------------------------------------------------------------------
(* The cleanup journal.                                                           *)

Group(path) == {j \in Jobs : Exists(j) /\ jobs[j].path = path}

FirstPhase == PhaseOrder[1]
LastPhase == PhaseOrder[5]
NextPhase(phase) ==
    PhaseOrder[1 + CHOOSE n \in 1..4 : PhaseOrder[n] = phase]

(* prepare_cleanup_intent: the members are the exact group of the path, all of    *)
(* the expected digest; UNIQUE(job_id) refuses a row another journal holds.       *)
PrepareIntent(i, path) ==
    LET members == Group(path) IN
    /\ intents[i].phase = "none"
    /\ members # {}
    /\ \A j \in members :
          /\ jobs[j].state = "published"
          /\ jobs[j].owner = NoOwner /\ jobs[j].cOwner = NoOwner
          /\ MemberOf(j) = {}
    /\ \A j, k \in members : ShaOf(j) = ShaOf(k)
    /\ intents' = [intents EXCEPT ![i] = [phase |-> FirstPhase, path |-> path,
                                          members |-> members, gens |-> NoGens]]
    /\ UNCHANGED <<jobs, clock>>

(* What every later operation asks of the members: unchanged since preparation.   *)
MembersUnchanged(i) ==
    /\ intents[i].phase # "none"
    /\ intents[i].members = Group(intents[i].path)
    /\ \A j \in intents[i].members :
          jobs[j].state = "published" /\ jobs[j].owner = NoOwner

ClaimGroup(i, c) ==
    /\ MembersUnchanged(i)
    /\ \A j \in intents[i].members :
          /\ jobs[j].cOwner = NoOwner \/ jobs[j].cExpires <= clock
          /\ jobs[j].cGen < MaxCleanupGen
    /\ jobs' = [j \in Jobs |->
                  IF j \in intents[i].members
                  THEN [jobs[j] EXCEPT !.cOwner = c, !.cGen = jobs[j].cGen + 1,
                                       !.cExpires = clock + CleanupLeaseMs,
                                       !.updated = Later(clock, jobs[j].created)]
                  ELSE jobs[j]]
    /\ intents' = [intents EXCEPT ![i].gens =
                     [j \in Jobs |-> IF j \in intents[i].members THEN jobs[j].cGen + 1 ELSE 0]]
    /\ UNCHANGED clock

(* _cleanup_claim_jobs: the claim the caller holds is the current one everywhere. *)
ClaimCurrent(i, claim) ==
    /\ MembersUnchanged(i)
    /\ intents[i].gens = claim.gens
    /\ \A j \in intents[i].members :
          /\ jobs[j].cOwner = claim.owner /\ jobs[j].cGen = claim.gens[j]
          /\ jobs[j].cExpires > clock

Advance(i, claim, phase) ==
    /\ intents[i].phase = phase /\ phase # LastPhase
    /\ ClaimCurrent(i, claim)
    /\ intents' = [intents EXCEPT ![i].phase = NextPhase(phase)]
    /\ UNCHANGED <<jobs, clock>>

RenewGroup(i, claim) ==
    /\ ClaimCurrent(i, claim)
    /\ jobs' = [j \in Jobs |->
                  IF j \in intents[i].members
                  THEN [jobs[j] EXCEPT !.cExpires = clock + CleanupLeaseMs,
                                       !.updated = Later(clock, jobs[j].created)]
                  ELSE jobs[j]]
    /\ UNCHANGED <<intents, clock>>

CleanupLeasesCleared(members) ==
    [j \in Jobs |-> IF j \in members
                    THEN [jobs[j] EXCEPT !.cOwner = NoOwner, !.cExpires = 0,
                                         !.updated = Later(clock, jobs[j].created)]
                    ELSE jobs[j]]

ReleaseGroup(i, claim) ==
    /\ intents[i].phase = FirstPhase
    /\ ClaimCurrent(i, claim)
    /\ jobs' = CleanupLeasesCleared(intents[i].members)
    /\ intents' = [intents EXCEPT ![i].gens = NoGens]
    /\ UNCHANGED clock

(* Mutant: the cleanup generation survives the removal.                           *)
LocallyRemovedWithGeneration(r) ==
    [r EXCEPT !.state = "local_removed", !.op = "none", !.intent = "none",
              !.path = NoPath, !.token = NoMarker, !.due = 0,
              !.cOwner = NoOwner, !.cExpires = 0,
              !.removed = Later(clock, r.published)]

LocallyRemoved(r) ==
    [r EXCEPT !.state = "local_removed", !.op = "none", !.intent = "none",
              !.path = NoPath, !.token = NoMarker, !.due = 0,
              !.owner = NoOwner, !.expires = 0,
              !.cOwner = NoOwner, !.cGen = 0, !.cExpires = 0,
              !.removed = Later(clock, r.published),
              !.updated = Later(clock, r.created)]

CompleteGroup(i, claim) ==
    /\ intents[i].phase = LastPhase
    /\ ClaimCurrent(i, claim)
    /\ \A j \in intents[i].members : RowOK(LocallyRemoved(jobs[j]))
    /\ jobs' = [j \in Jobs |-> IF j \in intents[i].members
                               THEN LocallyRemoved(jobs[j]) ELSE jobs[j]]
    /\ intents' = [intents EXCEPT ![i] = NoIntent]
    /\ UNCHANGED clock

(* Mutant: a claimed abort drops a journal whose files are already quarantined.   *)
AbortClaimedLate(i, claim) ==
    /\ ClaimCurrent(i, claim)
    /\ jobs' = CleanupLeasesCleared(intents[i].members)
    /\ intents' = [intents EXCEPT ![i] = NoIntent]
    /\ UNCHANGED clock

(* abort_cleanup_intent without a claim, and with one.                            *)
Abort(i) ==
    /\ intents[i].phase = FirstPhase
    /\ intents[i].members = Group(intents[i].path)
    /\ \A j \in intents[i].members :
          intents[i].gens[j] = 0 /\ jobs[j].cOwner = NoOwner
    /\ intents' = [intents EXCEPT ![i] = NoIntent]
    /\ UNCHANGED <<jobs, clock>>

AbortClaimed(i, claim) ==
    /\ intents[i].phase = FirstPhase
    /\ ClaimCurrent(i, claim)
    /\ jobs' = CleanupLeasesCleared(intents[i].members)
    /\ intents' = [intents EXCEPT ![i] = NoIntent]
    /\ UNCHANGED clock

---------------------------------------------------------------------------
(* The two snapshots workers plan by, due_job_ids and next_wake_at_ms.            *)

(* _due_predicate *)
SafeWork(r) ==
    /\ r.cOwner = NoOwner
    /\ \/ r.state = "queued" /\ r.op = "post" /\ r.intent = "post" /\ r.remote = NoRemote
       \/ r.state = "metadata_pending" /\ r.op = "patch" /\ r.intent = "patch"
             /\ r.remote # NoRemote
       \/ r.state = "uncertain" /\ r.op = "reconcile" /\ r.intent = "reconcile"
             /\ r.remote = NoRemote
       \/ r.state = "transferring" /\ r.op = "none" /\ r.intent = "post"
             /\ r.remote = NoRemote

(* Mutant: a lease that expires at this instant is not due yet.                   *)
DueIdsAfterExpiry(origin, now) ==
    {j \in Jobs : /\ Exists(j) /\ OriginOf(j) = origin
                  /\ SafeWork(jobs[j])
                  /\ \/ jobs[j].state # "transferring" /\ jobs[j].owner = NoOwner
                           /\ jobs[j].due <= now
                     \/ jobs[j].owner # NoOwner /\ jobs[j].expires < now}

DueIds(origin, now) ==
    {j \in Jobs : /\ Exists(j) /\ OriginOf(j) = origin
                  /\ SafeWork(jobs[j])
                  /\ \/ jobs[j].state # "transferring" /\ jobs[j].owner = NoOwner
                           /\ jobs[j].due <= now
                     \/ jobs[j].owner # NoOwner /\ jobs[j].expires <= now}

EffectiveDue(r) == IF r.owner # NoOwner THEN r.expires ELSE r.due

(* The deadlines next_wake_at_ms takes the least of; no deadline stands for None. *)
WakeDeadlines(origin, now) ==
    {Later(EffectiveDue(jobs[j]), now) :
        j \in {k \in Jobs : /\ Exists(k) /\ OriginOf(k) = origin
                            /\ SafeWork(jobs[k])
                            /\ jobs[k].state # "transferring" \/ jobs[k].owner # NoOwner}}

---------------------------------------------------------------------------
StoreInit ==
    /\ jobs = [j \in Jobs |-> NoRow]
    /\ intents = [i \in Intents |-> NoIntent]
    /\ clock = 1

Tick ==
    /\ clock < MaxClock
    /\ clock' = clock + 1
    /\ UNCHANGED <<jobs, intents>>

(* A fence names the current generation or it fails, so an arbitrary client may   *)
(* as well be given it; NoOwner is the operator, who holds no lease.              *)
FencedClients == Owners \cup {NoOwner}

ClaimSteps(j) ==
    \E w \in Owners, now \in 1..clock :
        \/ ClaimJob(j, w, FALSE, now)
        \/ now = clock /\ ClaimJob(j, w, TRUE, now)
        \/ ClaimNothing(j, FALSE, now)
        \/ now = clock /\ ClaimNothing(j, TRUE, now)

WorkerSteps(j) ==
    \E w \in Owners :
        LET gen == jobs[j].gen IN
        \/ Renew(j, w, gen)
        \/ Release(j, w, gen, clock)
        \/ \E due \in {clock, clock + 1} : Schedule(j, w, gen, due)
        \/ \E marker \in Markers : BeginTransfer(j, w, gen, marker)
        \/ \E remote \in Remotes, source \in {"transferring", "uncertain"} :
              AcceptTransfer(j, w, gen, source, remote)
        \/ MoveToUncertain(j, w, gen)
        \/ TerminalUncertain(j, w, gen)
        \/ Block(j, w, gen)
        \/ MarkMissing(j, w, gen)
        \/ MarkPublished(j, w, gen)
        \/ \E tags \in SUBSET jobs[j].frozen : UpdateTagStatus(j, w, gen, "known", tags)
        \/ UpdateTagStatus(j, w, gen, "unknown", {})
        \/ ResolveReconciledTags(j, w, gen)

OperatorSteps(j) ==
    \/ \E path \in Paths, tags \in SUBSET Tags : Create(j, path, tags)
    \/ \E w \in FencedClients : Retry(j, w, jobs[j].gen)
    \/ \E w \in FencedClients, path \in Paths : Relink(j, w, jobs[j].gen, path)
    \/ Forget(j)

CleanupSteps(i) ==
    \/ \E path \in Paths : PrepareIntent(i, path)
    \/ Abort(i)
    \/ \E c \in Cleaners :
          LET claim == [owner |-> c, gens |-> intents[i].gens] IN
          \/ ClaimGroup(i, c)
          \/ \E phase \in Phases : Advance(i, claim, phase)
          \/ RenewGroup(i, claim)
          \/ ReleaseGroup(i, claim)
          \/ CompleteGroup(i, claim)
          \/ AbortClaimed(i, claim)

StoreNext ==
    \/ \E j \in Jobs : ClaimSteps(j) \/ WorkerSteps(j) \/ OperatorSteps(j)
    \/ \E old, new \in Paths, identified \in SUBSET Jobs : UpdatePath(old, new, identified)
    \/ \E i \in Intents : CleanupSteps(i)
    \/ Tick

StoreSpec == StoreInit /\ [][StoreNext]_storeVars

---------------------------------------------------------------------------
(* Properties.                                                                    *)

(* Every row and journal entry holds values of its columns' types.                *)
TypeOK ==
    /\ jobs \in [Jobs -> Row]
    /\ intents \in [Intents -> IntentRow]
    /\ clock \in Nat

(* Every stored row still passes the validation that reading it performs, although *)
(* update_path, claim_cleanup_group and the lease updates write columns directly:  *)
(* no sequence of operations leaves a row that get() or list() would raise on.     *)
RowsValid == \A j \in Jobs : Exists(j) => RowOK(jobs[j])

(* With a clock that never steps back, the row validation never refuses to record  *)
(* an outcome the server or the filesystem has already made final: an accepted     *)
(* upload, a found marker, a finished PATCH, a removed file.                       *)
OutcomesDurable ==
    /\ \A j \in Jobs, remote \in Remotes :
          jobs[j].owner # NoOwner /\ jobs[j].state \in {"transferring", "uncertain"} =>
              RowOK(Transitioned(jobs[j], "metadata_pending", remote, NoMarker, "none"))
    /\ \A j \in Jobs : jobs[j].state = "metadata_pending" =>
              RowOK(Transitioned(jobs[j], "published", NoRemote, NoMarker, "none"))
    /\ \A j \in Jobs : jobs[j].state = "published" => RowOK(LocallyRemoved(jobs[j]))

(* Journals and cleanup leases hold each other.  From the first quarantine         *)
(* checkpoint to completion every row a journal names stays published, at the      *)
(* journal's path and leased under the journal's own generation: the removal of    *)
(* its file cannot be attributed to another state.  And a cleanup lease, which     *)
(* refuses every other operation and which no expiry clears, is always held for    *)
(* exactly one journal that can still drop it.                                     *)
JournalPinsMembers ==
    /\ \A i \in Intents : intents[i].phase \notin {"none", FirstPhase} =>
          /\ intents[i].members # {}
          /\ \A j \in intents[i].members :
                /\ jobs[j].state = "published" /\ jobs[j].path = intents[i].path
                /\ jobs[j].cOwner # NoOwner /\ jobs[j].cGen = intents[i].gens[j]
    /\ \A j \in Jobs :
          /\ \A i, k \in MemberOf(j) : i = k
          /\ jobs[j].cOwner # NoOwner =>
                /\ jobs[j].owner = NoOwner
                /\ \E i \in MemberOf(j) : intents[i].gens[j] = jobs[j].cGen

(* The two snapshots a worker plans by agree with what a claim accepts.  The SQL   *)
(* of due_job_ids selects exactly the rows the Python of claim_one accepts at that *)
(* instant; a worker that sleeps until next_wake_at_ms never sleeps past the       *)
(* instant a row becomes claimable; and when the wake is immediate there is work   *)
(* to take: it neither strands a row nor spins.                                    *)
DueWorkIsWoken ==
    /\ \A j \in Jobs : j \in DueIds(OriginOf(j), clock) <=> ClaimSucceeds(j, FALSE, clock)
    /\ \A o \in Origins :
        /\ \A j \in Jobs, t \in clock..(MaxClock + LeaseMs) :
              OriginOf(j) = o /\ ClaimSucceeds(j, FALSE, t) =>
                  \E d \in WakeDeadlines(o, clock) : d <= t
        /\ clock \in WakeDeadlines(o, clock) => DueIds(o, clock) # {}

(* Once a row knows its remote recording it keeps that recording until an operator *)
(* forgets the row: no retry, relink, recovery or cleanup turns it into a new POST.*)
KnownRemoteKept ==
    [][\A j \in Jobs : jobs[j].remote # NoRemote =>
          jobs'[j].remote = jobs[j].remote \/ jobs'[j].state = "forgotten"]_storeVars

(* What a lease that ran out leaves open: recovery takes it from the row, and a new *)
(* claim, in the same transaction or not, puts its own in place.                    *)
TakenOver(r, s) ==
    \E now \in r.expires..clock :
        \/ s = Recovered(r, now)
        \/ \E w \in Owners : s = Claimed(Recovered(r, now), w, now)

(* A row under an expired lease changes in no other way than by recovery or a new   *)
(* claim: whatever a worker paused past its expiry still remembers, it can neither  *)
(* finish, block, defer, retag, relink nor renew the row, nor can the operator or   *)
(* a rename act before recovery.  Under an expired cleanup lease the row changes    *)
(* only by a cleanup claim of a later generation.                                   *)
ExpiredLeaseFences ==
    [][\A j \in Jobs : jobs'[j] # jobs[j] =>
          /\ jobs[j].owner # NoOwner /\ jobs[j].expires <= clock =>
                TakenOver(jobs[j], jobs'[j])
          /\ jobs[j].cOwner # NoOwner /\ jobs[j].cExpires <= clock =>
                jobs'[j].cGen > jobs[j].cGen]_storeVars

(* "A post-quarantine journal is never rewound or implicitly released": it moves   *)
(* one phase at a time and disappears only with all its rows removed.              *)
JournalNeverRewound ==
    [][\A i \in Intents : intents[i].phase \notin {"none", FirstPhase} =>
          \/ intents'[i].phase = intents[i].phase
          \/ intents[i].phase # LastPhase /\ intents'[i].phase = NextPhase(intents[i].phase)
          \/ /\ intents[i].phase = LastPhase /\ intents'[i] = NoIntent
             /\ \A j \in intents[i].members : jobs'[j].state = "local_removed"]_storeVars

(* local_removed is final: the audit row of a removed recording is never resumed,  *)
(* relinked or claimed again; only forget deletes it.                              *)
RemovalIsFinal ==
    [][\A j \in Jobs : jobs[j].state = "local_removed" =>
          jobs'[j] = jobs[j] \/ jobs'[j].state = "forgotten"]_storeVars

============================================================================
