---------------------- MODULE PublicationStore_proofs ----------------------
(* Theorems about the durable store, for every set of jobs, workers, cleanups,     *)
(* paths and tags, every lease duration and every bound of PublicationStore.       *)
EXTENDS PublicationStore, TLAPS

---------------------------------------------------------------------------
(* What the operators on one row return: rows.                                    *)

(* The literals the store writes are values of their columns.                     *)
LEMMA StateNames ==
    /\ \A s \in {"queued", "uncertain", "local_removed", "forgotten", "absent"} : s \in States
    /\ \A s \in {"post", "patch", "reconcile", "none"} : s \in Operations /\ s \in ResumeIntents
    /\ LiveStates \subseteq States
BY DEF LiveStates, States, Operations, ResumeIntents

(* max() of two times is a time no earlier than either.                           *)
LEMMA LaterIsTime == \A a, b \in Nat : Later(a, b) \in Nat /\ Later(a, b) >= a /\ Later(a, b) >= b
BY DEF Later

(* _recover_expired writes a row.                                                 *)
LEMMA RecoveredType ==
    ASSUME NEW r \in Row, NEW now \in Nat
    PROVE  Recovered(r, now) \in Row
<1>1. Later(now, r.created) \in Nat
  BY DEF Later, Row
<1>2. (IF Claimable(r) THEN Earlier(r.due, now) ELSE r.due) \in Nat
  BY DEF Earlier, Row
<1>3. AsUncertain(r, now, now) \in Row
  BY <1>1, StateNames DEF AsUncertain, Row
<1>4. [r EXCEPT !.owner = NoOwner, !.expires = 0,
                !.due = IF Claimable(r) THEN Earlier(r.due, now) ELSE r.due,
                !.updated = Later(now, r.created)] \in Row
  BY <1>1, <1>2 DEF Row
<1>5. QED
  BY <1>3, <1>4 DEF Recovered

(* transition() writes a row, whatever state it is asked for.                     *)
LEMMA TransitionedType ==
    ASSUME clock \in Nat, NEW r \in Row, NEW target \in LiveStates,
           NEW remote \in Remotes \cup {NoRemote},
           NEW token \in Markers \cup {NoMarker}, NEW requested \in Operations
    PROVE  Transitioned(r, target, remote, token, requested) \in Row
<1> DEFINE newRemote == IF target \in {"queued", "transferring", "uncertain"} THEN NoRemote
                        ELSE IF remote = NoRemote THEN r.remote ELSE remote
           newToken == IF target = "queued" THEN NoMarker
                       ELSE IF token = NoMarker THEN r.token ELSE token
           newOwner == IF target = "transferring" THEN r.owner ELSE NoOwner
           newExpires == IF target = "transferring" THEN r.expires ELSE 0
           newStarted == IF target = "transferring" THEN Later(clock, r.updated) ELSE r.started
           newAccepted == IF target = "metadata_pending" /\ r.accepted = 0
                          THEN Later(clock, r.updated) ELSE r.accepted
           newPublished == IF target = "published" THEN Later(clock, r.updated) ELSE r.published
<1>1. OperationIn(target, requested) \in Operations
  BY DEF OperationIn, Operations
<1>2. IntentIn(target, r.intent) \in ResumeIntents
  BY DEF IntentIn, Row, ResumeIntents
<1>3. Later(clock, r.updated) \in Nat
  BY DEF Later, Row
<1>4. target \in States
  BY DEF States
<1>5. /\ newRemote \in Remotes \cup {NoRemote} /\ newToken \in Markers \cup {NoMarker}
      /\ newOwner \in Owners \cup {NoOwner}
  BY DEF Row
<1>6. newExpires \in Nat /\ newStarted \in Nat /\ newAccepted \in Nat /\ newPublished \in Nat
  BY <1>3 DEF Row
<1>7. Transitioned(r, target, remote, token, requested) =
        [r EXCEPT !.state = target, !.op = OperationIn(target, requested),
                  !.intent = IntentIn(target, r.intent), !.remote = newRemote,
                  !.token = newToken, !.owner = newOwner, !.expires = newExpires,
                  !.started = newStarted, !.accepted = newAccepted,
                  !.published = newPublished, !.updated = Later(clock, r.updated)]
  BY DEF Transitioned
<1> HIDE DEF newRemote, newToken, newOwner, newExpires, newStarted, newAccepted, newPublished
<1> DEFINE s == [r EXCEPT !.state = target, !.op = OperationIn(target, requested),
                          !.intent = IntentIn(target, r.intent), !.remote = newRemote,
                          !.token = newToken, !.owner = newOwner]
<1>8. s \in Row
  BY <1>1, <1>2, <1>4, <1>5 DEF Row
<1>9. Transitioned(r, target, remote, token, requested) =
        [s EXCEPT !.expires = newExpires, !.started = newStarted, !.accepted = newAccepted,
                  !.published = newPublished, !.updated = Later(clock, r.updated)]
  BY <1>7
<1> HIDE DEF s
<1>10. [s EXCEPT !.expires = newExpires, !.started = newStarted, !.accepted = newAccepted,
                  !.published = newPublished, !.updated = Later(clock, r.updated)] \in Row
  <2> DEFINE u == [s EXCEPT !.expires = newExpires, !.started = newStarted]
             w == [u EXCEPT !.accepted = newAccepted, !.published = newPublished]
  <2>1. u \in Row
    BY <1>6, <1>8 DEF Row
  <2>2. [s EXCEPT !.expires = newExpires, !.started = newStarted, !.accepted = newAccepted,
                  !.published = newPublished, !.updated = Later(clock, r.updated)] =
          [w EXCEPT !.updated = Later(clock, r.updated)]
    BY <1>8 DEF Row
  <2> HIDE DEF u
  <2>3. w \in Row
    BY <1>6, <2>1 DEF Row
  <2> HIDE DEF w
  <2>4. [w EXCEPT !.updated = Later(clock, r.updated)] \in Row
    BY <1>3, <2>3 DEF Row
  <2>5. QED
    BY <2>2, <2>4
<1>11. QED
  BY <1>9, <1>10

(* transition() never loses a remote ID, unless it goes back before acceptance.   *)
LEMMA TransitionedRemote ==
    ASSUME NEW r \in Row, NEW target \in LiveStates, NEW remote, NEW token, NEW requested,
           target \notin {"queued", "transferring", "uncertain"},
           remote = NoRemote \/ r.remote = NoRemote
    PROVE  r.remote # NoRemote => Transitioned(r, target, remote, token, requested).remote = r.remote
BY DEF Transitioned, Row

(* retry() and relink() resume to a row with the same remote ID.                  *)
LEMMA ResumedType ==
    ASSUME clock \in Nat, NEW r \in Row, NEW target \in LiveStates, NEW due \in Nat
    PROVE  Resumed(r, target, due) \in Row /\ Resumed(r, target, due).remote = r.remote
<1> DEFINE newToken == IF target = "queued" THEN NoMarker ELSE r.token
<1>1. OperationIn(target, "reconcile") \in Operations
  BY DEF OperationIn, Operations
<1>2. IntentIn(target, r.intent) \in ResumeIntents
  BY DEF IntentIn, Row, ResumeIntents
<1>3. Later(clock, r.created) \in Nat
  BY DEF Later, Row
<1>4. target \in States
  BY DEF States
<1>5. newToken \in Markers \cup {NoMarker}
  BY DEF Row
<1>6. Resumed(r, target, due) =
        [r EXCEPT !.state = target, !.op = OperationIn(target, "reconcile"),
                  !.intent = IntentIn(target, r.intent), !.token = newToken, !.due = due,
                  !.owner = NoOwner, !.expires = 0, !.updated = Later(clock, r.created)]
  BY DEF Resumed
<1> HIDE DEF newToken
<1> DEFINE s == [r EXCEPT !.state = target, !.op = OperationIn(target, "reconcile"),
                          !.intent = IntentIn(target, r.intent), !.token = newToken]
<1>7. s \in Row /\ s.remote = r.remote
  BY <1>1, <1>2, <1>4, <1>5 DEF Row
<1>8. Resumed(r, target, due) =
        [s EXCEPT !.due = due, !.owner = NoOwner, !.expires = 0,
                  !.updated = Later(clock, r.created)]
  BY <1>6
<1> HIDE DEF s
<1>9. [s EXCEPT !.due = due, !.owner = NoOwner, !.expires = 0,
                !.updated = Later(clock, r.created)] \in Row
  BY <1>3, <1>7 DEF Row
<1>10. [s EXCEPT !.due = due, !.owner = NoOwner, !.expires = 0,
                !.updated = Later(clock, r.created)].remote = s.remote
  BY <1>7 DEF Row
<1>11. QED
  BY <1>7, <1>8, <1>9, <1>10

(* complete_cleanup_group writes an audit row with the same remote ID.            *)
LEMMA LocallyRemovedType ==
    ASSUME clock \in Nat, NEW r \in Row
    PROVE  LocallyRemoved(r) \in Row /\ LocallyRemoved(r).remote = r.remote
<1> DEFINE s == [r EXCEPT !.state = "local_removed", !.op = "none", !.intent = "none",
                          !.path = NoPath, !.token = NoMarker, !.due = 0]
           t == [s EXCEPT !.owner = NoOwner, !.expires = 0,
                          !.cOwner = NoOwner, !.cGen = 0, !.cExpires = 0]
<1>1. Later(clock, r.published) \in Nat /\ Later(clock, r.created) \in Nat
  BY DEF Later, Row
<1>2. s \in Row /\ s.remote = r.remote
  BY StateNames DEF Row
<1>3. LocallyRemoved(r) = [t EXCEPT !.removed = Later(clock, r.published),
                                    !.updated = Later(clock, r.created)]
  BY DEF LocallyRemoved
<1> HIDE DEF s
<1>4. t \in Row /\ t.remote = s.remote
  BY <1>2 DEF Row
<1> HIDE DEF t
<1>5. [t EXCEPT !.removed = Later(clock, r.published),
                !.updated = Later(clock, r.created)] \in Row
  BY <1>1, <1>4 DEF Row
<1>6. [t EXCEPT !.removed = Later(clock, r.published),
                !.updated = Later(clock, r.created)].remote = t.remote
  BY <1>4 DEF Row
<1>7. QED
  BY <1>2, <1>3, <1>4, <1>5, <1>6

(* A lease change that touches nothing but the lease, the deadline and the time of  *)
(* the last update keeps a row valid.                                             *)
LEMMA LeaseEditValid ==
    ASSUME NEW r \in Row, RowOK(r), NEW s \in Row,
           s.state = r.state, s.op = r.op, s.intent = r.intent, s.token = r.token,
           s.remote = r.remote, s.path = r.path,
           s.started = r.started, s.accepted = r.accepted, s.published = r.published,
           s.removed = r.removed, s.created = r.created,
           s.cOwner = r.cOwner, s.cGen = r.cGen, s.cExpires = r.cExpires,
           s.frozen = r.frozen, s.effective = r.effective, s.outcome = r.outcome,
           (s.owner = NoOwner) <=> (s.expires = 0),
           s.updated >= s.created,
           r.state = "local_removed" => s.owner = NoOwner /\ s.due = 0
    PROVE  RowOK(s)
<1>1. LeasesPaired(s)
  BY DEF RowOK, LeasesPaired
<1>2. PhaseCoherent(s)
  BY DEF RowOK, PhaseCoherent
<1>3. TimesOrdered(s)
  BY DEF RowOK, TimesOrdered
<1>4. TagsCoherent(s)
  BY DEF RowOK, TagsCoherent
<1>5. QED
  BY <1>1, <1>2, <1>3, <1>4 DEF RowOK

(* An interrupted upload that recovery makes uncertain is a valid row.            *)
LEMMA AsUncertainValid ==
    ASSUME NEW r \in Row, RowOK(r), r.state = "transferring",
           NEW due \in Nat, NEW now \in Nat
    PROVE  RowOK(AsUncertain(r, due, now))
<1> DEFINE s == AsUncertain(r, due, now)
<1>1. Later(now, r.created) >= r.created /\ Later(now, r.created) \in Nat
  BY LaterIsTime DEF Row
<1>2. /\ s.state = "uncertain" /\ s.op = "reconcile" /\ s.intent = "reconcile"
      /\ s.owner = NoOwner /\ s.expires = 0 /\ s.updated = Later(now, r.created)
      /\ s.token = r.token /\ s.remote = r.remote /\ s.path = r.path
  BY DEF AsUncertain, Row
<1>3. /\ s.cOwner = r.cOwner /\ s.cExpires = r.cExpires /\ s.created = r.created
      /\ s.frozen = r.frozen /\ s.effective = r.effective /\ s.outcome = r.outcome
  BY DEF AsUncertain, Row
<1> HIDE DEF s
<1>4. r.remote = NoRemote /\ r.token # NoMarker /\ r.path # NoPath
  BY DEF RowOK, PhaseCoherent
<1>5. LeasesPaired(s)
  BY <1>2, <1>3 DEF RowOK, LeasesPaired
<1>6. PhaseCoherent(s)
  BY <1>2, <1>4 DEF PhaseCoherent
<1>7. TimesOrdered(s)
  BY <1>1, <1>2, <1>3 DEF TimesOrdered
<1>8. TagsCoherent(s)
  BY <1>3 DEF RowOK, TagsCoherent
<1>9. QED
  BY <1>2, <1>4, <1>5, <1>6, <1>7, <1>8 DEF RowOK, s

(* Recovery keeps every row valid, and changes no remote ID and no removed row.    *)
LEMMA RecoveredValid ==
    ASSUME NEW r \in Row, RowOK(r), NEW now \in Nat
    PROVE  /\ RowOK(Recovered(r, now))
           /\ Recovered(r, now).remote = r.remote
           /\ r.state = "local_removed" => Recovered(r, now) = r
<1>1. CASE r.owner = NoOwner \/ r.expires > now
  BY <1>1 DEF Recovered
<1>2. CASE ~ (r.owner = NoOwner \/ r.expires > now) /\ r.state = "transferring"
  <2>1. Recovered(r, now) = AsUncertain(r, now, now)
    BY <1>2 DEF Recovered
  <2>2. AsUncertain(r, now, now).remote = r.remote
    BY DEF AsUncertain, Row
  <2>3. QED
    BY <1>2, <2>1, <2>2, AsUncertainValid
<1>3. CASE ~ (r.owner = NoOwner \/ r.expires > now) /\ r.state # "transferring"
  <2> DEFINE due == IF Claimable(r) THEN Earlier(r.due, now) ELSE r.due
             s == [r EXCEPT !.owner = NoOwner, !.expires = 0, !.due = due,
                            !.updated = Later(now, r.created)]
  <2>1. Recovered(r, now) = s
    BY <1>3 DEF Recovered
  <2>2. r.state # "local_removed"
    BY <1>3 DEF RowOK, PhaseCoherent
  <2>3. Later(now, r.created) >= r.created
    BY LaterIsTime DEF Row
  <2>4. s \in Row
    BY <2>1, RecoveredType
  <2> HIDE DEF due
  <2>5. /\ s.state = r.state /\ s.op = r.op /\ s.intent = r.intent /\ s.token = r.token
        /\ s.remote = r.remote /\ s.path = r.path /\ s.started = r.started
        /\ s.accepted = r.accepted
    BY DEF Row
  <2>6. /\ s.published = r.published /\ s.removed = r.removed
        /\ s.created = r.created /\ s.cOwner = r.cOwner /\ s.cGen = r.cGen
        /\ s.cExpires = r.cExpires /\ s.frozen = r.frozen
        /\ s.effective = r.effective /\ s.outcome = r.outcome
    BY DEF Row
  <2>7. s.owner = NoOwner /\ s.expires = 0 /\ s.updated = Later(now, r.created)
    BY DEF Row
  <2> HIDE DEF s
  <2>8. RowOK(s)
    BY <2>2, <2>3, <2>4, <2>5, <2>6, <2>7, LeaseEditValid
  <2>9. QED
    BY <2>1, <2>2, <2>5, <2>8
<1>4. QED
  BY <1>1, <1>2, <1>3

(* A claim leaves the row it fences valid, and never fences an audit row.         *)
LEMMA ClaimedValid ==
    ASSUME NEW r \in Row, RowOK(r), Claimable(r),
           NEW w \in Owners, NEW now \in Nat
    PROVE  /\ Claimed(r, w, now) \in Row
           /\ RowOK(Claimed(r, w, now))
           /\ Claimed(r, w, now).remote = r.remote
           /\ r.state # "local_removed"
<1> DEFINE s == Claimed(r, w, now)
<1>1. Later(now, r.created) \in Nat /\ Later(now, r.created) >= r.created
  BY LaterIsTime DEF Row
<1>2. now + LeaseMs \in Nat /\ now + LeaseMs # 0 /\ r.gen + 1 \in Nat /\ w # NoOwner
  BY StoreAssumption DEF Row
<1>3. r.state # "local_removed"
  BY DEF Claimable, HttpMethod, ReconciliationEligible
<1>4. s \in Row
  BY <1>1, <1>2 DEF Claimed, Row
<1>5. /\ s.state = r.state /\ s.op = r.op /\ s.intent = r.intent /\ s.token = r.token
      /\ s.remote = r.remote /\ s.path = r.path /\ s.started = r.started
      /\ s.accepted = r.accepted
  BY DEF Claimed, Row
<1>6. /\ s.published = r.published /\ s.removed = r.removed
      /\ s.created = r.created /\ s.cOwner = r.cOwner /\ s.cGen = r.cGen
      /\ s.cExpires = r.cExpires /\ s.frozen = r.frozen
      /\ s.effective = r.effective /\ s.outcome = r.outcome
  BY DEF Claimed, Row
<1>7. s.owner = w /\ s.expires = now + LeaseMs /\ s.updated = Later(now, r.created)
  BY DEF Claimed, Row
<1> HIDE DEF s
<1>8. RowOK(s)
  BY <1>1, <1>2, <1>3, <1>4, <1>5, <1>6, <1>7, LeaseEditValid
<1>9. QED
  BY <1>3, <1>4, <1>5, <1>8 DEF s

---------------------------------------------------------------------------
(* The inductive invariant.  TypeOK is inductive, and RowsValid is relative to it. *)
(* The action properties need both, and that an ID without a row holds nothing     *)
(* that a row created for it would inherit.                                       *)

UnusedRowsBlank ==
    \A j \in Jobs : ~ Exists(j) => jobs[j].owner = NoOwner /\ jobs[j].remote = NoRemote

StoreInv == TypeOK /\ RowsValid /\ UnusedRowsBlank

(* What KnownRemoteKept and RemovalIsFinal say of one row in one step.             *)
Kept(j) ==
    /\ jobs[j].remote # NoRemote =>
          jobs'[j].remote = jobs[j].remote \/ jobs'[j].state = "forgotten"
    /\ jobs[j].state = "local_removed" =>
          jobs'[j] = jobs[j] \/ jobs'[j].state = "forgotten"

(* A row that passes validation is in a state of the schema.                      *)
LEMMA ValidRowsLive == \A r : RowOK(r) => r.state \in LiveStates
BY DEF RowOK, PhaseCoherent, LiveStates

(* Under the invariant every ID has a row, valid if the ID exists.                *)
LEMMA Rows ==
    ASSUME StoreInv, NEW j \in Jobs
    PROVE  jobs[j] \in Row /\ (Exists(j) => RowOK(jobs[j]))
BY DEF StoreInv, TypeOK, RowsValid

(* An ID without a row, and one whose row was deleted, are typed.                 *)
LEMMA NoRowType == NoRow \in Row /\ [NoRow EXCEPT !.state = "forgotten"] \in Row
<1>1. NoRow \in Row
  BY StateNames DEF NoRow, Row, TagOutcomes
<1>2. QED
  BY <1>1, StateNames DEF Row

(* Every step leaves each row alone, or leaves it valid with the remote ID it had   *)
(* and was not a removal's audit row, or deletes it.                              *)
LEMMA RowwiseStep ==
    ASSUME StoreInv,
           jobs' \in [Jobs -> Row], intents' \in [Intents -> IntentRow], clock' \in Nat,
           \A k \in Jobs :
              \/ jobs'[k] = jobs[k]
              \/ /\ RowOK(jobs'[k])
                 /\ jobs[k].remote # NoRemote => jobs'[k].remote = jobs[k].remote
                 /\ jobs[k].state # "local_removed"
              \/ jobs'[k] = [NoRow EXCEPT !.state = "forgotten"]
    PROVE  StoreInv' /\ \A k \in Jobs : Kept(k)
<1> DEFINE gone == [NoRow EXCEPT !.state = "forgotten"]
<1>1. /\ gone.state = "forgotten" /\ gone.state \notin LiveStates
      /\ gone.owner = NoOwner /\ gone.remote = NoRemote
  BY DEF NoRow, LiveStates
<1> HIDE DEF gone
<1>2. TypeOK'
  BY DEF TypeOK
<1>3. RowsValid'
  BY <1>1 DEF StoreInv, RowsValid, Exists, gone
<1>4. UnusedRowsBlank'
  BY <1>1, ValidRowsLive DEF StoreInv, UnusedRowsBlank, Exists, gone
<1>5. \A k \in Jobs : Kept(k)
  BY <1>1 DEF Kept, gone
<1>6. QED
  BY <1>2, <1>3, <1>4, <1>5 DEF StoreInv

(* _update_job: the validation it makes keeps the invariant.                      *)
LEMMA CommitStep ==
    ASSUME StoreInv, NEW j \in Jobs, NEW new \in Row, Commit(j, new),
           jobs[j].remote # NoRemote => new.remote = jobs[j].remote,
           jobs[j].state # "local_removed"
    PROVE  StoreInv' /\ \A k \in Jobs : Kept(k)
<1>1. jobs \in [Jobs -> Row] /\ intents \in [Intents -> IntentRow] /\ clock \in Nat
  BY DEF StoreInv, TypeOK
<1>2. jobs' = [jobs EXCEPT ![j] = new] /\ RowOK(new) /\ intents' = intents /\ clock' = clock
  BY DEF Commit
<1>3. jobs' \in [Jobs -> Row]
  BY <1>1, <1>2
<1>4. \A k \in Jobs : IF k = j THEN jobs'[k] = new ELSE jobs'[k] = jobs[k]
  BY <1>1, <1>2
<1>5. QED
  BY <1>1, <1>2, <1>3, <1>4, RowwiseStep

---------------------------------------------------------------------------
(* One lemma per group of actions.                                                *)

(* Recovery at a claim keeps every row of the table, absent ones included.        *)
LEMMA RecoveryStep ==
    ASSUME StoreInv, NEW j \in Jobs, NEW now \in Nat
    PROVE  LET r == Recovered(jobs[j], now) IN
           /\ r \in Row
           /\ \/ r = jobs[j]
              \/ RowOK(r) /\ r.remote = jobs[j].remote /\ jobs[j].state # "local_removed"
           /\ Exists(j) => RowOK(r) /\ r.remote = jobs[j].remote
<1>1. jobs[j] \in Row
  BY Rows
<1>2. CASE Exists(j)
  BY <1>1, <1>2, Rows, RecoveredType, RecoveredValid
<1>3. CASE ~ Exists(j)
  BY <1>1, <1>3, RecoveredType DEF StoreInv, UnusedRowsBlank, Recovered
<1>4. QED
  BY <1>2, <1>3

(* claim_one and claim_for_action, with the recovery of every other row.          *)
LEMMA ClaimsKeep ==
    ASSUME StoreInv, NEW j \in Jobs, ClaimSteps(j)
    PROVE  StoreInv' /\ \A k \in Jobs : Kept(k)
<1>1. jobs \in [Jobs -> Row] /\ intents \in [Intents -> IntentRow] /\ clock \in Nat
  BY DEF StoreInv, TypeOK
<1>2. PICK w \in Owners, now \in 1..clock :
          \E any \in BOOLEAN : ClaimJob(j, w, any, now) \/ ClaimNothing(j, any, now)
  BY DEF ClaimSteps
<1>3. PICK any \in BOOLEAN : ClaimJob(j, w, any, now) \/ ClaimNothing(j, any, now)
  BY <1>2
<1>4. now \in Nat
  BY <1>1
<1>5. CASE ClaimNothing(j, any, now)
  <2>1. /\ jobs' = [k \in Jobs |-> Recovered(jobs[k], now)]
        /\ intents' = intents /\ clock' = clock
    BY <1>5 DEF ClaimNothing
  <2>2. jobs' \in [Jobs -> Row] /\ \A k \in Jobs : jobs'[k] = Recovered(jobs[k], now)
    BY <2>1, <1>4, RecoveryStep
  <2>3. QED
    BY <1>1, <1>4, <2>1, <2>2, RecoveryStep, RowwiseStep
<1>6. CASE ClaimJob(j, w, any, now)
  <2> DEFINE r == Recovered(jobs[j], now)
             s == Claimed(r, w, now)
  <2>1. /\ jobs' = [k \in Jobs |-> IF k = j THEN Claimed(Recovered(jobs[k], now), w, now)
                                     ELSE Recovered(jobs[k], now)]
        /\ intents' = intents /\ clock' = clock
    BY <1>6 DEF ClaimJob
  <2>2. Exists(j) /\ Claimable(r)
    BY <1>6 DEF ClaimJob, ClaimSucceeds, ClaimableNow
  <2>3. r \in Row /\ RowOK(r) /\ r.remote = jobs[j].remote
    BY <1>4, <2>2, RecoveryStep
  <2>4. s \in Row /\ RowOK(s) /\ s.remote = r.remote /\ r.state # "local_removed"
    BY <1>4, <2>2, <2>3, ClaimedValid
  <2>5. jobs[j].state # "local_removed"
    BY <1>4, <2>2, <2>4, Rows, RecoveredValid
  <2>6. \A k \in Jobs : jobs'[k] = IF k = j THEN s ELSE Recovered(jobs[k], now)
    BY <2>1
  <2> HIDE DEF s
  <2>7. jobs' \in [Jobs -> Row]
    BY <1>4, <2>1, <2>4, RecoveryStep DEF s
  <2>8. QED
    BY <1>1, <1>4, <2>1, <2>3, <2>4, <2>5, <2>6, <2>7, RecoveryStep, RowwiseStep
<1>7. QED
  BY <1>3, <1>5, <1>6

(* A row a worker holds a lease on, or an operator may change, is not removed.     *)
LEMMA HeldNotRemoved ==
    ASSUME StoreInv, NEW j \in Jobs, NEW w \in Owners, NEW gen,
           Exists(j), Fenced(jobs[j], w, gen)
    PROVE  jobs[j] \in Row /\ RowOK(jobs[j]) /\ jobs[j].state # "local_removed"
<1>1. jobs[j] \in Row /\ RowOK(jobs[j])
  BY Rows
<1>2. jobs[j].owner # NoOwner
  BY StoreAssumption DEF Fenced
<1>3. QED
  BY <1>1, <1>2 DEF RowOK, PhaseCoherent

(* A transition under a lease keeps the remote ID the row already knows.          *)
LEMMA TransitionKeeps ==
    ASSUME StoreInv, NEW j \in Jobs, NEW w \in Owners, NEW gen,
           NEW sources, NEW target \in LiveStates,
           NEW remote \in Remotes \cup {NoRemote}, NEW token \in Markers \cup {NoMarker},
           NEW requested \in Operations,
           Transition(j, w, gen, sources, target, remote, token, requested),
           \/ target \notin {"queued", "transferring", "uncertain"} /\ remote = NoRemote
           \/ sources \subseteq {"queued", "transferring", "uncertain"}
    PROVE  StoreInv' /\ \A k \in Jobs : Kept(k)
<1> DEFINE new == Transitioned(jobs[j], target, remote, token, requested)
<1>1. Exists(j) /\ Fenced(jobs[j], w, gen) /\ jobs[j].state \in sources /\ Commit(j, new)
  BY DEF Transition, MayTransition
<1>2. jobs[j] \in Row /\ RowOK(jobs[j]) /\ jobs[j].state # "local_removed"
  BY <1>1, HeldNotRemoved
<1>3. new \in Row
  BY <1>2, TransitionedType DEF StoreInv, TypeOK
<1>4. ASSUME jobs[j].remote # NoRemote
      PROVE  new.remote = jobs[j].remote
  <2>1. jobs[j].state \notin {"queued", "transferring", "uncertain"}
    BY <1>2, <1>4 DEF RowOK, PhaseCoherent
  <2>2. target \notin {"queued", "transferring", "uncertain"} /\ remote = NoRemote
    BY <1>1, <2>1
  <2>3. QED
    BY <1>2, <1>4, <2>2, TransitionedRemote
<1> HIDE DEF new
<1>5. QED
  BY <1>1, <1>2, <1>3, <1>4, CommitStep


(* The rows written by renew, release, schedule and the tag reconciliation.       *)
LEMMA RowEditTypes ==
    ASSUME clock \in Nat, NEW r \in Row, NEW due \in Nat,
           NEW s \in {[r EXCEPT !.expires = clock + LeaseMs,
                                !.updated = Later(clock, r.created)],
                      [r EXCEPT !.owner = NoOwner, !.expires = 0, !.due = due,
                                !.updated = Later(clock, r.created)],
                      AsUncertain(r, due, clock),
                      TagsReconciled(r)}
    PROVE  s \in Row /\ s.remote = r.remote
<1>1. Later(clock, r.created) \in Nat /\ clock + LeaseMs \in Nat
  BY StoreAssumption DEF Later, Row
<1>2. CASE s = [r EXCEPT !.expires = clock + LeaseMs, !.updated = Later(clock, r.created)]
  BY <1>1, <1>2 DEF Row
<1>3. CASE s = [r EXCEPT !.owner = NoOwner, !.expires = 0, !.due = due,
                         !.updated = Later(clock, r.created)]
  BY <1>1, <1>3 DEF Row
<1>4. CASE s = AsUncertain(r, due, clock)
  BY <1>1, <1>4, StateNames DEF AsUncertain, Row
<1>5. CASE s = TagsReconciled(r)
  BY <1>1, <1>5 DEF TagsReconciled, Row, TagOutcomes
<1>6. QED
  BY <1>2, <1>3, <1>4, <1>5

(* renew, release and schedule.                                                   *)
LEMMA LeaseEditsKeep ==
    ASSUME StoreInv, NEW j \in Jobs, NEW w \in Owners, NEW gen, NEW due \in Nat,
           Renew(j, w, gen) \/ Release(j, w, gen, due) \/ Schedule(j, w, gen, due)
    PROVE  StoreInv' /\ \A k \in Jobs : Kept(k)
<1>1. Exists(j) /\ Fenced(jobs[j], w, gen)
  BY DEF Renew, Release, Schedule
<1>2. jobs[j] \in Row /\ jobs[j].state # "local_removed" /\ clock \in Nat
  BY <1>1, HeldNotRemoved DEF StoreInv, TypeOK
<1>3. CASE Renew(j, w, gen)
  <2> DEFINE new == [jobs[j] EXCEPT !.expires = clock + LeaseMs,
                                    !.updated = Later(clock, jobs[j].created)]
  <2>1. new \in Row /\ new.remote = jobs[j].remote
    BY <1>2, RowEditTypes
  <2>2. Commit(j, new)
    BY <1>3 DEF Renew
  <2> HIDE DEF new
  <2>3. QED
    BY <1>2, <2>1, <2>2, CommitStep
<1>4. ASSUME Release(j, w, gen, due) \/ Schedule(j, w, gen, due),
             ~ Commit(j, AsUncertain(jobs[j], due, clock))
      PROVE  StoreInv' /\ \A k \in Jobs : Kept(k)
  <2> DEFINE new == [jobs[j] EXCEPT !.owner = NoOwner, !.expires = 0, !.due = due,
                                    !.updated = Later(clock, jobs[j].created)]
  <2>1. new \in Row /\ new.remote = jobs[j].remote
    BY <1>2, RowEditTypes
  <2>2. Commit(j, new)
    BY <1>4 DEF Release, Schedule
  <2> HIDE DEF new
  <2>3. QED
    BY <1>2, <2>1, <2>2, CommitStep
<1>5. ASSUME Commit(j, AsUncertain(jobs[j], due, clock))
      PROVE  StoreInv' /\ \A k \in Jobs : Kept(k)
  BY <1>2, <1>5, RowEditTypes, CommitStep
<1>6. QED
  BY <1>3, <1>4, <1>5

(* update_tag_status and resolve_reconciled_tags.                                 *)
LEMMA TagStepsKeep ==
    ASSUME StoreInv, NEW j \in Jobs, NEW w \in Owners, NEW gen,
           \/ \E tags \in SUBSET jobs[j].frozen : UpdateTagStatus(j, w, gen, "known", tags)
           \/ UpdateTagStatus(j, w, gen, "unknown", {})
           \/ ResolveReconciledTags(j, w, gen)
    PROVE  StoreInv' /\ \A k \in Jobs : Kept(k)
<1>1. Exists(j) /\ Fenced(jobs[j], w, gen)
  BY DEF UpdateTagStatus, ResolveReconciledTags
<1>2. jobs[j] \in Row /\ jobs[j].state # "local_removed" /\ clock \in Nat
  BY <1>1, HeldNotRemoved DEF StoreInv, TypeOK
<1>3. CASE ResolveReconciledTags(j, w, gen)
  BY <1>2, <1>3, RowEditTypes, CommitStep DEF ResolveReconciledTags
<1>4. ASSUME NEW tags \in SUBSET jobs[j].frozen, NEW outcome \in {"known", "unknown"},
             UpdateTagStatus(j, w, gen, outcome, tags)
      PROVE  StoreInv' /\ \A k \in Jobs : Kept(k)
  <2> DEFINE new == [jobs[j] EXCEPT !.effective = tags, !.outcome = outcome,
                                    !.updated = Later(clock, jobs[j].created)]
  <2>1. Later(clock, jobs[j].created) \in Nat /\ tags \in SUBSET Tags
    BY <1>2, LaterIsTime DEF Row
  <2>2. new \in Row /\ new.remote = jobs[j].remote
    BY <1>2, <2>1 DEF Row, TagOutcomes
  <2>3. Commit(j, new)
    BY <1>4 DEF UpdateTagStatus
  <2> HIDE DEF new
  <2>4. QED
    BY <1>2, <2>2, <2>3, CommitStep
<1>5. QED
  BY <1>3, <1>4

(* Every operation of a publication worker under its lease.                       *)
LEMMA WorkersKeep ==
    ASSUME StoreInv, NEW j \in Jobs, WorkerSteps(j)
    PROVE  StoreInv' /\ \A k \in Jobs : Kept(k)
<1> DEFINE Keeps == StoreInv' /\ \A k \in Jobs : Kept(k)
           gen == jobs[j].gen
<1>1. PICK w \in Owners :
        \/ Renew(j, w, gen) \/ Release(j, w, gen, clock)
              \/ \E due \in {clock, clock + 1} : Schedule(j, w, gen, due)
        \/ \/ \E tags \in SUBSET jobs[j].frozen : UpdateTagStatus(j, w, gen, "known", tags)
           \/ UpdateTagStatus(j, w, gen, "unknown", {})
           \/ ResolveReconciledTags(j, w, gen)
        \/ \E marker \in Markers : BeginTransfer(j, w, gen, marker)
        \/ \E remote \in Remotes, source \in {"transferring", "uncertain"} :
              AcceptTransfer(j, w, gen, source, remote)
        \/ MoveToUncertain(j, w, gen)
        \/ TerminalUncertain(j, w, gen)
        \/ Block(j, w, gen) \/ MarkMissing(j, w, gen) \/ MarkPublished(j, w, gen)
  BY DEF WorkerSteps
<1> HIDE DEF gen
<1>2. CASE Renew(j, w, gen) \/ Release(j, w, gen, clock)
              \/ \E due \in {clock, clock + 1} : Schedule(j, w, gen, due)
  <2>1. clock \in Nat /\ clock + 1 \in Nat
    BY DEF StoreInv, TypeOK
  <2>2. QED
    BY <1>2, <2>1, LeaseEditsKeep
<1>3. CASE \/ \E tags \in SUBSET jobs[j].frozen : UpdateTagStatus(j, w, gen, "known", tags)
           \/ UpdateTagStatus(j, w, gen, "unknown", {})
           \/ ResolveReconciledTags(j, w, gen)
  BY <1>3, TagStepsKeep
<1>4. CASE \E marker \in Markers : BeginTransfer(j, w, gen, marker)
  BY <1>4, StateNames, TransitionKeeps DEF BeginTransfer, LiveStates
<1>5. CASE \E remote \in Remotes, source \in {"transferring", "uncertain"} :
              AcceptTransfer(j, w, gen, source, remote)
  <2>1. PICK remote \in Remotes, source \in {"transferring", "uncertain"} :
            Transition(j, w, gen, {source}, "metadata_pending", remote, NoMarker, "none")
    BY <1>5 DEF AcceptTransfer
  <2>2. {source} \subseteq {"queued", "transferring", "uncertain"}
        /\ "metadata_pending" \in LiveStates
    BY DEF LiveStates
  <2>3. QED
    BY <2>1, <2>2, StateNames, TransitionKeeps
<1>6. CASE MoveToUncertain(j, w, gen) \/ TerminalUncertain(j, w, gen)
  BY <1>6, StateNames, TransitionKeeps DEF MoveToUncertain, TerminalUncertain, LiveStates
<1>7. CASE Block(j, w, gen)
  <2>1. Transition(j, w, gen, LiveStates, "blocked", NoRemote, NoMarker, "none")
        /\ "blocked" \in LiveStates
    BY <1>7 DEF Block, LiveStates
  <2>2. QED
    BY <2>1, StateNames, TransitionKeeps
<1>8. CASE MarkMissing(j, w, gen)
  <2>1. Transition(j, w, gen, LiveStates, "missing", NoRemote, NoMarker, "none")
        /\ "missing" \in LiveStates
    BY <1>8 DEF MarkMissing, LiveStates
  <2>2. QED
    BY <2>1, StateNames, TransitionKeeps
<1>9. CASE MarkPublished(j, w, gen)
  <2>1. Transition(j, w, gen, LiveStates \ {"published"}, "published", NoRemote, NoMarker, "none")
        /\ "published" \in LiveStates
    BY <1>9 DEF MarkPublished, LiveStates
  <2>2. QED
    BY <2>1, StateNames, TransitionKeeps
<1>10. QED
  BY <1>1, <1>2, <1>3, <1>4, <1>5, <1>6, <1>7, <1>8, <1>9


(* relink() writes a row with the new path and the same remote ID.                *)
LEMMA RelinkedType ==
    ASSUME clock \in Nat, NEW r \in Row, NEW path \in Paths
    PROVE  /\ Relinked(r, path) \in Row
           /\ Relinked(r, path).remote = r.remote
           /\ Relinked(r, path).path = path
           /\ r.state # "missing" => Relinked(r, path).state = r.state
<1>1. CASE r.state = "missing" /\ ResumeTarget(r.intent) # "refused"
  <2> DEFINE s == Resumed(r, ResumeTarget(r.intent), clock)
  <2>1. ResumeTarget(r.intent) \in LiveStates
    BY <1>1 DEF ResumeTarget, LiveStates
  <2>2. s \in Row /\ s.remote = r.remote
    BY <2>1, ResumedType
  <2>3. Relinked(r, path) = [s EXCEPT !.path = path, !.owner = r.owner, !.expires = r.expires]
    BY <1>1 DEF Relinked
  <2>4. r.owner \in Owners \cup {NoOwner} /\ r.expires \in Nat
    BY DEF Row
  <2> DEFINE t == [s EXCEPT !.path = path, !.owner = r.owner, !.expires = r.expires]
  <2> HIDE DEF s
  <2>5. t \in Row /\ t.remote = s.remote /\ t.path = path
    BY <2>2, <2>4 DEF Row
  <2> HIDE DEF t
  <2>6. QED
    BY <1>1, <2>2, <2>3, <2>5 DEF t
<1>2. CASE ~ (r.state = "missing" /\ ResumeTarget(r.intent) # "refused")
  <2>1. Later(clock, r.created) \in Nat
    BY LaterIsTime DEF Row
  <2>2. Relinked(r, path) = [r EXCEPT !.path = path, !.updated = Later(clock, r.created)]
    BY <1>2 DEF Relinked
  <2>3. QED
    BY <2>1, <2>2 DEF Row
<1>3. QED
  BY <1>1, <1>2

(* create_or_reuse, retry, relink and forget.                                     *)
LEMMA OperatorsKeep ==
    ASSUME StoreInv, NEW j \in Jobs, OperatorSteps(j)
    PROVE  StoreInv' /\ \A k \in Jobs : Kept(k)
<1>1. jobs \in [Jobs -> Row] /\ intents \in [Intents -> IntentRow] /\ clock \in Nat
  BY DEF StoreInv, TypeOK
<1>2. ASSUME NEW path \in Paths, NEW tags \in SUBSET Tags, Create(j, path, tags)
      PROVE  StoreInv' /\ \A k \in Jobs : Kept(k)
  <2> DEFINE new == [NoRow EXCEPT !.state = "queued", !.op = "post", !.intent = "post",
                                  !.path = path, !.due = clock, !.frozen = tags,
                                  !.created = clock, !.updated = clock]
  <2>1. new \in Row
    BY <1>1, NoRowType, StateNames DEF Row
  <2>2. Commit(j, new) /\ jobs[j].state = "absent"
    BY <1>2 DEF Create
  <2>3. jobs[j].remote = NoRemote
    BY <2>2 DEF StoreInv, UnusedRowsBlank, Exists, LiveStates
  <2> HIDE DEF new
  <2>4. QED
    BY <2>1, <2>2, <2>3, CommitStep
<1>3. ASSUME NEW w \in FencedClients, Retry(j, w, jobs[j].gen)
      PROVE  StoreInv' /\ \A k \in Jobs : Kept(k)
  <2> DEFINE target == RetryTarget(jobs[j])
  <2>1. jobs[j] \in Row /\ target # "refused" /\ Commit(j, Resumed(jobs[j], target, clock))
    BY <1>3, Rows DEF Retry
  <2>2. target \in LiveStates /\ jobs[j].state # "local_removed"
    BY <2>1 DEF RetryTarget, ResumeTarget, LiveStates
  <2> HIDE DEF target
  <2>3. QED
    BY <1>1, <2>1, <2>2, ResumedType, CommitStep
<1>4. ASSUME NEW w \in FencedClients, NEW path \in Paths, Relink(j, w, jobs[j].gen, path)
      PROVE  StoreInv' /\ \A k \in Jobs : Kept(k)
  <2> DEFINE new == Relinked(jobs[j], path)
  <2>1. jobs[j] \in Row /\ Commit(j, new) /\ RowOK(new) /\ path # NoPath
    BY <1>4, Rows, StoreAssumption DEF Relink, Commit
  <2>2. /\ new \in Row /\ new.remote = jobs[j].remote /\ new.path = path
        /\ jobs[j].state # "missing" => new.state = jobs[j].state
    BY <1>1, <2>1, RelinkedType
  <2> HIDE DEF new
  <2>3. jobs[j].state # "local_removed"
    BY <2>1, <2>2 DEF RowOK, PhaseCoherent
  <2>4. QED
    BY <2>1, <2>2, <2>3, CommitStep
<1>5. ASSUME Forget(j)
      PROVE  StoreInv' /\ \A k \in Jobs : Kept(k)
  <2> DEFINE gone == [NoRow EXCEPT !.state = "forgotten"]
  <2>1. jobs' = [jobs EXCEPT ![j] = gone] /\ intents' = intents /\ clock' = clock
    BY <1>5 DEF Forget
  <2>2. gone \in Row
    BY NoRowType
  <2>3. jobs' \in [Jobs -> Row] /\ \A k \in Jobs : jobs'[k] = jobs[k] \/ jobs'[k] = gone
    BY <1>1, <2>1, <2>2
  <2>4. QED
    BY <1>1, <2>1, <2>3, RowwiseStep
<1>6. QED
  BY <1>2, <1>3, <1>4, <1>5 DEF OperatorSteps

(* update_path checks no state, but a removal's audit row has no path to match.    *)
LEMMA RenameKeeps ==
    ASSUME StoreInv, NEW old \in Paths, NEW new \in Paths, NEW identified \in SUBSET Jobs,
           UpdatePath(old, new, identified)
    PROVE  StoreInv' /\ \A k \in Jobs : Kept(k)
<1>1. jobs \in [Jobs -> Row] /\ intents \in [Intents -> IntentRow] /\ clock \in Nat
  BY DEF StoreInv, TypeOK
<1>2. /\ jobs' = [j \in Jobs |->
                  IF Exists(j) /\ jobs[j].path = old /\ j \in identified
                        /\ jobs[j].owner = NoOwner /\ jobs[j].cOwner = NoOwner
                  THEN [jobs[j] EXCEPT !.path = new] ELSE jobs[j]]
      /\ intents' = intents /\ clock' = clock
  BY DEF UpdatePath
<1>3. old # NoPath /\ new # NoPath
  BY StoreAssumption
<1>4. ASSUME NEW k \in Jobs, Exists(k), jobs[k].path = old
      PROVE  LET s == [jobs[k] EXCEPT !.path = new]
             IN  s \in Row /\ RowOK(s) /\ s.remote = jobs[k].remote
                    /\ jobs[k].state # "local_removed"
  <2> DEFINE r == jobs[k]
             s == [r EXCEPT !.path = new]
  <2>1. r \in Row /\ RowOK(r) /\ r.path = old
    BY <1>4, Rows
  <2>2. r.state # "local_removed"
    BY <1>3, <2>1 DEF RowOK, PhaseCoherent
  <2> HIDE DEF r
  <2>3. /\ s \in Row /\ s.path = new
        /\ s.state = r.state /\ s.op = r.op /\ s.intent = r.intent /\ s.token = r.token
        /\ s.remote = r.remote /\ s.owner = r.owner /\ s.expires = r.expires
    BY <2>1 DEF Row
  <2>4. /\ s.cOwner = r.cOwner /\ s.cGen = r.cGen /\ s.cExpires = r.cExpires
        /\ s.started = r.started /\ s.accepted = r.accepted /\ s.published = r.published
        /\ s.removed = r.removed /\ s.created = r.created /\ s.updated = r.updated
    BY <2>1 DEF Row
  <2>5. s.frozen = r.frozen /\ s.effective = r.effective /\ s.outcome = r.outcome
    BY <2>1 DEF Row
  <2> HIDE DEF s
  <2>6. LeasesPaired(s)
    BY <2>1, <2>3, <2>4 DEF RowOK, LeasesPaired
  <2>7. PhaseCoherent(s)
    BY <2>1, <2>2, <2>3 DEF RowOK, PhaseCoherent
  <2>8. TimesOrdered(s)
    BY <2>1, <2>3, <2>4 DEF RowOK, TimesOrdered
  <2>9. TagsCoherent(s)
    BY <2>1, <2>5 DEF RowOK, TagsCoherent
  <2>10. QED
    BY <1>3, <2>2, <2>3, <2>6, <2>7, <2>8, <2>9 DEF RowOK, s, r
<1>5. jobs' \in [Jobs -> Row]
  BY <1>1, <1>2, <1>4
<1>6. \A k \in Jobs :
        \/ jobs'[k] = jobs[k]
        \/ RowOK(jobs'[k]) /\ jobs'[k].remote = jobs[k].remote /\ jobs[k].state # "local_removed"
  BY <1>2, <1>4
<1>7. QED
  BY <1>1, <1>2, <1>5, <1>6, RowwiseStep


(* What a cleanup operation may write in the journal.                             *)
LEMMA JournalTypes ==
    /\ NoGens \in [Jobs -> Nat]
    /\ NoIntent \in IntentRow
    /\ FirstPhase \in Phases
    /\ \A phase \in Phases : phase # LastPhase => NextPhase(phase) \in Phases
<1>1. NoGens \in [Jobs -> Nat]
  BY DEF NoGens
<1>2. NoIntent \in IntentRow
  BY <1>1 DEF NoIntent, IntentRow
<1>3. \A n \in 1..5 : PhaseOrder[n] \in Phases
  BY DEF Phases
<1>4. ASSUME NEW phase \in Phases, phase # LastPhase
      PROVE  NextPhase(phase) \in Phases
  <2>1. PICK n \in 1..5 : phase = PhaseOrder[n]
    BY DEF Phases
  <2>2. n \in 1..4
    BY <1>4, <2>1 DEF LastPhase
  <2> DEFINE m == CHOOSE p \in 1..4 : PhaseOrder[p] = phase
  <2>3. m \in 1..4
    BY <2>1, <2>2
  <2> HIDE DEF m
  <2>4. 1 + m \in 1..5
    BY <2>3
  <2>5. NextPhase(phase) = PhaseOrder[1 + m]
    BY DEF NextPhase, m
  <2>6. QED
    BY <1>3, <2>4, <2>5
<1>5. QED
  BY <1>1, <1>2, <1>3, <1>4 DEF FirstPhase

(* A cleanup operation that writes the journal and no row.                        *)
LEMMA JournalOnly ==
    ASSUME StoreInv, NEW i \in Intents, NEW row \in IntentRow,
           intents' = [intents EXCEPT ![i] = row], UNCHANGED <<jobs, clock>>
    PROVE  StoreInv' /\ \A k \in Jobs : Kept(k)
<1>1. jobs \in [Jobs -> Row] /\ intents \in [Intents -> IntentRow] /\ clock \in Nat
  BY DEF StoreInv, TypeOK
<1>2. intents' \in [Intents -> IntentRow]
  BY <1>1
<1>3. QED
  BY <1>1, <1>2, RowwiseStep

(* Taking, extending or dropping the cleanup lease of one row.                    *)
LeaseEdit(j) ==
    \E owner \in Cleaners \cup {NoOwner}, gen, expires \in Nat :
        /\ (owner = NoOwner) <=> (expires = 0)
        /\ owner # NoOwner => gen >= 1
        /\ jobs'[j] = [jobs[j] EXCEPT !.cOwner = owner, !.cGen = gen, !.cExpires = expires,
                                      !.updated = Later(clock, jobs[j].created)]

(* A cleanup operation that writes the leases of a published group.               *)
LEMMA GroupLeaseStep ==
    ASSUME StoreInv, NEW members \in SUBSET Jobs,
           \A j \in members : jobs[j].state = "published" /\ LeaseEdit(j),
           \A j \in Jobs \ members : jobs'[j] = jobs[j],
           jobs' = [j \in Jobs |-> jobs'[j]],
           intents' \in [Intents -> IntentRow], UNCHANGED clock
    PROVE  StoreInv' /\ \A k \in Jobs : Kept(k)
<1>1. jobs \in [Jobs -> Row] /\ clock \in Nat
  BY DEF StoreInv, TypeOK
<1>2. ASSUME NEW k \in members
      PROVE  /\ jobs'[k] \in Row /\ RowOK(jobs'[k])
             /\ jobs'[k].remote = jobs[k].remote /\ jobs[k].state # "local_removed"
  <2>1. jobs[k] \in Row /\ RowOK(jobs[k]) /\ jobs[k].state = "published"
    BY Rows DEF Exists, LiveStates
  <2>2. PICK owner \in Cleaners \cup {NoOwner}, gen, expires \in Nat :
            /\ (owner = NoOwner) <=> (expires = 0)
            /\ owner # NoOwner => gen >= 1
            /\ jobs'[k] = [jobs[k] EXCEPT !.cOwner = owner, !.cGen = gen, !.cExpires = expires,
                                          !.updated = Later(clock, jobs[k].created)]
    BY DEF LeaseEdit
  <2> DEFINE r == jobs[k]
             s == jobs'[k]
  <2>3. /\ r \in Row /\ RowOK(r) /\ r.state = "published" /\ clock \in Nat
        /\ s = [r EXCEPT !.cOwner = owner, !.cGen = gen, !.cExpires = expires,
                         !.updated = Later(clock, r.created)]
    BY <1>1, <2>1, <2>2
  <2> HIDE DEF r, s
  <2>4. s \in Row /\ RowOK(s) /\ s.remote = r.remote
    <3>1. Later(clock, r.created) \in Nat /\ Later(clock, r.created) >= r.created
      BY <2>3, LaterIsTime DEF Row
    <3>2. s \in Row
      BY <2>2, <2>3, <3>1 DEF Row
    <3>3. /\ s.state = r.state /\ s.op = r.op /\ s.intent = r.intent /\ s.token = r.token
          /\ s.remote = r.remote /\ s.path = r.path /\ s.started = r.started
          /\ s.accepted = r.accepted
      BY <2>3 DEF Row
    <3>4. /\ s.published = r.published /\ s.removed = r.removed
          /\ s.created = r.created /\ s.owner = r.owner /\ s.expires = r.expires
          /\ s.frozen = r.frozen /\ s.effective = r.effective /\ s.outcome = r.outcome
      BY <2>3 DEF Row
    <3>5. /\ s.cOwner = owner /\ s.cGen = gen /\ s.cExpires = expires
          /\ s.updated = Later(clock, r.created)
      BY <2>3 DEF Row
    <3>6. LeasesPaired(s)
      BY <2>2, <2>3, <3>3, <3>4, <3>5 DEF RowOK, LeasesPaired
    <3>7. PhaseCoherent(s)
      BY <2>3, <3>3 DEF RowOK, PhaseCoherent
    <3>8. TimesOrdered(s)
      BY <2>3, <3>1, <3>3, <3>4, <3>5 DEF RowOK, TimesOrdered
    <3>9. TagsCoherent(s)
      BY <2>3, <3>4 DEF RowOK, TagsCoherent
    <3>10. RowOK(s)
      BY <2>3, <3>3, <3>6, <3>7, <3>8, <3>9 DEF RowOK
    <3>11. QED
      BY <3>2, <3>3, <3>10
  <2>5. QED
    BY <2>1, <2>4 DEF r, s
<1>3. jobs' \in [Jobs -> Row]
  <2>1. \A k \in Jobs : jobs'[k] \in Row
    BY <1>1, <1>2
  <2>2. QED
    BY <2>1
<1>4. QED
  BY <1>1, <1>2, <1>3, RowwiseStep

(* The members the fence of a cleanup operation finds: published rows.            *)
LEMMA GroupMembers ==
    ASSUME StoreInv, NEW i \in Intents, MembersUnchanged(i)
    PROVE  /\ intents[i] \in IntentRow
           /\ intents[i].members \in SUBSET Jobs
           /\ \A j \in intents[i].members :
                 /\ jobs[j] \in Row /\ RowOK(jobs[j]) /\ jobs[j].state = "published"
<1>1. intents[i] \in IntentRow /\ intents[i].members \in SUBSET Jobs
  BY DEF StoreInv, TypeOK, IntentRow
<1>2. QED
  BY <1>1, Rows DEF MembersUnchanged, Exists, LiveStates

(* release_cleanup_group and a claimed abort.                                     *)
LEMMA DropsKeep ==
    ASSUME StoreInv, NEW i \in Intents, NEW claim, ClaimCurrent(i, claim),
           NEW row \in IntentRow, intents' = [intents EXCEPT ![i] = row],
           jobs' = CleanupLeasesCleared(intents[i].members), UNCHANGED clock
    PROVE  StoreInv' /\ \A k \in Jobs : Kept(k)
<1> DEFINE members == intents[i].members
<1>1. /\ members \in SUBSET Jobs
      /\ \A j \in members : jobs[j] \in Row /\ jobs[j].state = "published"
  BY GroupMembers DEF ClaimCurrent
<1>2. jobs \in [Jobs -> Row] /\ intents' \in [Intents -> IntentRow] /\ clock \in Nat
  BY DEF StoreInv, TypeOK
<1>3. ASSUME NEW j \in members
      PROVE  LeaseEdit(j)
  <2>1. jobs'[j] = [jobs[j] EXCEPT !.cOwner = NoOwner, !.cExpires = 0,
                                   !.updated = Later(clock, jobs[j].created)]
    BY <1>1 DEF CleanupLeasesCleared
  <2>2. jobs[j] \in Row /\ jobs[j].cGen \in Nat
    BY <1>1 DEF Row
  <2>3. jobs'[j] = [jobs[j] EXCEPT !.cOwner = NoOwner, !.cGen = jobs[j].cGen, !.cExpires = 0,
                                   !.updated = Later(clock, jobs[j].created)]
    BY <2>1, <2>2 DEF Row
  <2> USE <2>2, <2>3 DEF LeaseEdit
  <2> WITNESS NoOwner \in Cleaners \cup {NoOwner}, jobs[j].cGen \in Nat, 0 \in Nat
  <2>4. QED
    OBVIOUS
<1>4. /\ \A j \in Jobs \ members : jobs'[j] = jobs[j]
      /\ jobs' = [j \in Jobs |-> jobs'[j]]
  BY DEF CleanupLeasesCleared
<1> HIDE DEF members
<1>5. QED
  BY <1>1, <1>2, <1>3, <1>4, GroupLeaseStep

(* Every operation of the cleanup journal.                                        *)
LEMMA CleanupsKeep ==
    ASSUME StoreInv, NEW i \in Intents, CleanupSteps(i)
    PROVE  StoreInv' /\ \A k \in Jobs : Kept(k)
<1> DEFINE Keeps == StoreInv' /\ \A k \in Jobs : Kept(k)
           members == intents[i].members
<1>1. jobs \in [Jobs -> Row] /\ intents \in [Intents -> IntentRow] /\ clock \in Nat
  BY DEF StoreInv, TypeOK
<1>2. intents[i] \in IntentRow /\ members \in SUBSET Jobs
  BY <1>1 DEF IntentRow
<1>3. ASSUME NEW path \in Paths, PrepareIntent(i, path)
      PROVE  Keeps
  <2> DEFINE row == [phase |-> FirstPhase, path |-> path,
                     members |-> Group(path), gens |-> NoGens]
  <2>1. row \in IntentRow
    BY JournalTypes DEF IntentRow, Group
  <2>2. intents' = [intents EXCEPT ![i] = row] /\ UNCHANGED <<jobs, clock>>
    BY <1>3 DEF PrepareIntent
  <2> HIDE DEF row
  <2>3. QED
    BY <2>1, <2>2, JournalOnly
<1>4. ASSUME Abort(i)
      PROVE  Keeps
  BY <1>4, JournalTypes, JournalOnly DEF Abort
<1>5. ASSUME NEW c \in Cleaners, ClaimGroup(i, c)
      PROVE  Keeps
  <2> DEFINE pinned == [j \in Jobs |-> IF j \in members THEN jobs[j].cGen + 1 ELSE 0]
             expires == clock + CleanupLeaseMs
  <2>1. MembersUnchanged(i) /\ UNCHANGED clock
    BY <1>5 DEF ClaimGroup
  <2>2. \A j \in members : jobs[j].state = "published"
    BY <2>1, GroupMembers
  <2>3. \A j \in Jobs : jobs[j].cGen \in Nat /\ jobs[j].cGen + 1 \in Nat
                          /\ jobs[j].cGen + 1 >= 1
    BY <1>1 DEF Row
  <2>4. expires \in Nat /\ expires # 0 /\ c # NoOwner
    BY <1>1, StoreAssumption
  <2>5. intents' \in [Intents -> IntentRow]
    <3>1. pinned \in [Jobs -> Nat]
      BY <2>3
    <3>2. [intents[i] EXCEPT !.gens = pinned] \in IntentRow
      BY <1>2, <3>1 DEF IntentRow
    <3>3. intents' = [intents EXCEPT ![i].gens = pinned]
      BY <1>5 DEF ClaimGroup
    <3>4. QED
      BY <1>1, <3>2, <3>3
  <2>6. ASSUME NEW j \in members
        PROVE  LeaseEdit(j)
    <3>1. jobs'[j] = [jobs[j] EXCEPT !.cOwner = c, !.cGen = jobs[j].cGen + 1,
                                     !.cExpires = expires,
                                     !.updated = Later(clock, jobs[j].created)]
      BY <1>2, <1>5 DEF ClaimGroup
    <3> HIDE DEF expires
    <3>2. QED
      BY <1>2, <2>3, <2>4, <3>1 DEF LeaseEdit
  <2>7. /\ \A j \in Jobs \ members : jobs'[j] = jobs[j]
        /\ jobs' = [j \in Jobs |-> jobs'[j]]
    BY <1>5 DEF ClaimGroup
  <2> HIDE DEF members
  <2>8. QED
    BY <1>2, <2>1, <2>2, <2>5, <2>6, <2>7, GroupLeaseStep
<1>6. ASSUME NEW claim, NEW phase \in Phases, Advance(i, claim, phase)
      PROVE  Keeps
  <2> DEFINE row == [intents[i] EXCEPT !.phase = NextPhase(phase)]
  <2>1. NextPhase(phase) \in Phases
    BY <1>6, JournalTypes DEF Advance
  <2>2. row \in IntentRow
    BY <1>2, <2>1 DEF IntentRow
  <2>3. intents' = [intents EXCEPT ![i] = row] /\ UNCHANGED <<jobs, clock>>
    BY <1>1, <1>6 DEF Advance
  <2> HIDE DEF row
  <2>4. QED
    BY <2>2, <2>3, JournalOnly
<1>7. ASSUME NEW c \in Cleaners, NEW claim, claim.owner = c, RenewGroup(i, claim)
      PROVE  Keeps
  <2> DEFINE expires == clock + CleanupLeaseMs
  <2>1. /\ MembersUnchanged(i) /\ UNCHANGED clock /\ intents' = intents
        /\ \A j \in members : jobs[j].cOwner = c
    BY <1>7 DEF RenewGroup, ClaimCurrent
  <2>2. \A j \in members : jobs[j] \in Row /\ RowOK(jobs[j]) /\ jobs[j].state = "published"
    BY <2>1, GroupMembers
  <2>3. expires \in Nat /\ expires # 0 /\ c # NoOwner
    BY <1>1, StoreAssumption
  <2>4. ASSUME NEW j \in members
        PROVE  LeaseEdit(j)
    <3>1. jobs[j].cGen \in Nat /\ jobs[j].cGen >= 1 /\ jobs[j].cOwner = c
      BY <2>1, <2>2, <2>3 DEF Row, RowOK, LeasesPaired
    <3>2. jobs'[j] = [jobs[j] EXCEPT !.cExpires = expires,
                                     !.updated = Later(clock, jobs[j].created)]
      BY <1>2, <1>7 DEF RenewGroup
    <3> HIDE DEF expires
    <3>3. jobs'[j] = [jobs[j] EXCEPT !.cOwner = c, !.cGen = jobs[j].cGen,
                                     !.cExpires = expires,
                                     !.updated = Later(clock, jobs[j].created)]
      BY <2>2, <3>1, <3>2 DEF Row
    <3> USE <2>3, <3>1, <3>3 DEF LeaseEdit
    <3> WITNESS c \in Cleaners \cup {NoOwner}, jobs[j].cGen \in Nat, expires \in Nat
    <3>4. QED
      OBVIOUS
  <2>5. /\ \A j \in Jobs \ members : jobs'[j] = jobs[j]
        /\ jobs' = [j \in Jobs |-> jobs'[j]]
    BY <1>7 DEF RenewGroup
  <2> HIDE DEF members
  <2>6. QED
    BY <1>1, <1>2, <2>1, <2>2, <2>4, <2>5, GroupLeaseStep
<1>8. ASSUME NEW claim, ReleaseGroup(i, claim) \/ AbortClaimed(i, claim)
      PROVE  Keeps
  <2> DEFINE unclaimed == [intents[i] EXCEPT !.gens = NoGens]
  <2>1. unclaimed \in IntentRow /\ NoIntent \in IntentRow
    BY <1>2, JournalTypes DEF IntentRow
  <2>2. /\ ClaimCurrent(i, claim) /\ UNCHANGED clock
        /\ jobs' = CleanupLeasesCleared(members)
        /\ \/ intents' = [intents EXCEPT ![i] = unclaimed]
           \/ intents' = [intents EXCEPT ![i] = NoIntent]
    BY <1>1, <1>8 DEF ReleaseGroup, AbortClaimed
  <2> HIDE DEF unclaimed
  <2>3. QED
    BY <2>1, <2>2, DropsKeep
<1>9. ASSUME NEW claim, CompleteGroup(i, claim)
      PROVE  Keeps
  <2>1. /\ MembersUnchanged(i) /\ UNCHANGED clock
        /\ \A j \in members : RowOK(LocallyRemoved(jobs[j]))
        /\ jobs' = [j \in Jobs |-> IF j \in members THEN LocallyRemoved(jobs[j]) ELSE jobs[j]]
        /\ intents' = [intents EXCEPT ![i] = NoIntent]
    BY <1>9 DEF CompleteGroup, ClaimCurrent
  <2>2. \A j \in members : jobs[j] \in Row /\ jobs[j].state = "published"
    BY <2>1, GroupMembers
  <2>3. \A j \in members :
          /\ LocallyRemoved(jobs[j]) \in Row
          /\ LocallyRemoved(jobs[j]).remote = jobs[j].remote
    BY <1>1, <2>2, LocallyRemovedType
  <2>4. jobs' \in [Jobs -> Row]
    BY <1>1, <2>1, <2>3
  <2>5. intents' \in [Intents -> IntentRow]
    BY <1>1, <2>1, JournalTypes
  <2>6. \A k \in Jobs :
          \/ jobs'[k] = jobs[k]
          \/ /\ RowOK(jobs'[k]) /\ jobs'[k].remote = jobs[k].remote
             /\ jobs[k].state # "local_removed"
    BY <2>1, <2>2, <2>3
  <2>7. QED
    BY <1>1, <2>1, <2>4, <2>5, <2>6, RowwiseStep
<1>10. QED
  BY <1>3, <1>4, <1>5, <1>6, <1>7, <1>8, <1>9 DEF CleanupSteps

---------------------------------------------------------------------------
(* The theorems.                                                                  *)

(* The empty database satisfies the invariant.                                    *)
LEMMA StoreStarts == StoreInit => StoreInv
<1> SUFFICES ASSUME StoreInit PROVE StoreInv
  OBVIOUS
<1>1. jobs = [j \in Jobs |-> NoRow] /\ intents = [i \in Intents |-> NoIntent] /\ clock = 1
  BY DEF StoreInit
<1>2. TypeOK
  BY <1>1, NoRowType, JournalTypes DEF TypeOK
<1>3. NoRow.state \notin LiveStates /\ NoRow.owner = NoOwner /\ NoRow.remote = NoRemote
  BY DEF NoRow, LiveStates
<1>4. RowsValid /\ UnusedRowsBlank
  BY <1>1, <1>3 DEF RowsValid, UnusedRowsBlank, Exists
<1>5. QED
  BY <1>2, <1>4 DEF StoreInv

(* Every step keeps the invariant, and does to each row what Kept allows.         *)
LEMMA StoreSteps ==
    StoreInv /\ [StoreNext]_storeVars => StoreInv' /\ \A k \in Jobs : Kept(k)
<1> SUFFICES ASSUME StoreInv, [StoreNext]_storeVars
             PROVE  StoreInv' /\ \A k \in Jobs : Kept(k)
  OBVIOUS
<1>1. jobs \in [Jobs -> Row] /\ intents \in [Intents -> IntentRow] /\ clock \in Nat
  BY DEF StoreInv, TypeOK
<1>2. ASSUME NEW j \in Jobs, ClaimSteps(j) \/ WorkerSteps(j) \/ OperatorSteps(j)
      PROVE  StoreInv' /\ \A k \in Jobs : Kept(k)
  BY <1>2, ClaimsKeep, WorkersKeep, OperatorsKeep
<1>3. ASSUME NEW old \in Paths, NEW new \in Paths, NEW identified \in SUBSET Jobs,
             UpdatePath(old, new, identified)
      PROVE  StoreInv' /\ \A k \in Jobs : Kept(k)
  BY <1>3, RenameKeeps
<1>4. ASSUME NEW i \in Intents, CleanupSteps(i)
      PROVE  StoreInv' /\ \A k \in Jobs : Kept(k)
  BY <1>4, CleanupsKeep
<1>5. ASSUME Tick \/ UNCHANGED storeVars
      PROVE  StoreInv' /\ \A k \in Jobs : Kept(k)
  <2>1. jobs' = jobs /\ intents' = intents /\ clock' \in Nat
    BY <1>1, <1>5 DEF Tick, storeVars
  <2>2. QED
    BY <1>1, <2>1, RowwiseStep
<1>6. QED
  BY <1>2, <1>3, <1>4, <1>5 DEF StoreNext

(* An ID whose row was deleted is not used again.                                  *)
LEMMA ForgottenIsFinal ==
    ASSUME StoreInv, [StoreNext]_storeVars, NEW k \in Jobs, jobs[k].state = "forgotten"
    PROVE  jobs'[k] = jobs[k]
<1> DEFINE Goal == jobs'[k] = jobs[k]
<1>1. jobs \in [Jobs -> Row] /\ jobs[k].owner = NoOwner /\ ~ Exists(k) /\ jobs[k].state # "absent"
  BY DEF StoreInv, TypeOK, UnusedRowsBlank, Exists, LiveStates
<1>2. ASSUME NEW j \in Jobs, NEW new, Commit(j, new), Exists(j) \/ jobs[j].state = "absent"
      PROVE  Goal
  BY <1>1, <1>2 DEF Commit
<1>3. \A now : Recovered(jobs[k], now) = jobs[k]
  BY <1>1 DEF Recovered
<1> HIDE DEF Goal
<1>4. ASSUME NEW j \in Jobs, ClaimSteps(j) PROVE Goal
  <2>1. PICK w \in Owners, now \in 1..clock :
           \E any \in BOOLEAN : ClaimJob(j, w, any, now) \/ ClaimNothing(j, any, now)
    BY <1>4 DEF ClaimSteps
  <2>2. PICK any \in BOOLEAN : ClaimJob(j, w, any, now) \/ ClaimNothing(j, any, now)
    BY <2>1
  <2>3. CASE ClaimJob(j, w, any, now)
    <3>1. Exists(j)
      BY <2>3 DEF ClaimJob, ClaimSucceeds
    <3>2. jobs'[k] = Recovered(jobs[k], now)
      BY <1>1, <2>3, <3>1 DEF ClaimJob
    <3>3. QED
      BY <1>3, <3>2 DEF Goal
  <2>4. CASE ClaimNothing(j, any, now)
    <3>1. jobs'[k] = Recovered(jobs[k], now)
      BY <2>4 DEF ClaimNothing
    <3>2. QED
      BY <1>3, <3>1 DEF Goal
  <2>5. QED
    BY <2>2, <2>3, <2>4
<1>5. ASSUME NEW j \in Jobs, WorkerSteps(j) PROVE Goal
  BY <1>2, <1>5 DEF WorkerSteps, Renew, Release, Schedule, BeginTransfer, AcceptTransfer,
       MoveToUncertain, TerminalUncertain, Block, MarkMissing, MarkPublished, Transition,
       MayTransition, UpdateTagStatus, ResolveReconciledTags
<1>6. ASSUME NEW j \in Jobs, OperatorSteps(j) PROVE Goal
  <2>1. Forget(j) => Goal
    BY <1>1 DEF Forget, Goal
  <2>2. QED
    BY <1>2, <1>6, <2>1 DEF OperatorSteps, Create, Retry, Relink
<1>7. ASSUME NEW old, NEW new, NEW identified, UpdatePath(old, new, identified) PROVE Goal
  BY <1>1, <1>7 DEF UpdatePath, Goal
<1>8. ASSUME NEW i \in Intents, CleanupSteps(i) PROVE Goal
  <2>1. MembersUnchanged(i) => k \notin intents[i].members
    BY DEF MembersUnchanged
  <2>2. ASSUME NEW c, ClaimGroup(i, c) PROVE Goal
    BY <2>1, <2>2 DEF ClaimGroup, Goal
  <2>3. ASSUME NEW claim,
               \/ RenewGroup(i, claim) \/ ReleaseGroup(i, claim) \/ CompleteGroup(i, claim)
               \/ AbortClaimed(i, claim)
        PROVE  Goal
    BY <2>1, <2>3 DEF RenewGroup, ReleaseGroup, CompleteGroup, AbortClaimed, ClaimCurrent,
                      CleanupLeasesCleared, Goal
  <2>4. ASSUME \/ \E path : PrepareIntent(i, path)
               \/ Abort(i)
               \/ \E claim, phase : Advance(i, claim, phase)
        PROVE  Goal
    BY <2>4 DEF PrepareIntent, Abort, Advance, Goal
  <2>5. QED
    BY <1>8, <2>2, <2>3, <2>4 DEF CleanupSteps
<1>9. Tick \/ UNCHANGED storeVars => Goal
  BY DEF Tick, storeVars, Goal
<1>10. Goal
  BY <1>4, <1>5, <1>6, <1>7, <1>8, <1>9 DEF StoreNext
<1>11. QED
  BY <1>10 DEF Goal

(* StoreInv is inductive: its parts hold in every reachable state.                *)
THEOREM StoreInvariant == StoreSpec => []StoreInv
BY StoreStarts, StoreSteps, PTL DEF StoreSpec

(* Every column keeps the type the schema gives it.                               *)
THEOREM StoreTypeCorrect == StoreSpec => []TypeOK
<1>1. StoreInv => TypeOK
  BY DEF StoreInv
<1>2. QED
  BY <1>1, StoreInvariant, PTL

(* No sequence of operations, by however many clients, stores a row that          *)
(* reading it back would refuse: the direct column updates of claims, renames     *)
(* and cleanup keep the validation that only _update_job performs.                *)
THEOREM RowsStayValid == StoreSpec => []RowsValid
<1>1. StoreInv => RowsValid
  BY DEF StoreInv
<1>2. QED
  BY <1>1, StoreInvariant, PTL

(* Once a remote ID is stored, no retry, relink, recovery or cleanup replaces     *)
(* or loses it short of forgetting the row: an accepted upload is never sent      *)
(* again.                                                                         *)
THEOREM KnownRemoteIsKept == StoreSpec => KnownRemoteKept
<1>1. StoreInv /\ [StoreNext]_storeVars =>
        [\A j \in Jobs : jobs[j].remote # NoRemote =>
            jobs'[j].remote = jobs[j].remote \/ jobs'[j].state = "forgotten"]_storeVars
  BY StoreSteps DEF Kept
<1>2. QED
  BY <1>1, StoreInvariant, PTL DEF StoreSpec, KnownRemoteKept

(* The audit row of a removed recording is never resumed, relinked or claimed.    *)
THEOREM LocalRemovalIsFinal == StoreSpec => RemovalIsFinal
<1>1. StoreInv /\ [StoreNext]_storeVars =>
        [\A j \in Jobs : jobs[j].state = "local_removed" =>
            jobs'[j] = jobs[j] \/ jobs'[j].state = "forgotten"]_storeVars
  BY StoreSteps DEF Kept
<1>2. QED
  BY <1>1, StoreInvariant, PTL DEF StoreSpec, RemovalIsFinal

---------------------------------------------------------------------------
(* The snapshots a worker plans by: what DueIds selects is what a claim accepts.   *)

(* The three phases with an operation a claim hands out, and the interrupted       *)
(* upload that recovery turns into one of them, are the work of _due_predicate.    *)
LEMMA WorkIsClaimable ==
    ASSUME NEW r \in Row, RowOK(r)
    PROVE  SafeWork(r) <=> r.cOwner = NoOwner /\ (Claimable(r) \/ r.state = "transferring")
<1>1. CASE r.state = "queued"
  BY <1>1 DEF RowOK, PhaseCoherent, SafeWork, Claimable, HttpMethod, ReconciliationEligible
<1>2. CASE r.state = "metadata_pending"
  BY <1>2 DEF RowOK, PhaseCoherent, SafeWork, Claimable, HttpMethod, ReconciliationEligible
<1>3. CASE r.state = "uncertain"
  BY <1>3 DEF RowOK, PhaseCoherent, SafeWork, Claimable, HttpMethod, ReconciliationEligible
<1>4. CASE r.state = "transferring"
  BY <1>4 DEF RowOK, PhaseCoherent, SafeWork, Claimable, HttpMethod, ReconciliationEligible
<1>5. CASE r.state \notin {"queued", "metadata_pending", "uncertain", "transferring"}
  BY <1>5 DEF SafeWork, Claimable, HttpMethod, ReconciliationEligible
<1>6. QED
  BY <1>1, <1>2, <1>3, <1>4, <1>5

(* A claim at an instant accepts a row exactly when it is work whose deadline or    *)
(* whose holder's lease has passed by then: recovery makes no other row claimable.  *)
LEMMA ClaimTakesDueWork ==
    ASSUME NEW r \in Row, RowOK(r), NEW t \in Nat
    PROVE  ClaimableNow(Recovered(r, t), FALSE, t) <=>
             /\ SafeWork(r)
             /\ \/ r.state # "transferring" /\ r.owner = NoOwner /\ r.due <= t
                \/ r.owner # NoOwner /\ r.expires <= t
<1>1. r.expires \in Nat /\ r.due \in Nat
  BY DEF Row
<1>2. CASE r.owner = NoOwner
  <2>1. Recovered(r, t) = r
    BY <1>2 DEF Recovered
  <2>2. r.state = "transferring" => ~ Claimable(r)
    BY DEF Claimable, HttpMethod, ReconciliationEligible
  <2>3. QED
    BY <1>2, <2>1, <2>2, WorkIsClaimable DEF ClaimableNow
<1>3. CASE r.owner # NoOwner /\ r.expires > t
  <2>1. Recovered(r, t) = r
    BY <1>3 DEF Recovered
  <2>2. QED
    BY <1>1, <1>3, <2>1 DEF ClaimableNow
<1>4. CASE r.owner # NoOwner /\ ~ (r.expires > t) /\ r.state = "transferring"
  <2> DEFINE s == AsUncertain(r, t, t)
  <2>1. Recovered(r, t) = s
    BY <1>4 DEF Recovered
  <2>2. /\ s.state = "uncertain" /\ s.op = "reconcile" /\ s.owner = NoOwner /\ s.due = t
        /\ s.remote = r.remote /\ s.token = r.token /\ s.cOwner = r.cOwner
    BY DEF AsUncertain, Row
  <2> HIDE DEF s
  <2>3. r.remote = NoRemote /\ r.token # NoMarker
    BY <1>4 DEF RowOK, PhaseCoherent
  <2>4. Claimable(s)
    BY <2>2, <2>3 DEF Claimable, ReconciliationEligible
  <2>5. ClaimableNow(Recovered(r, t), FALSE, t) <=> r.cOwner = NoOwner
    BY <2>1, <2>2, <2>4 DEF ClaimableNow
  <2>6. SafeWork(r) <=> r.cOwner = NoOwner
    BY <1>4, WorkIsClaimable
  <2>7. r.expires <= t
    BY <1>1, <1>4
  <2>8. QED
    BY <1>4, <2>5, <2>6, <2>7, Zenon
<1>5. CASE r.owner # NoOwner /\ ~ (r.expires > t) /\ r.state # "transferring"
  <2> DEFINE due == IF Claimable(r) THEN Earlier(r.due, t) ELSE r.due
             s == [r EXCEPT !.owner = NoOwner, !.expires = 0, !.due = due,
                            !.updated = Later(t, r.created)]
  <2>1. Recovered(r, t) = s
    BY <1>5 DEF Recovered
  <2>2. Claimable(r) => due <= t
    BY <1>1 DEF Earlier
  <2> HIDE DEF due
  <2>3. /\ s.state = r.state /\ s.op = r.op /\ s.owner = NoOwner /\ s.due = due
        /\ s.remote = r.remote /\ s.token = r.token /\ s.cOwner = r.cOwner
    BY DEF Row
  <2> HIDE DEF s
  <2>4. Claimable(s) <=> Claimable(r)
    <3>1. HttpMethod(s) = HttpMethod(r)
      BY <2>3 DEF HttpMethod
    <3>2. QED
      BY <2>3, <3>1 DEF Claimable, ReconciliationEligible
  <2>5. ClaimableNow(Recovered(r, t), FALSE, t) <=> r.cOwner = NoOwner /\ Claimable(r)
    BY <2>1, <2>2, <2>3, <2>4 DEF ClaimableNow
  <2>6. r.expires <= t
    BY <1>1, <1>5
  <2>7. SafeWork(r) <=> r.cOwner = NoOwner /\ Claimable(r)
    BY <1>5, WorkIsClaimable
  <2>8. QED
    BY <1>5, <2>5, <2>6, <2>7, Zenon
<1>6. QED
  BY <1>2, <1>3, <1>4, <1>5

(* A valid table never strands due work behind a sleeping worker, nor wakes one     *)
(* for nothing.                                                                    *)
LEMMA ValidRowsAreWoken == StoreInv => DueWorkIsWoken
<1> SUFFICES ASSUME StoreInv PROVE DueWorkIsWoken
  OBVIOUS
<1>1. clock \in Nat /\ MaxClock + LeaseMs \in Nat
  BY StoreAssumption DEF StoreInv, TypeOK
<1>2. ASSUME NEW j \in Jobs, Exists(j)
      PROVE  jobs[j] \in Row /\ RowOK(jobs[j]) /\ jobs[j].due \in Nat /\ jobs[j].expires \in Nat
  BY <1>2, Rows DEF Row
<1>3. ASSUME NEW j \in Jobs
      PROVE  j \in DueIds(OriginOf(j), clock) <=> ClaimSucceeds(j, FALSE, clock)
  <2>1. CASE Exists(j)
    BY <1>1, <1>2, <2>1, ClaimTakesDueWork DEF DueIds, ClaimSucceeds
  <2>2. CASE ~ Exists(j)
    BY <2>2 DEF DueIds, ClaimSucceeds
  <2>3. QED
    BY <2>1, <2>2
<1>4. ASSUME NEW o \in Origins, NEW j \in Jobs, NEW t \in clock..(MaxClock + LeaseMs),
             OriginOf(j) = o, ClaimSucceeds(j, FALSE, t)
      PROVE  \E d \in WakeDeadlines(o, clock) : d <= t
  <2>1. t \in Nat /\ clock <= t
    BY <1>1
  <2>2. Exists(j) /\ ClaimableNow(Recovered(jobs[j], t), FALSE, t)
    BY <1>4 DEF ClaimSucceeds
  <2>3. /\ SafeWork(jobs[j])
        /\ \/ jobs[j].state # "transferring" /\ jobs[j].owner = NoOwner /\ jobs[j].due <= t
           \/ jobs[j].owner # NoOwner /\ jobs[j].expires <= t
    BY <1>2, <2>1, <2>2, ClaimTakesDueWork
  <2>4. Later(EffectiveDue(jobs[j]), clock) \in WakeDeadlines(o, clock)
    BY <1>4, <2>2, <2>3 DEF WakeDeadlines
  <2>5. Later(EffectiveDue(jobs[j]), clock) <= t
    BY <1>1, <1>2, <2>1, <2>2, <2>3 DEF Later, EffectiveDue
  <2>6. QED
    BY <2>4, <2>5
<1>5. ASSUME NEW o \in Origins, clock \in WakeDeadlines(o, clock)
      PROVE  DueIds(o, clock) # {}
  <2>1. PICK j \in Jobs : /\ Exists(j) /\ OriginOf(j) = o /\ SafeWork(jobs[j])
                          /\ jobs[j].state # "transferring" \/ jobs[j].owner # NoOwner
                          /\ clock = Later(EffectiveDue(jobs[j]), clock)
    BY <1>5 DEF WakeDeadlines
  <2>2. EffectiveDue(jobs[j]) <= clock
    BY <1>1, <1>2, <2>1 DEF Later, EffectiveDue
  <2>3. j \in DueIds(o, clock)
    BY <2>1, <2>2 DEF DueIds, EffectiveDue
  <2>4. QED
    BY <2>3
<1>6. QED
  BY <1>3, <1>4, <1>5 DEF DueWorkIsWoken

(* At every reachable instant the query that counts due jobs and the claim that     *)
(* takes them agree on every row, for every lease duration: no claimable row is     *)
(* slept past, and an immediate wake finds work.                                   *)
THEOREM WakesMatchClaims == StoreSpec => []DueWorkIsWoken
BY ValidRowsAreWoken, StoreInvariant, PTL

---------------------------------------------------------------------------
(* The journal invariant.  RowsValid does not say why a journal's rows stay put:   *)
(* that a published row has no worker, that the rows of one journal are leased     *)
(* together or not at all, and that a journal past its first phase is leased.      *)

JournalHolds(i) ==
    /\ intents[i].phase = "none" <=> intents[i].members = {}
    /\ \A j \in intents[i].members : jobs[j].state = "published"
    /\ \/ /\ intents[i].phase \in {"none", FirstPhase}
          /\ \A j \in intents[i].members : jobs[j].cOwner = NoOwner
       \/ \A j \in intents[i].members :
             /\ jobs[j].cOwner # NoOwner /\ jobs[j].cGen = intents[i].gens[j]
             /\ jobs[j].path = intents[i].path

LeaseHolds(j) ==
    /\ \A i, k \in MemberOf(j) : i = k
    /\ jobs[j].cOwner # NoOwner => MemberOf(j) # {}
    /\ jobs[j].state = "published" => jobs[j].owner = NoOwner

JournalInv == (\A i \in Intents : JournalHolds(i)) /\ (\A j \in Jobs : LeaseHolds(j))

(* What no column check says of a row's times and phase: none lies in the future, a *)
(* row to reconcile was once in transfer, and only a row that knows its recording   *)
(* was accepted.                                                                   *)
TimeHolds(r) ==
    /\ r.created <= clock /\ r.updated <= clock /\ r.started <= clock
    /\ r.accepted <= clock /\ r.published <= clock
    /\ r.intent = "reconcile" => r.started > 0
    /\ r.remote = NoRemote => r.accepted = 0

TimesInv == clock > 0 /\ \A j \in Jobs : TimeHolds(jobs[j])

LedgerInv == StoreInv /\ JournalInv /\ TimesInv

(* What an operation on rows, as opposed to journals, may do to one row.           *)
Calm(k) ==
    \/ jobs'[k] = jobs[k]
    \/ /\ jobs[k].cOwner = NoOwner /\ jobs'[k].cOwner = NoOwner
       /\ MemberOf(k) # {} => jobs'[k].state = "published"
       /\ jobs'[k].state = "published" => jobs'[k].owner = NoOwner
       /\ jobs[k].owner # NoOwner =>
             jobs[k].expires > clock \/ TakenOver(jobs[k], jobs'[k])
       /\ TimeHolds(jobs'[k])

(* What ExpiredLeaseFences says of one row in one step.                            *)
Fences(j) ==
    jobs'[j] # jobs[j] =>
        /\ jobs[j].owner # NoOwner /\ jobs[j].expires <= clock =>
              TakenOver(jobs[j], jobs'[j])
        /\ jobs[j].cOwner # NoOwner /\ jobs[j].cExpires <= clock =>
              jobs'[j].cGen > jobs[j].cGen

(* An operation on rows that treats each of them so keeps the journal invariant.    *)
LEMMA CalmStep ==
    ASSUME LedgerInv, StoreInv', UNCHANGED <<intents, clock>>, \A k \in Jobs : Calm(k)
    PROVE  LedgerInv' /\ \A k \in Jobs : Fences(k)
<1>1. /\ jobs \in [Jobs -> Row] /\ jobs' \in [Jobs -> Row] /\ clock \in Nat
      /\ \A i \in Intents : intents[i].members \in SUBSET Jobs
  BY DEF LedgerInv, StoreInv, TypeOK, IntentRow
<1>2. \A j \in Jobs : MemberOf(j)' = MemberOf(j)
  BY DEF MemberOf
<1>3. ASSUME NEW i \in Intents
      PROVE  JournalHolds(i)'
  <2>1. JournalHolds(i)
    BY DEF LedgerInv, JournalInv
  <2>2. ASSUME NEW j \in intents[i].members
        PROVE  /\ jobs'[j].state = "published"
               /\ jobs[j].cOwner = NoOwner => jobs'[j].cOwner = NoOwner
               /\ jobs[j].cOwner # NoOwner => jobs'[j] = jobs[j]
    <3>1. j \in Jobs /\ MemberOf(j) # {} /\ jobs[j].state = "published"
      BY <1>1, <2>1 DEF MemberOf, JournalHolds
    <3>2. QED
      BY <3>1 DEF Calm
  <2>3. intents'[i] = intents[i]
    OBVIOUS
  <2> DEFINE held == intents[i]
  <2>4. held = intents[i] /\ intents'[i] = held
    BY <2>3
  <2> HIDE DEF held
  <2>5. CASE \A j \in held.members : jobs[j].cOwner = NoOwner
    BY <2>1, <2>2, <2>4, <2>5 DEF JournalHolds
  <2>6. CASE \A j \in held.members : jobs[j].cOwner # NoOwner
    BY <2>1, <2>2, <2>4, <2>6 DEF JournalHolds
  <2>7. QED
    BY <2>1, <2>4, <2>5, <2>6 DEF JournalHolds
<1>4. ASSUME NEW j \in Jobs
      PROVE  LeaseHolds(j)'
  <2>1. LeaseHolds(j) /\ Calm(j)
    BY DEF LedgerInv, JournalInv
  <2>2. QED
    BY <1>2, <2>1 DEF LeaseHolds, Calm
<1>5. ASSUME NEW j \in Jobs
      PROVE  TimeHolds(jobs[j])'
  <2>1. TimeHolds(jobs[j]) /\ Calm(j)
    BY DEF LedgerInv, TimesInv
  <2>2. QED
    BY <2>1 DEF Calm, TimeHolds
<1>6. ASSUME NEW k \in Jobs
      PROVE  Fences(k)
  <2>1. jobs[k].expires \in Nat /\ Calm(k)
    BY <1>1 DEF Row
  <2>2. QED
    BY <1>1, <2>1 DEF Calm, Fences
<1>7. QED
  BY <1>3, <1>4, <1>5, <1>6 DEF LedgerInv, JournalInv, TimesInv

---------------------------------------------------------------------------
(* The rows the operators write keep TimeHolds.                                    *)

(* A change of lease, deadline, tags or path leaves the times of the phases alone.  *)
LEMMA EditTimes ==
    ASSUME NEW r \in Row, TimeHolds(r), clock \in Nat, NEW s \in Row, NEW now \in Nat,
           now <= clock,
           s.created = r.created, s.started = r.started, s.accepted = r.accepted,
           s.published = r.published, s.remote = r.remote,
           s.updated \in {r.updated, Later(now, r.created)},
           s.intent = "reconcile" => r.intent = "reconcile" \/ r.started > 0
    PROVE  TimeHolds(s)
<1>1. Later(now, r.created) <= clock
  BY DEF Later, TimeHolds, Row
<1>2. s.updated <= clock
  BY <1>1 DEF TimeHolds
<1>3. QED
  BY <1>2 DEF TimeHolds

(* schedule and the recovery of an interrupted upload: it had started.             *)
LEMMA AsUncertainTimes ==
    ASSUME NEW r \in Row, RowOK(r), TimeHolds(r), clock \in Nat, r.state = "transferring",
           NEW due \in Nat, NEW now \in Nat, now <= clock
    PROVE  TimeHolds(AsUncertain(r, due, now))
<1> DEFINE s == AsUncertain(r, due, now)
<1>1. Later(now, r.created) \in Nat
  BY DEF Later, Row
<1>2. s \in Row
  BY <1>1, StateNames DEF AsUncertain, Row
<1>3. /\ s.created = r.created /\ s.started = r.started /\ s.accepted = r.accepted
      /\ s.published = r.published /\ s.remote = r.remote
      /\ s.updated = Later(now, r.created)
  BY DEF AsUncertain, Row
<1>4. r.started > 0
  BY DEF RowOK, TimesOrdered
<1> HIDE DEF s
<1>5. TimeHolds(s)
  BY <1>2, <1>3, <1>4, EditTimes
<1>6. QED
  BY <1>5 DEF s

(* transition() stamps the phase it enters with an instant that is not in the       *)
(* future, makes a row one to reconcile only after it was in transfer, and accepts  *)
(* no row without a remote ID.                                                     *)
LEMMA TransitionedTimes ==
    ASSUME NEW r \in Row, RowOK(r), TimeHolds(r), clock \in Nat,
           NEW target \in LiveStates \ {"queued", "local_removed"},
           NEW remote \in Remotes \cup {NoRemote},
           NEW token \in Markers \cup {NoMarker}, NEW requested \in Operations,
           target = "transferring" => r.state = "queued",
           target = "uncertain" => r.state \in {"transferring", "uncertain"},
           target = "metadata_pending" => remote # NoRemote,
           target \in {"blocked", "missing", "published"} => remote = NoRemote
    PROVE  TimeHolds(Transitioned(r, target, remote, token, requested))
<1> DEFINE s == Transitioned(r, target, remote, token, requested)
           at == Later(clock, r.updated)
<1>1. at = clock
  BY DEF Later, TimeHolds, Row
<1>2. /\ s.created = r.created /\ s.updated = at
      /\ s.started = IF target = "transferring" THEN at ELSE r.started
      /\ s.accepted = IF target = "metadata_pending" /\ r.accepted = 0 THEN at ELSE r.accepted
      /\ s.published = IF target = "published" THEN at ELSE r.published
      /\ s.intent = IntentIn(target, r.intent)
      /\ s.remote = IF target \in {"queued", "transferring", "uncertain"} THEN NoRemote
                    ELSE IF remote = NoRemote THEN r.remote ELSE remote
  BY DEF Transitioned, Row
<1> HIDE DEF s, at
<1>3. /\ s.created <= clock /\ s.updated <= clock /\ s.started <= clock
      /\ s.accepted <= clock /\ s.published <= clock
  BY <1>1, <1>2 DEF TimeHolds
<1>4. s.intent = "reconcile" => s.started > 0
  <2>1. CASE target = "uncertain"
    <3>1. r.started > 0
      BY <2>1 DEF RowOK, TimesOrdered, PhaseCoherent, TimeHolds
    <3>2. QED
      BY <1>2, <2>1, <3>1
  <2>2. CASE target \in {"blocked", "missing"}
    <3>1. IntentIn(target, r.intent) = r.intent
      BY <2>2 DEF IntentIn
    <3>2. QED
      BY <1>2, <2>2, <3>1 DEF TimeHolds
  <2>3. CASE target \in {"transferring", "metadata_pending", "published"}
    BY <1>2, <2>3 DEF IntentIn
  <2>4. QED
    BY <2>1, <2>2, <2>3 DEF LiveStates
<1>5. s.remote = NoRemote => s.accepted = 0
  <2>1. CASE target \in {"transferring", "uncertain"}
    <3>1. r.remote = NoRemote
      BY <2>1 DEF RowOK, PhaseCoherent
    <3>2. QED
      BY <1>2, <2>1, <3>1 DEF TimeHolds
  <2>2. CASE target \in {"blocked", "missing", "published"}
    BY <1>2, <2>2 DEF TimeHolds
  <2>3. CASE target = "metadata_pending"
    BY <1>2, <2>3
  <2>4. QED
    BY <2>1, <2>2, <2>3 DEF LiveStates
<1>6. QED
  BY <1>3, <1>4, <1>5 DEF TimeHolds, s

(* retry and relink: a row becomes one to reconcile only if it was one.             *)
LEMMA ResumedTimes ==
    ASSUME NEW r \in Row, TimeHolds(r), clock \in Nat, NEW target \in LiveStates,
           NEW due \in Nat,
           target = "uncertain" => r.intent = "reconcile"
    PROVE  TimeHolds(Resumed(r, target, due))
<1> DEFINE s == Resumed(r, target, due)
<1>1. s \in Row
  BY ResumedType
<1>2. /\ s.created = r.created /\ s.started = r.started /\ s.accepted = r.accepted
      /\ s.published = r.published /\ s.remote = r.remote
      /\ s.updated = Later(clock, r.created) /\ s.intent = IntentIn(target, r.intent)
  BY DEF Resumed, Row
<1>3. IntentIn(target, r.intent) = "reconcile" => r.intent = "reconcile"
  BY DEF IntentIn
<1> HIDE DEF s
<1>4. TimeHolds(s)
  BY <1>1, <1>2, <1>3, EditTimes
<1>5. QED
  BY <1>4 DEF s

---------------------------------------------------------------------------
(* One lemma per group of operations on rows.                                     *)

(* Recovery is a take-over, and so is the claim that follows it.                    *)
LEMMA RecoveryTakesOver ==
    ASSUME NEW r \in Row, NEW now \in Nat, now <= clock, clock \in Nat, Recovered(r, now) # r
    PROVE  /\ TakenOver(r, Recovered(r, now))
           /\ \A w \in Owners : TakenOver(r, Claimed(Recovered(r, now), w, now))
<1>1. r.expires <= now /\ r.expires \in Nat
  BY DEF Recovered, Row
<1>2. now \in r.expires..clock
  BY <1>1
<1>3. QED
  BY <1>2 DEF TakenOver

(* Recovery drops expired publication leases, which no row of a journal has.       *)
LEMMA RecoveredCalm ==
    ASSUME LedgerInv, NEW k \in Jobs, NEW now \in Nat, now <= clock
    PROVE  LET s == Recovered(jobs[k], now) IN
           \/ s = jobs[k]
           \/ /\ jobs[k].cOwner = NoOwner /\ s.cOwner = NoOwner
              /\ jobs[k].owner # NoOwner /\ s.owner = NoOwner
              /\ MemberOf(k) = {} /\ s.gen = jobs[k].gen
              /\ TimeHolds(s)
<1> DEFINE r == jobs[k]
           s == Recovered(r, now)
<1>1. /\ r \in Row /\ (Exists(k) => RowOK(r)) /\ clock \in Nat
      /\ LeaseHolds(k) /\ TimeHolds(r)
  BY Rows DEF LedgerInv, JournalInv, TimesInv, StoreInv, TypeOK
<1>2. MemberOf(k) # {} => r.owner = NoOwner
  BY <1>1 DEF MemberOf, LedgerInv, JournalInv, JournalHolds, LeaseHolds
<1>3. r.owner # NoOwner => r.cOwner = NoOwner /\ RowOK(r)
  BY <1>1, <1>2 DEF LeaseHolds, LedgerInv, StoreInv, UnusedRowsBlank
<1>4. CASE r.owner = NoOwner \/ r.expires > now
  BY <1>4 DEF Recovered
<1>5. CASE ~ (r.owner = NoOwner \/ r.expires > now) /\ r.state = "transferring"
  <2>1. s = AsUncertain(r, now, now)
    BY <1>5 DEF Recovered
  <2>2. TimeHolds(s)
    BY <1>1, <1>3, <1>5, <2>1, AsUncertainTimes
  <2>3. s.cOwner = r.cOwner /\ s.owner = NoOwner /\ s.gen = r.gen
    BY <1>1, <2>1 DEF AsUncertain, Row
  <2>4. QED
    BY <1>2, <1>3, <1>5, <2>2, <2>3
<1>6. CASE ~ (r.owner = NoOwner \/ r.expires > now) /\ r.state # "transferring"
  <2> DEFINE due == IF Claimable(r) THEN Earlier(r.due, now) ELSE r.due
  <2>1. s = [r EXCEPT !.owner = NoOwner, !.expires = 0, !.due = due,
                      !.updated = Later(now, r.created)]
    BY <1>6 DEF Recovered
  <2>2. s \in Row
    BY <1>1, RecoveredType
  <2> HIDE DEF due, r
  <2>3. /\ s.cOwner = r.cOwner /\ s.owner = NoOwner /\ s.gen = r.gen
        /\ s.created = r.created /\ s.started = r.started /\ s.accepted = r.accepted
        /\ s.published = r.published /\ s.remote = r.remote /\ s.intent = r.intent
        /\ s.updated = Later(now, r.created)
    BY <1>1, <2>1 DEF Row
  <2>4. TimeHolds(s)
    <3> HIDE DEF s
    <3>1. QED
      BY <1>1, <2>2, <2>3, EditTimes
  <2>5. QED
    BY <1>2, <1>3, <1>6, <2>3, <2>4 DEF r
<1>7. QED
  BY <1>4, <1>5, <1>6

(* claim_one and claim_for_action.                                                *)
LEMMA ClaimsCalm ==
    ASSUME LedgerInv, NEW j \in Jobs, ClaimSteps(j)
    PROVE  UNCHANGED <<intents, clock>> /\ \A k \in Jobs : Calm(k)
<1>1. jobs \in [Jobs -> Row] /\ clock \in Nat
  BY DEF LedgerInv, StoreInv, TypeOK
<1>2. PICK w \in Owners, now \in 1..clock :
          \E any \in BOOLEAN : ClaimJob(j, w, any, now) \/ ClaimNothing(j, any, now)
  BY DEF ClaimSteps
<1>3. PICK any \in BOOLEAN : ClaimJob(j, w, any, now) \/ ClaimNothing(j, any, now)
  BY <1>2
<1>4. now \in Nat /\ now <= clock
  BY <1>1
<1>5. UNCHANGED <<intents, clock>>
  BY <1>3 DEF ClaimJob, ClaimNothing
<1>6. ASSUME NEW k \in Jobs, jobs'[k] = Recovered(jobs[k], now)
      PROVE  Calm(k)
  BY <1>1, <1>4, <1>5, <1>6, RecoveredCalm, RecoveryTakesOver DEF Calm, TimeHolds
<1>7. CASE ClaimNothing(j, any, now)
  <2>1. \A k \in Jobs : jobs'[k] = Recovered(jobs[k], now)
    BY <1>7 DEF ClaimNothing
  <2>2. QED
    BY <1>5, <1>6, <2>1
<1>8. CASE ClaimJob(j, w, any, now)
  <2> DEFINE r == Recovered(jobs[j], now)
             s == Claimed(r, w, now)
  <2>1. /\ jobs'[j] = s
        /\ \A k \in Jobs \ {j} : jobs'[k] = Recovered(jobs[k], now)
    BY <1>8 DEF ClaimJob
  <2>2. Exists(j) /\ Claimable(r) /\ r.owner = NoOwner /\ r.cOwner = NoOwner
    BY <1>8 DEF ClaimJob, ClaimSucceeds, ClaimableNow
  <2>3. r \in Row /\ RowOK(r)
    BY <1>4, <2>2, RecoveryStep DEF LedgerInv
  <2>4. s \in Row /\ s.owner = w /\ w # NoOwner
    BY <2>2, <2>3, <1>4, ClaimedValid, StoreAssumption DEF Claimed, Row
  <2>5. /\ s.state = r.state /\ s.cOwner = r.cOwner /\ s.gen = r.gen + 1
        /\ s.created = r.created /\ s.started = r.started /\ s.accepted = r.accepted
        /\ s.published = r.published /\ s.remote = r.remote /\ s.intent = r.intent
        /\ s.updated = Later(now, r.created)
    BY <2>3 DEF Claimed, Row
  <2>6. r.state # "published"
    BY <2>2 DEF Claimable, HttpMethod, ReconciliationEligible
  <2>7. /\ jobs[j].cOwner = NoOwner /\ TimeHolds(r) /\ r.gen = jobs[j].gen
        /\ MemberOf(j) # {} => r = jobs[j]
    BY <1>4, <2>2, RecoveredCalm DEF LedgerInv, TimesInv
  <2>8. MemberOf(j) = {}
    BY <2>6, <2>7 DEF MemberOf, LedgerInv, JournalInv, JournalHolds
  <2> HIDE DEF r, s
  <2>9. TimeHolds(s)
    BY <1>1, <1>4, <2>3, <2>4, <2>5, <2>7, EditTimes
  <2>10. jobs[j].owner # NoOwner => TakenOver(jobs[j], s)
    BY <1>1, <1>4, <2>2, RecoveryTakesOver DEF r, s
  <2>11. Calm(j)
    BY <2>1, <2>2, <2>5, <2>6, <2>7, <2>8, <2>9, <2>10 DEF Calm
  <2>12. QED
    BY <1>5, <1>6, <2>1, <2>11
<1>9. QED
  BY <1>3, <1>7, <1>8

(* A commit on a row that no cleanup leases, by a caller that is fenced or finds    *)
(* the row without a lease.                                                        *)
LEMMA CommitCalm ==
    ASSUME LedgerInv, NEW j \in Jobs, NEW w, NEW gen, NEW new,
           jobs[j].cOwner = NoOwner,
           jobs[j].owner = NoOwner \/ jobs[j].expires > clock,
           jobs' = [jobs EXCEPT ![j] = new], UNCHANGED <<intents, clock>>,
           new.cOwner = NoOwner, TimeHolds(new),
           MemberOf(j) # {} => new.state = "published",
           new.state = "published" => new.owner = NoOwner
    PROVE  UNCHANGED <<intents, clock>> /\ \A k \in Jobs : Calm(k)
<1>1. jobs \in [Jobs -> Row]
  BY DEF LedgerInv, StoreInv, TypeOK
<1>2. jobs'[j] = new /\ \A k \in Jobs \ {j} : jobs'[k] = jobs[k]
  BY <1>1
<1>3. Calm(j)
  BY <1>2 DEF Calm
<1>4. \A k \in Jobs \ {j} : Calm(k)
  BY <1>2 DEF Calm
<1>5. QED
  BY <1>3, <1>4

(* What a worker's fence tells of the row: it is of no journal.                    *)
LEMMA FencedRow ==
    ASSUME LedgerInv, NEW j \in Jobs, NEW w \in Owners, NEW gen,
           Exists(j), Fenced(jobs[j], w, gen)
    PROVE  /\ jobs[j] \in Row /\ RowOK(jobs[j]) /\ TimeHolds(jobs[j])
           /\ jobs[j].state # "published" /\ MemberOf(j) = {}
           /\ jobs[j].cOwner = NoOwner /\ jobs[j].owner # NoOwner /\ jobs[j].expires > clock
<1>1. jobs[j] \in Row /\ RowOK(jobs[j]) /\ TimeHolds(jobs[j])
  BY HeldNotRemoved DEF LedgerInv, TimesInv
<1>2. jobs[j].cOwner = NoOwner /\ jobs[j].owner # NoOwner /\ jobs[j].expires > clock
  BY StoreAssumption DEF Fenced
<1>3. jobs[j].state # "published"
  BY <1>2 DEF LedgerInv, JournalInv, LeaseHolds
<1>4. MemberOf(j) = {}
  BY <1>3 DEF MemberOf, LedgerInv, JournalInv, JournalHolds
<1>5. QED
  BY <1>1, <1>2, <1>3, <1>4

(* A commit under a worker's fence.                                               *)
LEMMA FencedCommitCalm ==
    ASSUME LedgerInv, NEW j \in Jobs, NEW w \in Owners, NEW gen, NEW new,
           Exists(j), Fenced(jobs[j], w, gen), Commit(j, new),
           new.cOwner = jobs[j].cOwner, TimeHolds(new),
           new.state = "published" => new.owner = NoOwner
    PROVE  UNCHANGED <<intents, clock>> /\ \A k \in Jobs : Calm(k)
BY FencedRow, CommitCalm DEF Commit

(* transition(), for each transition the publisher asks for.                       *)
LEMMA TransitionCalm ==
    ASSUME LedgerInv, NEW j \in Jobs, NEW w \in Owners, NEW gen, NEW sources,
           NEW target \in LiveStates \ {"queued", "local_removed"},
           NEW remote \in Remotes \cup {NoRemote}, NEW token \in Markers \cup {NoMarker},
           NEW requested \in Operations,
           Transition(j, w, gen, sources, target, remote, token, requested),
           target = "transferring" => sources = {"queued"},
           target = "uncertain" => sources \subseteq {"transferring", "uncertain"},
           target = "metadata_pending" => remote # NoRemote,
           target \in {"blocked", "missing", "published"} => remote = NoRemote
    PROVE  UNCHANGED <<intents, clock>> /\ \A k \in Jobs : Calm(k)
<1> DEFINE new == Transitioned(jobs[j], target, remote, token, requested)
<1>1. Exists(j) /\ Fenced(jobs[j], w, gen) /\ jobs[j].state \in sources /\ Commit(j, new)
  BY DEF Transition, MayTransition
<1>2. jobs[j] \in Row /\ RowOK(jobs[j]) /\ TimeHolds(jobs[j]) /\ clock \in Nat
  BY <1>1, FencedRow DEF LedgerInv, StoreInv, TypeOK
<1>3. /\ target = "transferring" => jobs[j].state = "queued"
      /\ target = "uncertain" => jobs[j].state \in {"transferring", "uncertain"}
  BY <1>1
<1>4. TimeHolds(new)
  BY <1>2, <1>3, TransitionedTimes
<1>5. /\ new.cOwner = jobs[j].cOwner /\ new.state = target
      /\ target = "published" => new.owner = NoOwner
  BY <1>2 DEF Transitioned, Row
<1> HIDE DEF new
<1>6. QED
  BY <1>1, <1>4, <1>5, FencedCommitCalm

(* renew, release and schedule.                                                   *)
LEMMA LeaseEditsCalm ==
    ASSUME LedgerInv, NEW j \in Jobs, NEW w \in Owners, NEW gen, NEW due \in Nat,
           Renew(j, w, gen) \/ Release(j, w, gen, due) \/ Schedule(j, w, gen, due)
    PROVE  UNCHANGED <<intents, clock>> /\ \A k \in Jobs : Calm(k)
<1> DEFINE Goal == UNCHANGED <<intents, clock>> /\ \A k \in Jobs : Calm(k)
<1>1. Exists(j) /\ Fenced(jobs[j], w, gen)
  BY DEF Renew, Release, Schedule
<1>2. /\ jobs[j] \in Row /\ RowOK(jobs[j]) /\ TimeHolds(jobs[j]) /\ clock \in Nat
      /\ jobs[j].state # "published"
  BY <1>1, FencedRow DEF LedgerInv, StoreInv, TypeOK
<1>3. CASE Renew(j, w, gen)
  <2> DEFINE new == [jobs[j] EXCEPT !.expires = clock + LeaseMs,
                                    !.updated = Later(clock, jobs[j].created)]
  <2>1. new \in Row /\ new.remote = jobs[j].remote
    BY <1>2, RowEditTypes
  <2>2. Commit(j, new)
    BY <1>3 DEF Renew
  <2>3. /\ new.cOwner = jobs[j].cOwner /\ new.state = jobs[j].state
        /\ new.created = jobs[j].created /\ new.started = jobs[j].started
        /\ new.accepted = jobs[j].accepted /\ new.published = jobs[j].published
        /\ new.intent = jobs[j].intent
        /\ new.updated = Later(clock, jobs[j].created)
    BY <1>2 DEF Row
  <2> HIDE DEF new
  <2>4. TimeHolds(new)
    BY <1>2, <2>1, <2>3, EditTimes
  <2>5. QED
    BY <1>1, <1>2, <2>2, <2>3, <2>4, FencedCommitCalm
<1>4. ASSUME Release(j, w, gen, due) \/ Schedule(j, w, gen, due),
             ~ (Schedule(j, w, gen, due) /\ jobs[j].state = "transferring")
      PROVE  Goal
  <2> DEFINE new == [jobs[j] EXCEPT !.owner = NoOwner, !.expires = 0, !.due = due,
                                    !.updated = Later(clock, jobs[j].created)]
  <2>1. new \in Row /\ new.remote = jobs[j].remote
    BY <1>2, RowEditTypes
  <2>2. Commit(j, new)
    BY <1>4 DEF Release, Schedule
  <2>3. /\ new.cOwner = jobs[j].cOwner /\ new.state = jobs[j].state
        /\ new.created = jobs[j].created /\ new.started = jobs[j].started
        /\ new.accepted = jobs[j].accepted /\ new.published = jobs[j].published
        /\ new.intent = jobs[j].intent
        /\ new.updated = Later(clock, jobs[j].created)
    BY <1>2 DEF Row
  <2> HIDE DEF new
  <2>4. TimeHolds(new)
    BY <1>2, <2>1, <2>3, EditTimes
  <2>5. QED
    BY <1>1, <1>2, <2>2, <2>3, <2>4, FencedCommitCalm
<1>5. ASSUME Schedule(j, w, gen, due), jobs[j].state = "transferring"
      PROVE  Goal
  <2> DEFINE new == AsUncertain(jobs[j], due, clock)
  <2>1. Commit(j, new)
    BY <1>5 DEF Schedule
  <2>2. TimeHolds(new)
    BY <1>2, <1>5, AsUncertainTimes
  <2>3. new.cOwner = jobs[j].cOwner /\ new.owner = NoOwner
    BY <1>2 DEF AsUncertain, Row
  <2> HIDE DEF new
  <2>4. QED
    BY <1>1, <2>1, <2>2, <2>3, FencedCommitCalm
<1>6. QED
  BY <1>3, <1>4, <1>5

(* update_tag_status and resolve_reconciled_tags.                                 *)
LEMMA TagStepsCalm ==
    ASSUME LedgerInv, NEW j \in Jobs, NEW w \in Owners, NEW gen,
           \/ \E tags \in SUBSET jobs[j].frozen : UpdateTagStatus(j, w, gen, "known", tags)
           \/ UpdateTagStatus(j, w, gen, "unknown", {})
           \/ ResolveReconciledTags(j, w, gen)
    PROVE  UNCHANGED <<intents, clock>> /\ \A k \in Jobs : Calm(k)
<1>1. Exists(j) /\ Fenced(jobs[j], w, gen)
  BY DEF UpdateTagStatus, ResolveReconciledTags
<1>2. /\ jobs[j] \in Row /\ RowOK(jobs[j]) /\ TimeHolds(jobs[j]) /\ clock \in Nat
      /\ jobs[j].state # "published" /\ Later(clock, jobs[j].created) \in Nat
  BY <1>1, FencedRow, LaterIsTime DEF LedgerInv, StoreInv, TypeOK, Row
<1>3. ASSUME NEW tags \in SUBSET Tags, NEW outcome \in TagOutcomes,
             Commit(j, [jobs[j] EXCEPT !.effective = tags, !.outcome = outcome,
                                       !.updated = Later(clock, jobs[j].created)])
      PROVE  UNCHANGED <<intents, clock>> /\ \A k \in Jobs : Calm(k)
  <2> DEFINE new == [jobs[j] EXCEPT !.effective = tags, !.outcome = outcome,
                                    !.updated = Later(clock, jobs[j].created)]
  <2>1. new \in Row
    BY <1>2 DEF Row
  <2>2. /\ new.cOwner = jobs[j].cOwner /\ new.state = jobs[j].state
        /\ new.created = jobs[j].created /\ new.started = jobs[j].started
        /\ new.accepted = jobs[j].accepted /\ new.published = jobs[j].published
        /\ new.intent = jobs[j].intent /\ new.remote = jobs[j].remote
        /\ new.updated = Later(clock, jobs[j].created)
    BY <1>2 DEF Row
  <2> HIDE DEF new
  <2>3. TimeHolds(new)
    BY <1>2, <2>1, <2>2, EditTimes
  <2>4. QED
    BY <1>1, <1>2, <1>3, <2>2, <2>3, FencedCommitCalm DEF new
<1>4. jobs[j].frozen \in SUBSET Tags /\ jobs[j].effective \in SUBSET Tags
        /\ jobs[j].outcome \in TagOutcomes /\ {"known", "unknown"} \subseteq TagOutcomes
  BY <1>2 DEF Row, TagOutcomes
<1>5. CASE ResolveReconciledTags(j, w, gen)
  <2> DEFINE tags == IF jobs[j].outcome = "unknown" THEN jobs[j].frozen ELSE jobs[j].effective
             outcome == IF jobs[j].outcome = "unknown" THEN "known" ELSE jobs[j].outcome
  <2>1. tags \in SUBSET Tags /\ outcome \in TagOutcomes
    BY <1>4
  <2>2. Commit(j, [jobs[j] EXCEPT !.effective = tags, !.outcome = outcome,
                                  !.updated = Later(clock, jobs[j].created)])
    BY <1>5 DEF ResolveReconciledTags, TagsReconciled
  <2> HIDE DEF tags, outcome
  <2>3. QED
    BY <1>3, <2>1, <2>2
<1>6. CASE \/ \E tags \in SUBSET jobs[j].frozen : UpdateTagStatus(j, w, gen, "known", tags)
           \/ UpdateTagStatus(j, w, gen, "unknown", {})
  <2>1. PICK tags \in SUBSET Tags, outcome \in TagOutcomes :
            UpdateTagStatus(j, w, gen, outcome, tags)
    BY <1>4, <1>6
  <2>2. QED
    BY <1>3, <2>1 DEF UpdateTagStatus
<1>7. QED
  BY <1>5, <1>6

(* Every operation of a publication worker under its lease.                       *)
LEMMA WorkersCalm ==
    ASSUME LedgerInv, NEW j \in Jobs, WorkerSteps(j)
    PROVE  UNCHANGED <<intents, clock>> /\ \A k \in Jobs : Calm(k)
<1> DEFINE Goal == UNCHANGED <<intents, clock>> /\ \A k \in Jobs : Calm(k)
           gen == jobs[j].gen
<1>1. PICK w \in Owners :
        \/ Renew(j, w, gen) \/ Release(j, w, gen, clock)
              \/ \E due \in {clock, clock + 1} : Schedule(j, w, gen, due)
        \/ \/ \E tags \in SUBSET jobs[j].frozen : UpdateTagStatus(j, w, gen, "known", tags)
           \/ UpdateTagStatus(j, w, gen, "unknown", {})
           \/ ResolveReconciledTags(j, w, gen)
        \/ \E marker \in Markers : BeginTransfer(j, w, gen, marker)
        \/ \E remote \in Remotes, source \in {"transferring", "uncertain"} :
              AcceptTransfer(j, w, gen, source, remote)
        \/ MoveToUncertain(j, w, gen)
        \/ TerminalUncertain(j, w, gen)
        \/ Block(j, w, gen) \/ MarkMissing(j, w, gen) \/ MarkPublished(j, w, gen)
  BY DEF WorkerSteps
<1> HIDE DEF gen
<1>2. clock \in Nat /\ clock + 1 \in Nat
  BY DEF LedgerInv, StoreInv, TypeOK
<1>3. /\ {"transferring", "metadata_pending", "uncertain", "blocked", "missing", "published"}
            \subseteq LiveStates \ {"queued", "local_removed"}
      /\ \A remote \in Remotes : remote # NoRemote
  BY StoreAssumption DEF LiveStates
<1>4. ASSUME Renew(j, w, gen) \/ Release(j, w, gen, clock)
                \/ \E due \in {clock, clock + 1} : Schedule(j, w, gen, due)
      PROVE  Goal
  BY <1>2, <1>4, LeaseEditsCalm
<1>5. ASSUME \/ \E tags \in SUBSET jobs[j].frozen : UpdateTagStatus(j, w, gen, "known", tags)
             \/ UpdateTagStatus(j, w, gen, "unknown", {})
             \/ ResolveReconciledTags(j, w, gen)
      PROVE  Goal
  BY <1>5, TagStepsCalm
<1>6. ASSUME NEW marker \in Markers, BeginTransfer(j, w, gen, marker)
      PROVE  Goal
  BY <1>3, <1>6, StateNames, TransitionCalm DEF BeginTransfer
<1>7. ASSUME NEW remote \in Remotes, NEW source \in {"transferring", "uncertain"},
             AcceptTransfer(j, w, gen, source, remote)
      PROVE  Goal
  BY <1>3, <1>7, StateNames, TransitionCalm DEF AcceptTransfer
<1>8. ASSUME MoveToUncertain(j, w, gen) \/ TerminalUncertain(j, w, gen)
      PROVE  Goal
  BY <1>3, <1>8, StateNames, TransitionCalm DEF MoveToUncertain, TerminalUncertain
<1>9. ASSUME Block(j, w, gen)
      PROVE  Goal
  BY <1>3, <1>9, StateNames, TransitionCalm DEF Block
<1>10. ASSUME MarkMissing(j, w, gen)
      PROVE  Goal
  BY <1>3, <1>10, StateNames, TransitionCalm DEF MarkMissing
<1>11. ASSUME MarkPublished(j, w, gen)
      PROVE  Goal
  BY <1>3, <1>11, StateNames, TransitionCalm DEF MarkPublished
<1> HIDE DEF Goal
<1>12. Goal
  BY <1>1, <1>4, <1>5, <1>6, <1>7, <1>8, <1>9, <1>10, <1>11
<1>13. QED
  BY <1>12 DEF Goal

(* relink() keeps a row's leases, and resumes a missing row to the phase it had.    *)
LEMMA RelinkedTimes ==
    ASSUME NEW r \in Row, TimeHolds(r), clock \in Nat, NEW path \in Paths
    PROVE  /\ TimeHolds(Relinked(r, path))
           /\ Relinked(r, path).cOwner = r.cOwner /\ Relinked(r, path).owner = r.owner
           /\ Relinked(r, path).state = "published" <=> r.state = "published"
<1>1. CASE r.state = "missing" /\ ResumeTarget(r.intent) # "refused"
  <2> DEFINE s == Resumed(r, ResumeTarget(r.intent), clock)
  <2>1. /\ ResumeTarget(r.intent) \in LiveStates \ {"published"}
        /\ ResumeTarget(r.intent) = "uncertain" => r.intent = "reconcile"
    BY <1>1 DEF ResumeTarget, LiveStates
  <2>2. s \in Row /\ TimeHolds(s)
    BY <2>1, ResumedType, ResumedTimes
  <2>3. s.cOwner = r.cOwner /\ s.state # "published"
    BY <2>1 DEF Resumed, Row
  <2>4. Relinked(r, path) = [s EXCEPT !.path = path, !.owner = r.owner, !.expires = r.expires]
    BY <1>1 DEF Relinked
  <2> DEFINE t == [s EXCEPT !.path = path, !.owner = r.owner, !.expires = r.expires]
  <2> HIDE DEF s
  <2>5. /\ t.state = s.state /\ t.cOwner = s.cOwner /\ t.owner = r.owner
        /\ t.created = s.created /\ t.updated = s.updated /\ t.started = s.started
        /\ t.accepted = s.accepted /\ t.published = s.published
        /\ t.intent = s.intent /\ t.remote = s.remote
    BY <2>2 DEF Row
  <2> HIDE DEF t
  <2>6. TimeHolds(t)
    BY <2>2, <2>5 DEF TimeHolds
  <2>7. QED
    BY <1>1, <2>3, <2>4, <2>5, <2>6 DEF t
<1>2. CASE ~ (r.state = "missing" /\ ResumeTarget(r.intent) # "refused")
  <2> DEFINE s == [r EXCEPT !.path = path, !.updated = Later(clock, r.created)]
  <2>1. Relinked(r, path) = s
    BY <1>2 DEF Relinked
  <2>2. Later(clock, r.created) <= clock
    BY DEF Later, TimeHolds, Row
  <2>3. /\ s.state = r.state /\ s.cOwner = r.cOwner /\ s.owner = r.owner
        /\ s.created = r.created /\ s.updated = Later(clock, r.created)
        /\ s.started = r.started
        /\ s.accepted = r.accepted /\ s.published = r.published
        /\ s.intent = r.intent /\ s.remote = r.remote
    BY DEF Row
  <2> HIDE DEF s
  <2>4. TimeHolds(s)
    BY <2>2, <2>3 DEF TimeHolds
  <2>5. QED
    BY <2>1, <2>3, <2>4
<1>3. QED
  BY <1>1, <1>2

(* create_or_reuse, retry, relink and forget.                                     *)
LEMMA OperatorsCalm ==
    ASSUME LedgerInv, NEW j \in Jobs, OperatorSteps(j)
    PROVE  UNCHANGED <<intents, clock>> /\ \A k \in Jobs : Calm(k)
<1> DEFINE Goal == UNCHANGED <<intents, clock>> /\ \A k \in Jobs : Calm(k)
<1>1. /\ jobs[j] \in Row /\ TimeHolds(jobs[j]) /\ clock \in Nat /\ LeaseHolds(j)
      /\ MemberOf(j) # {} => jobs[j].state = "published"
  BY DEF LedgerInv, StoreInv, TypeOK, TimesInv, JournalInv, JournalHolds, MemberOf
<1>2. ASSUME NEW w \in FencedClients, Fenced(jobs[j], w, jobs[j].gen)
      PROVE  jobs[j].cOwner = NoOwner /\ (jobs[j].owner = NoOwner \/ jobs[j].expires > clock)
  BY <1>2 DEF Fenced
<1>3. ASSUME NEW path \in Paths, NEW tags \in SUBSET Tags, Create(j, path, tags)
      PROVE  Goal
  <2> DEFINE new == [NoRow EXCEPT !.state = "queued", !.op = "post", !.intent = "post",
                                  !.path = path, !.due = clock, !.frozen = tags,
                                  !.created = clock, !.updated = clock]
  <2>1. Commit(j, new) /\ jobs[j].state = "absent"
    BY <1>3 DEF Create
  <2>2. jobs[j].owner = NoOwner
    BY <2>1 DEF LedgerInv, StoreInv, UnusedRowsBlank, Exists, LiveStates
  <2>3. MemberOf(j) = {} /\ jobs[j].cOwner = NoOwner
    BY <1>1, <2>1 DEF LeaseHolds
  <2>4. /\ new.state = "queued" /\ new.cOwner = NoOwner /\ new.created = clock
        /\ new.updated = clock /\ new.started = 0 /\ new.accepted = 0 /\ new.published = 0
        /\ new.intent = "post"
    BY DEF NoRow
  <2> HIDE DEF new
  <2>5. TimeHolds(new)
    BY <1>1, <2>4 DEF TimeHolds
  <2>6. QED
    BY <2>1, <2>2, <2>3, <2>4, <2>5, CommitCalm DEF Commit
<1>4. ASSUME NEW w \in FencedClients, Retry(j, w, jobs[j].gen)
      PROVE  Goal
  <2> DEFINE target == RetryTarget(jobs[j])
             new == Resumed(jobs[j], target, clock)
  <2>1. /\ target # "refused" /\ Fenced(jobs[j], w, jobs[j].gen) /\ Commit(j, new)
    BY <1>4 DEF Retry
  <2>2. /\ target \in LiveStates \ {"published"} /\ jobs[j].state # "published"
        /\ target = "uncertain" => jobs[j].intent = "reconcile"
    BY <2>1 DEF RetryTarget, ResumeTarget, LiveStates
  <2> HIDE DEF target
  <2>3. TimeHolds(new)
    BY <1>1, <2>2, ResumedTimes
  <2>4. new.cOwner = jobs[j].cOwner /\ new.state = target
    BY <1>1 DEF Resumed, Row
  <2> HIDE DEF new
  <2>5. QED
    BY <1>1, <1>2, <2>1, <2>2, <2>3, <2>4, CommitCalm DEF Commit
<1>5. ASSUME NEW w \in FencedClients, NEW path \in Paths, Relink(j, w, jobs[j].gen, path)
      PROVE  Goal
  <2> DEFINE new == Relinked(jobs[j], path)
  <2>1. Fenced(jobs[j], w, jobs[j].gen) /\ Commit(j, new)
    BY <1>5 DEF Relink
  <2>2. /\ TimeHolds(new) /\ new.cOwner = jobs[j].cOwner /\ new.owner = jobs[j].owner
        /\ new.state = "published" <=> jobs[j].state = "published"
    BY <1>1, RelinkedTimes
  <2> HIDE DEF new
  <2>3. new.state = "published" => new.owner = NoOwner
    BY <1>1, <2>2 DEF LeaseHolds
  <2>4. QED
    BY <1>1, <1>2, <2>1, <2>2, <2>3, CommitCalm DEF Commit
<1>6. ASSUME Forget(j)
      PROVE  Goal
  <2> DEFINE gone == [NoRow EXCEPT !.state = "forgotten"]
  <2>1. /\ jobs' = [jobs EXCEPT ![j] = gone] /\ UNCHANGED <<intents, clock>>
        /\ jobs[j].owner = NoOwner /\ jobs[j].cOwner = NoOwner /\ MemberOf(j) = {}
    BY <1>6 DEF Forget
  <2>2. /\ gone.state = "forgotten" /\ gone.cOwner = NoOwner /\ gone.created = 0
        /\ gone.updated = 0 /\ gone.started = 0 /\ gone.accepted = 0 /\ gone.published = 0
        /\ gone.intent = "none"
    BY DEF NoRow
  <2> HIDE DEF gone
  <2>3. TimeHolds(gone)
    BY <1>1, <2>2 DEF TimeHolds
  <2>4. QED
    BY <2>1, <2>2, <2>3, CommitCalm
<1> HIDE DEF Goal
<1>7. Goal
  BY <1>3, <1>4, <1>5, <1>6 DEF OperatorSteps
<1>8. QED
  BY <1>7 DEF Goal

(* update_path passes by a row under either lease.                                *)
LEMMA RenameCalm ==
    ASSUME LedgerInv, NEW old \in Paths, NEW new \in Paths, NEW identified \in SUBSET Jobs,
           UpdatePath(old, new, identified)
    PROVE  UNCHANGED <<intents, clock>> /\ \A k \in Jobs : Calm(k)
<1>1. UNCHANGED <<intents, clock>>
  BY DEF UpdatePath
<1>2. ASSUME NEW k \in Jobs
      PROVE  Calm(k)
  <2>1. CASE jobs'[k] = jobs[k]
    BY <2>1 DEF Calm
  <2>2. CASE jobs'[k] # jobs[k]
    <3> DEFINE s == [jobs[k] EXCEPT !.path = new]
    <3>1. /\ jobs'[k] = s /\ jobs[k].owner = NoOwner /\ jobs[k].cOwner = NoOwner
      BY <2>2 DEF UpdatePath
    <3>2. jobs[k] \in Row /\ TimeHolds(jobs[k])
      BY DEF LedgerInv, StoreInv, TypeOK, TimesInv
    <3>3. MemberOf(k) # {} => jobs[k].state = "published"
      BY DEF LedgerInv, JournalInv, JournalHolds, MemberOf
    <3>4. /\ s.state = jobs[k].state /\ s.cOwner = jobs[k].cOwner /\ s.owner = jobs[k].owner
          /\ s.created = jobs[k].created /\ s.updated = jobs[k].updated
          /\ s.started = jobs[k].started /\ s.accepted = jobs[k].accepted
          /\ s.published = jobs[k].published
          /\ s.intent = jobs[k].intent /\ s.remote = jobs[k].remote
      BY <3>2 DEF Row
    <3> HIDE DEF s
    <3>5. TimeHolds(s)
      BY <3>2, <3>4 DEF TimeHolds
    <3>6. QED
      BY <3>1, <3>3, <3>4, <3>5 DEF Calm
  <2>3. QED
    BY <2>1, <2>2
<1>3. QED
  BY <1>1, <1>2

---------------------------------------------------------------------------
(* The cleanup journal.                                                           *)

(* What the journal says before and after an operation on one of its entries.       *)
JournalMoves(i) ==
    intents[i].phase \notin {"none", FirstPhase} =>
        \/ intents'[i].phase = intents[i].phase
        \/ intents[i].phase # LastPhase /\ intents'[i].phase = NextPhase(intents[i].phase)
        \/ /\ intents[i].phase = LastPhase /\ intents'[i] = NoIntent
           /\ \A j \in intents[i].members : jobs'[j].state = "local_removed"

(* An operation on one journal that leaves every other journal, and every row not   *)
(* of this one, alone.                                                             *)
LEMMA JournalStep ==
    ASSUME LedgerInv, StoreInv', NEW i \in Intents, clock' = clock,
           \A k \in Intents \ {i} : intents'[k] = intents[k],
           \A j \in Jobs \ intents[i].members : jobs'[j] = jobs[j],
           JournalHolds(i)', JournalMoves(i),
           \A j \in intents'[i].members : MemberOf(j) \subseteq {i},
           \A j \in intents[i].members :
              /\ jobs'[j].cOwner # NoOwner => j \in intents'[i].members
              /\ jobs'[j].state = "published" => jobs'[j].owner = NoOwner
              /\ TimeHolds(jobs'[j])
              /\ jobs'[j] # jobs[j] /\ jobs[j].cExpires <= clock => jobs'[j].cGen > jobs[j].cGen,
           \A j \in Jobs \ intents[i].members :
              j \in intents'[i].members => jobs[j].cOwner = NoOwner
    PROVE  LedgerInv' /\ (\A j \in Jobs : Fences(j)) /\ (\A k \in Intents : JournalMoves(k))
<1>1. /\ jobs \in [Jobs -> Row] /\ jobs' \in [Jobs -> Row] /\ clock \in Nat
      /\ \A k \in Intents : intents[k].members \in SUBSET Jobs
      /\ \A k \in Intents : intents'[k].members \in SUBSET Jobs
  BY DEF LedgerInv, StoreInv, TypeOK, IntentRow
<1>2. \A j \in Jobs : LeaseHolds(j)
  BY DEF LedgerInv, JournalInv
<1>3. ASSUME NEW k \in Intents, k # i
      PROVE  JournalHolds(k)'
  <2>1. JournalHolds(k)
    BY DEF LedgerInv, JournalInv
  <2>2. \A j \in intents[k].members : jobs'[j] = jobs[j]
    BY <1>1, <1>2, <1>3 DEF LeaseHolds, MemberOf
  <2> DEFINE held == intents[k]
  <2>3. held = intents[k] /\ intents'[k] = held
    BY <1>3
  <2> HIDE DEF held
  <2>4. QED
    BY <2>1, <2>2, <2>3 DEF JournalHolds
<1>4. ASSUME NEW j \in Jobs
      PROVE  LeaseHolds(j)'
  <2>1. \A k, m \in Intents : j \in intents'[k].members /\ j \in intents'[m].members => k = m
    <3>1. \A k, m \in Intents : j \in intents[k].members /\ j \in intents[m].members => k = m
      BY <1>2 DEF LeaseHolds, MemberOf
    <3>2. \A k \in Intents \ {i} : j \in intents'[k].members => j \in intents[k].members
      OBVIOUS
    <3>3. j \in intents'[i].members =>
              \A k \in Intents \ {i} : j \notin intents[k].members
      BY DEF MemberOf
    <3>4. QED
      BY <3>1, <3>2, <3>3
  <2>2. ASSUME jobs'[j].cOwner # NoOwner
        PROVE  \E k \in Intents : j \in intents'[k].members
    <3>1. CASE j \in intents[i].members
      BY <2>2, <3>1
    <3>2. CASE j \notin intents[i].members
      <4>1. jobs[j].cOwner # NoOwner
        BY <2>2, <3>2
      <4>2. PICK k \in Intents : j \in intents[k].members
        BY <1>2, <4>1 DEF LeaseHolds, MemberOf
      <4>3. QED
        BY <3>2, <4>2
    <3>3. QED
      BY <3>1, <3>2
  <2>3. jobs'[j].state = "published" => jobs'[j].owner = NoOwner
    BY <1>2 DEF LeaseHolds
  <2>4. QED
    BY <2>1, <2>2, <2>3 DEF LeaseHolds, MemberOf
<1>5. ASSUME NEW j \in Jobs
      PROVE  TimeHolds(jobs[j])'
  <2>1. TimeHolds(jobs'[j])
    BY DEF LedgerInv, TimesInv
  <2>2. QED
    BY <2>1 DEF TimeHolds
<1>6. ASSUME NEW j \in Jobs
      PROVE  Fences(j)
  <2>1. j \in intents[i].members => jobs[j].owner = NoOwner
    BY <1>2 DEF LeaseHolds, LedgerInv, JournalInv, JournalHolds
  <2>2. QED
    BY <2>1 DEF Fences
<1>7. ASSUME NEW k \in Intents, k # i
      PROVE  JournalMoves(k)
  BY <1>7 DEF JournalMoves
<1>8. QED
  BY <1>3, <1>4, <1>5, <1>6, <1>7 DEF LedgerInv, JournalInv, TimesInv

(* A journal that moves on is past its first phase.                               *)
LEMMA NextPhaseIsLater ==
    /\ FirstPhase # "none" /\ FirstPhase # LastPhase /\ LastPhase # "none"
    /\ \A phase \in Phases : phase # LastPhase => NextPhase(phase) \notin {"none", FirstPhase}
<1>1. FirstPhase # "none" /\ FirstPhase # LastPhase /\ LastPhase # "none"
  BY DEF FirstPhase, LastPhase, PhaseOrder
<1>2. \A n \in 2..5 : PhaseOrder[n] \notin {"none", FirstPhase}
  BY DEF FirstPhase, PhaseOrder
<1>3. ASSUME NEW phase \in Phases, phase # LastPhase
      PROVE  NextPhase(phase) \notin {"none", FirstPhase}
  <2>1. PICK n \in 1..5 : phase = PhaseOrder[n]
    BY DEF Phases
  <2>2. n \in 1..4
    BY <1>3, <2>1 DEF LastPhase
  <2> DEFINE m == CHOOSE p \in 1..4 : PhaseOrder[p] = phase
  <2>3. m \in 1..4
    BY <2>1, <2>2
  <2> HIDE DEF m
  <2>4. 1 + m \in 2..5
    BY <2>3
  <2>5. NextPhase(phase) = PhaseOrder[1 + m]
    BY DEF NextPhase, m
  <2>6. QED
    BY <1>2, <2>4, <2>5
<1>4. QED
  BY <1>1, <1>3

(* The invariant about one journal and its rows.                                  *)
LEMMA MembersOf ==
    ASSUME LedgerInv, NEW i \in Intents, NEW j \in intents[i].members
    PROVE  /\ j \in Jobs /\ MemberOf(j) = {i} /\ jobs[j] \in Row /\ RowOK(jobs[j])
           /\ jobs[j].state = "published" /\ jobs[j].owner = NoOwner
           /\ TimeHolds(jobs[j])
           /\ clock \in Nat /\ jobs[j].cGen \in Nat /\ jobs[j].created \in Nat
<1>1. j \in Jobs
  BY DEF LedgerInv, StoreInv, TypeOK, IntentRow
<1>2. JournalHolds(i) /\ LeaseHolds(j) /\ TimeHolds(jobs[j])
  BY <1>1 DEF LedgerInv, JournalInv, TimesInv
<1>3. jobs[j].state = "published" /\ jobs[j].owner = NoOwner
  BY <1>2 DEF JournalHolds, LeaseHolds
<1>4. MemberOf(j) = {i}
  BY <1>2 DEF LeaseHolds, MemberOf
<1>5. jobs[j] \in Row /\ RowOK(jobs[j]) /\ clock \in Nat
  BY <1>1, <1>3, Rows DEF LedgerInv, Exists, LiveStates, StoreInv, TypeOK
<1>6. QED
  BY <1>1, <1>2, <1>3, <1>4, <1>5 DEF Row

(* Taking, keeping or dropping a cleanup lease does not touch the times.           *)
LEMMA LeaseEditTimes ==
    ASSUME clock \in Nat, NEW r \in Row, TimeHolds(r), NEW s,
           s.created = r.created, s.started = r.started, s.accepted = r.accepted,
           s.published = r.published, s.intent = r.intent, s.remote = r.remote,
           s.updated = Later(clock, r.created)
    PROVE  TimeHolds(s)
<1>1. Later(clock, r.created) <= clock
  BY DEF Later, TimeHolds, Row
<1>2. QED
  BY <1>1 DEF TimeHolds

(* The row a completed removal leaves keeps the times of its publication.          *)
LEMMA LocallyRemovedTimes ==
    ASSUME clock \in Nat, NEW r \in Row, TimeHolds(r)
    PROVE  LET s == LocallyRemoved(r)
           IN  s.state = "local_removed" /\ s.cOwner = NoOwner /\ TimeHolds(s)
<1> DEFINE s == LocallyRemoved(r)
<1>1. Later(clock, r.created) <= clock
  BY DEF Later, TimeHolds, Row
<1>2. /\ s.state = "local_removed" /\ s.cOwner = NoOwner
      /\ s.created = r.created /\ s.started = r.started /\ s.accepted = r.accepted
      /\ s.published = r.published /\ s.intent = "none" /\ s.remote = r.remote
      /\ s.updated = Later(clock, r.created)
  BY DEF LocallyRemoved, Row
<1> HIDE DEF s
<1>3. TimeHolds(s)
  BY <1>1, <1>2 DEF TimeHolds
<1>4. QED
  BY <1>2, <1>3 DEF s

(* What a current claim tells of its journal: it is leased, row by row.            *)
LEMMA ClaimHeld ==
    ASSUME LedgerInv, NEW i \in Intents, NEW claim, claim.owner \in Cleaners,
           ClaimCurrent(i, claim)
    PROVE  /\ intents[i].phase # "none" /\ intents[i].members # {}
           /\ \A j \in intents[i].members :
                 /\ jobs[j].cOwner # NoOwner /\ jobs[j].cGen = intents[i].gens[j]
                 /\ jobs[j].path = intents[i].path
                 /\ ~ (jobs[j].cExpires <= clock)
<1>1. JournalHolds(i) /\ claim.owner # NoOwner
  BY StoreAssumption DEF LedgerInv, JournalInv
<1>2. intents[i].phase # "none" /\ intents[i].members # {}
  BY <1>1 DEF ClaimCurrent, MembersUnchanged, JournalHolds
<1>3. \A j \in intents[i].members : jobs[j].cOwner # NoOwner
  BY <1>1 DEF ClaimCurrent
<1>4. ASSUME NEW j \in intents[i].members
      PROVE  ~ (jobs[j].cExpires <= clock)
  <2>1. jobs[j].cExpires > clock
    BY DEF ClaimCurrent
  <2>2. jobs[j].cExpires \in Nat /\ clock \in Nat
    BY MembersOf DEF Row
  <2>3. QED
    BY <2>1, <2>2
<1>5. QED
  BY <1>1, <1>2, <1>3, <1>4 DEF JournalHolds

(* prepare_cleanup_intent takes rows that no journal holds and nobody leases;      *)
(* abort_cleanup_intent without a claim drops a journal nobody leases.             *)
LEMMA UnclaimedJournal ==
    ASSUME LedgerInv, StoreInv', NEW i \in Intents,
           Abort(i) \/ \E path \in Paths : PrepareIntent(i, path)
    PROVE  LedgerInv' /\ (\A j \in Jobs : Fences(j)) /\ (\A k \in Intents : JournalMoves(k))
<1> DEFINE Goal == LedgerInv' /\ (\A j \in Jobs : Fences(j))
                     /\ (\A k \in Intents : JournalMoves(k))
<1>1. /\ intents \in [Intents -> IntentRow] /\ JournalHolds(i)
      /\ \A k \in Intents : intents[k].members \in SUBSET Jobs
  BY DEF LedgerInv, StoreInv, TypeOK, JournalInv, IntentRow
<1>2. jobs' = jobs /\ clock' = clock /\ \A k \in Intents \ {i} : intents'[k] = intents[k]
  BY <1>1 DEF Abort, PrepareIntent
<1>3. intents[i].phase \in {"none", FirstPhase}
  BY DEF Abort, PrepareIntent
<1>4. JournalMoves(i)
  BY <1>3 DEF JournalMoves
<1>5. CASE Abort(i)
  <2>1. intents'[i].phase = "none" /\ intents'[i].members = {}
    BY <1>1, <1>5 DEF Abort, NoIntent
  <2>2. JournalHolds(i)'
    BY <2>1 DEF JournalHolds
  <2>3. \A j \in intents[i].members :
          /\ jobs[j].cOwner = NoOwner /\ jobs[j].owner = NoOwner /\ TimeHolds(jobs[j])
    BY <1>5, MembersOf DEF Abort
  <2>4. QED
    BY <1>2, <1>4, <2>1, <2>2, <2>3, JournalStep
<1>6. ASSUME NEW path \in Paths, PrepareIntent(i, path)
      PROVE  Goal
  <2>1. /\ intents'[i].phase = FirstPhase /\ intents'[i].members = Group(path)
        /\ Group(path) # {} /\ intents[i].members = {}
        /\ \A j \in Group(path) : /\ jobs[j].state = "published" /\ jobs[j].cOwner = NoOwner
                                  /\ MemberOf(j) = {}
    BY <1>1, <1>6 DEF PrepareIntent, JournalHolds
  <2>2. JournalHolds(i)'
    BY <1>2, <2>1, NextPhaseIsLater DEF JournalHolds
  <2>3. QED
    BY <1>2, <1>4, <2>1, <2>2, JournalStep
<1> HIDE DEF Goal
<1>7. Goal
  BY <1>5, <1>6 DEF Goal
<1>8. QED
  BY <1>7 DEF Goal

(* claim_cleanup_group leases every row of the journal under the generations the    *)
(* journal records.                                                               *)
LEMMA ClaimJournal ==
    ASSUME LedgerInv, StoreInv', NEW i \in Intents, NEW c \in Cleaners, ClaimGroup(i, c)
    PROVE  LedgerInv' /\ (\A j \in Jobs : Fences(j)) /\ (\A k \in Intents : JournalMoves(k))
<1>1. /\ intents \in [Intents -> IntentRow] /\ JournalHolds(i) /\ c # NoOwner
      /\ \A k \in Intents : intents[k].members \in SUBSET Jobs
  BY StoreAssumption DEF LedgerInv, StoreInv, TypeOK, JournalInv, IntentRow
<1> DEFINE pinned == [j \in Jobs |-> IF j \in intents[i].members THEN jobs[j].cGen + 1 ELSE 0]
           expires == clock + CleanupLeaseMs
<1>2. /\ clock' = clock /\ intents' = [intents EXCEPT ![i].gens = pinned]
      /\ \A j \in Jobs \ intents[i].members : jobs'[j] = jobs[j]
      /\ intents[i].phase # "none" /\ intents[i].members = Group(intents[i].path)
  BY DEF ClaimGroup, MembersUnchanged
<1>3. /\ \A k \in Intents \ {i} : intents'[k] = intents[k]
      /\ intents'[i].phase = intents[i].phase /\ intents'[i].members = intents[i].members
      /\ intents'[i].path = intents[i].path /\ intents'[i].gens = pinned
  <2> HIDE DEF pinned
  <2>1. QED
    BY <1>1, <1>2 DEF IntentRow
<1>4. ASSUME NEW j \in intents[i].members
      PROVE  /\ jobs'[j].state = "published" /\ jobs'[j].owner = NoOwner
             /\ jobs'[j].path = intents[i].path
             /\ jobs'[j].cOwner # NoOwner /\ jobs'[j].cGen = pinned[j]
             /\ jobs'[j].cGen > jobs[j].cGen
             /\ TimeHolds(jobs'[j])
  <2>1. /\ j \in Jobs /\ jobs[j] \in Row /\ jobs[j].state = "published"
        /\ jobs[j].owner = NoOwner /\ TimeHolds(jobs[j]) /\ clock \in Nat
        /\ jobs[j].cGen \in Nat
    BY MembersOf
  <2>2. jobs[j].path = intents[i].path
    BY <1>2 DEF Group
  <2> HIDE DEF expires
  <2>3. jobs'[j] = [jobs[j] EXCEPT !.cOwner = c, !.cGen = jobs[j].cGen + 1,
                                   !.cExpires = expires,
                                   !.updated = Later(clock, jobs[j].created)]
    BY <2>1 DEF ClaimGroup, expires
  <2>4. /\ jobs'[j].state = jobs[j].state /\ jobs'[j].owner = jobs[j].owner
        /\ jobs'[j].path = jobs[j].path /\ jobs'[j].cOwner = c
        /\ jobs'[j].cGen = jobs[j].cGen + 1
        /\ jobs'[j].created = jobs[j].created /\ jobs'[j].started = jobs[j].started
        /\ jobs'[j].accepted = jobs[j].accepted /\ jobs'[j].published = jobs[j].published
        /\ jobs'[j].intent = jobs[j].intent /\ jobs'[j].remote = jobs[j].remote
        /\ jobs'[j].updated = Later(clock, jobs[j].created)
    BY <2>1, <2>3 DEF Row
  <2>5. TimeHolds(jobs'[j])
    BY <2>1, <2>4, LeaseEditTimes
  <2>6. pinned[j] = jobs[j].cGen + 1
    BY <2>1
  <2>7. QED
    BY <1>1, <2>1, <2>2, <2>4, <2>5, <2>6
<1> HIDE DEF pinned
<1>5. JournalHolds(i)'
  BY <1>1, <1>2, <1>3, <1>4 DEF JournalHolds
<1>6. JournalMoves(i)
  BY <1>3 DEF JournalMoves
<1>7. \A j \in intents'[i].members : MemberOf(j) \subseteq {i}
  BY <1>3, MembersOf
<1>8. QED
  BY <1>2, <1>3, <1>4, <1>5, <1>6, <1>7, JournalStep

(* Advancing and renewing under a current claim.                                  *)
LEMMA HeldJournal ==
    ASSUME LedgerInv, StoreInv', NEW i \in Intents, NEW claim, claim.owner \in Cleaners,
           RenewGroup(i, claim) \/ \E phase \in Phases : Advance(i, claim, phase)
    PROVE  LedgerInv' /\ (\A j \in Jobs : Fences(j)) /\ (\A k \in Intents : JournalMoves(k))
<1> DEFINE Goal == LedgerInv' /\ (\A j \in Jobs : Fences(j))
                     /\ (\A k \in Intents : JournalMoves(k))
<1>1. /\ intents \in [Intents -> IntentRow] /\ JournalHolds(i)
      /\ \A k \in Intents : intents[k].members \in SUBSET Jobs
  BY DEF LedgerInv, StoreInv, TypeOK, JournalInv, IntentRow
<1>2. ClaimCurrent(i, claim) /\ clock' = clock
  BY DEF RenewGroup, Advance
<1>3. /\ intents[i].phase # "none" /\ intents[i].members # {}
      /\ \A j \in intents[i].members :
            /\ jobs[j].cOwner # NoOwner /\ jobs[j].cGen = intents[i].gens[j]
            /\ jobs[j].path = intents[i].path
            /\ ~ (jobs[j].cExpires <= clock)
            /\ jobs[j].state = "published" /\ jobs[j].owner = NoOwner
            /\ TimeHolds(jobs[j]) /\ MemberOf(j) = {i} /\ j \in Jobs
  BY <1>2, ClaimHeld, MembersOf
<1>4. CASE RenewGroup(i, claim)
  <2>1. intents' = intents /\ \A j \in Jobs \ intents[i].members : jobs'[j] = jobs[j]
    BY <1>4 DEF RenewGroup
  <2>2. ASSUME NEW j \in intents[i].members
        PROVE  /\ jobs'[j].state = "published" /\ jobs'[j].owner = NoOwner
               /\ jobs'[j].path = intents[i].path
               /\ jobs'[j].cOwner # NoOwner /\ jobs'[j].cGen = intents[i].gens[j]
               /\ TimeHolds(jobs'[j])
    <3> DEFINE expires == clock + CleanupLeaseMs
    <3>1. j \in Jobs /\ jobs[j] \in Row /\ clock \in Nat
      BY MembersOf
    <3>2. jobs'[j] = [jobs[j] EXCEPT !.cExpires = expires,
                                     !.updated = Later(clock, jobs[j].created)]
      BY <1>4, <3>1 DEF RenewGroup
    <3> HIDE DEF expires
    <3>3. /\ jobs'[j].state = jobs[j].state /\ jobs'[j].owner = jobs[j].owner
          /\ jobs'[j].path = jobs[j].path /\ jobs'[j].cOwner = jobs[j].cOwner
          /\ jobs'[j].cGen = jobs[j].cGen
          /\ jobs'[j].created = jobs[j].created /\ jobs'[j].started = jobs[j].started
          /\ jobs'[j].accepted = jobs[j].accepted /\ jobs'[j].published = jobs[j].published
          /\ jobs'[j].intent = jobs[j].intent /\ jobs'[j].remote = jobs[j].remote
          /\ jobs'[j].updated = Later(clock, jobs[j].created)
      BY <3>1, <3>2 DEF Row
    <3>4. TimeHolds(jobs'[j])
      BY <1>3, <3>1, <3>3, LeaseEditTimes
    <3>5. QED
      BY <1>3, <3>3, <3>4
  <2>3. JournalHolds(i)'
    BY <1>1, <1>3, <2>1, <2>2 DEF JournalHolds
  <2>4. JournalMoves(i)
    BY <2>1 DEF JournalMoves
  <2>5. QED
    BY <1>2, <1>3, <2>1, <2>2, <2>3, <2>4, JournalStep
<1>5. ASSUME NEW phase \in Phases, Advance(i, claim, phase)
      PROVE  Goal
  <2>1. /\ intents[i].phase = phase /\ phase # LastPhase /\ jobs' = jobs
        /\ intents' = [intents EXCEPT ![i].phase = NextPhase(phase)]
    BY <1>5 DEF Advance
  <2>2. /\ \A k \in Intents \ {i} : intents'[k] = intents[k]
        /\ intents'[i].phase = NextPhase(phase) /\ intents'[i].members = intents[i].members
        /\ intents'[i].path = intents[i].path /\ intents'[i].gens = intents[i].gens
    BY <1>1, <2>1 DEF IntentRow
  <2>3. JournalHolds(i)'
    BY <1>1, <1>3, <2>1, <2>2, NextPhaseIsLater DEF JournalHolds
  <2>4. JournalMoves(i)
    BY <2>1, <2>2 DEF JournalMoves
  <2>5. QED
    BY <1>2, <1>3, <2>1, <2>2, <2>3, <2>4, JournalStep
<1> HIDE DEF Goal
<1>6. Goal
  BY <1>4, <1>5 DEF Goal
<1>7. QED
  BY <1>6 DEF Goal

(* release_cleanup_group and a claimed abort drop the leases of a journal that has   *)
(* moved no file; complete_cleanup_group ends one whose files are gone.             *)
LEMMA DroppedJournal ==
    ASSUME LedgerInv, StoreInv', NEW i \in Intents, NEW claim, claim.owner \in Cleaners,
           ReleaseGroup(i, claim) \/ AbortClaimed(i, claim) \/ CompleteGroup(i, claim)
    PROVE  LedgerInv' /\ (\A j \in Jobs : Fences(j)) /\ (\A k \in Intents : JournalMoves(k))
<1>1. /\ intents \in [Intents -> IntentRow] /\ JournalHolds(i)
      /\ \A k \in Intents : intents[k].members \in SUBSET Jobs
  BY DEF LedgerInv, StoreInv, TypeOK, JournalInv, IntentRow
<1>2. ClaimCurrent(i, claim) /\ clock' = clock
  BY DEF ReleaseGroup, AbortClaimed, CompleteGroup
<1>3. /\ intents[i].phase # "none" /\ intents[i].members # {}
      /\ \A j \in intents[i].members : ~ (jobs[j].cExpires <= clock)
      /\ \A j \in intents[i].members :
            /\ jobs[j].state = "published" /\ jobs[j].owner = NoOwner /\ jobs[j] \in Row
            /\ TimeHolds(jobs[j]) /\ MemberOf(j) = {i} /\ j \in Jobs
  BY <1>2, ClaimHeld, MembersOf
<1>4. clock \in Nat
  BY DEF LedgerInv, StoreInv, TypeOK
<1>5. CASE ReleaseGroup(i, claim) \/ AbortClaimed(i, claim)
  <2>1. /\ intents[i].phase = FirstPhase
        /\ jobs' = CleanupLeasesCleared(intents[i].members)
        /\ \/ intents' = [intents EXCEPT ![i].gens = NoGens]
           \/ intents' = [intents EXCEPT ![i] = NoIntent]
    BY <1>5 DEF ReleaseGroup, AbortClaimed
  <2>2. /\ \A k \in Intents \ {i} : intents'[k] = intents[k]
        /\ \/ intents'[i].phase = FirstPhase /\ intents'[i].members = intents[i].members
           \/ intents'[i].phase = "none" /\ intents'[i].members = {}
    BY <1>1, <2>1 DEF NoIntent, IntentRow
  <2>3. \A j \in Jobs \ intents[i].members : jobs'[j] = jobs[j]
    BY <2>1 DEF CleanupLeasesCleared
  <2>4. ASSUME NEW j \in intents[i].members
        PROVE  /\ jobs'[j].state = "published" /\ jobs'[j].owner = NoOwner
               /\ jobs'[j].cOwner = NoOwner /\ TimeHolds(jobs'[j])
    <3>1. jobs'[j] = [jobs[j] EXCEPT !.cOwner = NoOwner, !.cExpires = 0,
                                     !.updated = Later(clock, jobs[j].created)]
      BY <1>3, <2>1 DEF CleanupLeasesCleared
    <3>2. /\ jobs'[j].state = jobs[j].state /\ jobs'[j].owner = jobs[j].owner
          /\ jobs'[j].cOwner = NoOwner
          /\ jobs'[j].created = jobs[j].created /\ jobs'[j].started = jobs[j].started
          /\ jobs'[j].accepted = jobs[j].accepted /\ jobs'[j].published = jobs[j].published
          /\ jobs'[j].intent = jobs[j].intent /\ jobs'[j].remote = jobs[j].remote
          /\ jobs'[j].updated = Later(clock, jobs[j].created)
      BY <1>3, <3>1 DEF Row
    <3>3. TimeHolds(jobs'[j])
      BY <1>3, <1>4, <3>2, LeaseEditTimes
    <3>4. QED
      BY <1>3, <3>2, <3>3
  <2>5. JournalHolds(i)'
    BY <1>3, <2>2, <2>4, NextPhaseIsLater DEF JournalHolds
  <2>6. JournalMoves(i)
    BY <2>1 DEF JournalMoves
  <2>7. QED
    BY <1>2, <1>3, <2>2, <2>3, <2>4, <2>5, <2>6, JournalStep
<1>6. CASE CompleteGroup(i, claim)
  <2>1. /\ intents[i].phase = LastPhase
        /\ jobs' = [j \in Jobs |-> IF j \in intents[i].members
                                   THEN LocallyRemoved(jobs[j]) ELSE jobs[j]]
        /\ intents' = [intents EXCEPT ![i] = NoIntent]
    BY <1>6 DEF CompleteGroup
  <2>2. /\ \A k \in Intents \ {i} : intents'[k] = intents[k]
        /\ intents'[i] = NoIntent /\ intents'[i].phase = "none" /\ intents'[i].members = {}
    BY <1>1, <2>1 DEF NoIntent
  <2>3. \A j \in Jobs \ intents[i].members : jobs'[j] = jobs[j]
    BY <2>1
  <2>4. ASSUME NEW j \in intents[i].members
        PROVE  jobs'[j].state = "local_removed" /\ jobs'[j].cOwner = NoOwner
                 /\ TimeHolds(jobs'[j])
    <3>1. jobs'[j] = LocallyRemoved(jobs[j])
      BY <1>3, <2>1
    <3>2. QED
      BY <1>3, <1>4, <3>1, LocallyRemovedTimes
  <2>5. JournalHolds(i)'
    BY <2>2 DEF JournalHolds
  <2>6. JournalMoves(i)
    BY <2>1, <2>2, <2>4 DEF JournalMoves
  <2>7. QED
    BY <1>2, <1>3, <2>2, <2>3, <2>4, <2>5, <2>6, JournalStep
<1>7. QED
  BY <1>5, <1>6

---------------------------------------------------------------------------
(* The theorems about the ledger.                                                 *)

(* The empty database.                                                            *)
LEMMA LedgerStarts == StoreInit => LedgerInv
<1> SUFFICES ASSUME StoreInit PROVE LedgerInv
  OBVIOUS
<1>1. jobs = [j \in Jobs |-> NoRow] /\ intents = [i \in Intents |-> NoIntent] /\ clock = 1
  BY DEF StoreInit
<1>2. StoreInv
  BY StoreStarts
<1>3. /\ NoRow.state = "absent" /\ NoRow.cOwner = NoOwner /\ NoRow.created = 0
      /\ NoRow.updated = 0 /\ NoRow.started = 0 /\ NoRow.accepted = 0
      /\ NoRow.published = 0 /\ NoRow.intent = "none"
      /\ NoIntent.phase = "none" /\ NoIntent.members = {}
  BY DEF NoRow, NoIntent
<1>4. JournalInv
  BY <1>1, <1>3 DEF JournalInv, JournalHolds, LeaseHolds, MemberOf
<1>5. TimesInv
  BY <1>1, <1>3 DEF TimesInv, TimeHolds
<1>6. QED
  BY <1>2, <1>4, <1>5 DEF LedgerInv

(* Every operation keeps the ledger, changes a row under an expired lease only as     *)
(* ExpiredLeaseFences allows and moves a journal only as JournalNeverRewound allows. *)
LEMMA LedgerSteps ==
    LedgerInv /\ [StoreNext]_storeVars =>
        LedgerInv' /\ (\A j \in Jobs : Fences(j)) /\ (\A i \in Intents : JournalMoves(i))
<1> SUFFICES ASSUME LedgerInv, [StoreNext]_storeVars
             PROVE  LedgerInv' /\ (\A j \in Jobs : Fences(j))
                      /\ (\A i \in Intents : JournalMoves(i))
  OBVIOUS
<1>1. StoreInv'
  BY StoreSteps DEF LedgerInv
<1>2. ASSUME UNCHANGED <<intents, clock>>, \A k \in Jobs : Calm(k)
      PROVE  LedgerInv' /\ (\A j \in Jobs : Fences(j)) /\ (\A i \in Intents : JournalMoves(i))
  BY <1>1, <1>2, CalmStep DEF JournalMoves
<1>3. ASSUME NEW j \in Jobs, ClaimSteps(j) \/ WorkerSteps(j) \/ OperatorSteps(j)
      PROVE  UNCHANGED <<intents, clock>> /\ \A k \in Jobs : Calm(k)
  BY <1>3, ClaimsCalm, WorkersCalm, OperatorsCalm
<1>4. ASSUME NEW old \in Paths, NEW new \in Paths, NEW identified \in SUBSET Jobs,
             UpdatePath(old, new, identified)
      PROVE  UNCHANGED <<intents, clock>> /\ \A k \in Jobs : Calm(k)
  BY <1>4, RenameCalm
<1>5. ASSUME NEW i \in Intents, CleanupSteps(i)
      PROVE  LedgerInv' /\ (\A j \in Jobs : Fences(j)) /\ (\A k \in Intents : JournalMoves(k))
  <2>1. \A c \in Cleaners : [owner |-> c, gens |-> intents[i].gens].owner \in Cleaners
    OBVIOUS
  <2>2. \/ Abort(i) \/ \E path \in Paths : PrepareIntent(i, path)
        \/ \E c \in Cleaners : ClaimGroup(i, c)
        \/ \E c \in Cleaners :
              LET claim == [owner |-> c, gens |-> intents[i].gens] IN
              RenewGroup(i, claim) \/ \E phase \in Phases : Advance(i, claim, phase)
        \/ \E c \in Cleaners :
              LET claim == [owner |-> c, gens |-> intents[i].gens] IN
              ReleaseGroup(i, claim) \/ AbortClaimed(i, claim) \/ CompleteGroup(i, claim)
    BY <1>5 DEF CleanupSteps
  <2>3. QED
    BY <1>1, <2>1, <2>2, UnclaimedJournal, ClaimJournal, HeldJournal, DroppedJournal
<1>6. ASSUME Tick \/ UNCHANGED storeVars
      PROVE  LedgerInv' /\ (\A j \in Jobs : Fences(j)) /\ (\A i \in Intents : JournalMoves(i))
  <2>1. jobs' = jobs /\ intents' = intents /\ clock \in Nat /\ clock' \in Nat /\ clock <= clock'
    BY <1>6 DEF Tick, storeVars, LedgerInv, StoreInv, TypeOK
  <2>2. JournalInv'
    BY <2>1 DEF LedgerInv, JournalInv, JournalHolds, LeaseHolds, MemberOf
  <2>3. ASSUME NEW j \in Jobs
        PROVE  TimeHolds(jobs[j])'
    <3>1. /\ jobs[j].created \in Nat /\ jobs[j].updated \in Nat /\ jobs[j].started \in Nat
          /\ jobs[j].accepted \in Nat /\ jobs[j].published \in Nat /\ TimeHolds(jobs[j])
      BY DEF LedgerInv, StoreInv, TypeOK, TimesInv, Row
    <3>2. QED
      BY <2>1, <3>1 DEF TimeHolds
  <2>4. QED
    BY <1>1, <2>1, <2>2, <2>3 DEF LedgerInv, TimesInv, Fences, JournalMoves
<1>7. QED
  BY <1>2, <1>3, <1>4, <1>5, <1>6 DEF StoreNext

(* The rows and the journals of the store agree in every reachable state, and no     *)
(* time it records lies in the future.                                            *)
THEOREM LedgerInvariant == StoreSpec => []LedgerInv
BY LedgerStarts, LedgerSteps, PTL DEF StoreSpec

(* What the invariant says of the leases.                                          *)
LEMMA LedgerPins == LedgerInv => JournalPinsMembers
<1> SUFFICES ASSUME LedgerInv PROVE JournalPinsMembers
  OBVIOUS
<1>1. ASSUME NEW i \in Intents, intents[i].phase \notin {"none", FirstPhase}
      PROVE  /\ intents[i].members # {}
             /\ \A j \in intents[i].members :
                   /\ jobs[j].state = "published" /\ jobs[j].path = intents[i].path
                   /\ jobs[j].cOwner # NoOwner /\ jobs[j].cGen = intents[i].gens[j]
  BY <1>1 DEF LedgerInv, JournalInv, JournalHolds
<1>2. ASSUME NEW j \in Jobs
      PROVE  /\ \A i, k \in MemberOf(j) : i = k
             /\ jobs[j].cOwner # NoOwner =>
                   /\ jobs[j].owner = NoOwner
                   /\ \E i \in MemberOf(j) : intents[i].gens[j] = jobs[j].cGen
  <2>1. LeaseHolds(j)
    BY DEF LedgerInv, JournalInv
  <2>2. ASSUME jobs[j].cOwner # NoOwner
        PROVE  /\ jobs[j].owner = NoOwner
               /\ \E i \in MemberOf(j) : intents[i].gens[j] = jobs[j].cGen
    <3>1. PICK i \in Intents : j \in intents[i].members
      BY <2>1, <2>2 DEF LeaseHolds, MemberOf
    <3>2. JournalHolds(i)
      BY DEF LedgerInv, JournalInv
    <3>3. intents[i].gens[j] = jobs[j].cGen /\ jobs[j].owner = NoOwner
      BY <2>1, <2>2, <3>1, <3>2 DEF JournalHolds, LeaseHolds
    <3>4. QED
      BY <3>1, <3>3 DEF MemberOf
  <2>3. QED
    BY <2>1, <2>2 DEF LeaseHolds
<1>3. QED
  BY <1>1, <1>2 DEF JournalPinsMembers

(* A cleanup lease is always a journal's: from the first quarantine to completion    *)
(* the rows a journal names stay published at its path under its own lease, so the   *)
(* removal of the file is attributed to them, and no lease outlives its journal.     *)
THEOREM JournalsPinTheirRows == StoreSpec => []JournalPinsMembers
BY LedgerPins, LedgerInvariant, PTL

(* A row under an expired lease changes only by recovery or a new claim, and one     *)
(* under an expired cleanup lease only by a later cleanup claim: no operation of the *)
(* holder paused past its expiry is accepted, whatever it remembers.                *)
THEOREM ExpiryFences == StoreSpec => ExpiredLeaseFences
<1>1. LedgerInv /\ [StoreNext]_storeVars =>
        [\A j \in Jobs : jobs'[j] # jobs[j] =>
            /\ jobs[j].owner # NoOwner /\ jobs[j].expires <= clock =>
                  TakenOver(jobs[j], jobs'[j])
            /\ jobs[j].cOwner # NoOwner /\ jobs[j].cExpires <= clock =>
                  jobs'[j].cGen > jobs[j].cGen]_storeVars
  BY LedgerSteps DEF Fences
<1>2. QED
  BY <1>1, LedgerInvariant, PTL DEF StoreSpec, ExpiredLeaseFences

(* A journal past its first phase is never rewound, and is dropped only with all its   *)
(* rows marked removed.                                                           *)
THEOREM JournalsOnlyAdvance == StoreSpec => JournalNeverRewound
<1>1. LedgerInv /\ [StoreNext]_storeVars =>
        [\A i \in Intents : intents[i].phase \notin {"none", FirstPhase} =>
            \/ intents'[i].phase = intents[i].phase
            \/ intents[i].phase # LastPhase /\ intents'[i].phase = NextPhase(intents[i].phase)
            \/ /\ intents[i].phase = LastPhase /\ intents'[i] = NoIntent
               /\ \A j \in intents[i].members : jobs'[j].state = "local_removed"]_storeVars
  BY LedgerSteps DEF JournalMoves
<1>2. QED
  BY <1>1, LedgerInvariant, PTL DEF StoreSpec, JournalNeverRewound

(* An accepted upload, or a marker found on the server, can be recorded.            *)
LEMMA AcceptanceIsValid ==
    ASSUME NEW r \in Row, RowOK(r), TimeHolds(r), clock \in Nat, clock > 0,
           r.state \in {"transferring", "uncertain"}, NEW remote \in Remotes
    PROVE  RowOK(Transitioned(r, "metadata_pending", remote, NoMarker, "none"))
<1> DEFINE s == Transitioned(r, "metadata_pending", remote, NoMarker, "none")
<1>1. remote # NoRemote
  BY StoreAssumption
<1>2. r.started \in Nat /\ r.started > 0 /\ r.started <= clock /\ r.remote = NoRemote
        /\ r.accepted = 0 /\ r.path # NoPath /\ r.created <= clock
  <2>1. r.intent = "reconcile" => r.started > 0
    BY DEF TimeHolds
  <2>2. QED
    BY <2>1 DEF RowOK, PhaseCoherent, TimesOrdered, TimeHolds, Row
<1>3. Later(clock, r.updated) = clock
  BY DEF Later, TimeHolds, Row
<1>4. /\ s.state = "metadata_pending" /\ s.remote = remote /\ s.op = "patch"
      /\ s.intent = "patch" /\ s.owner = NoOwner /\ s.expires = 0 /\ s.started = r.started
      /\ s.accepted = clock /\ s.updated = clock
  BY <1>1, <1>2, <1>3 DEF Transitioned, OperationIn, IntentIn, Row
<1>5. /\ s.cOwner = r.cOwner /\ s.cExpires = r.cExpires /\ s.created = r.created
      /\ s.path = r.path /\ s.frozen = r.frozen /\ s.effective = r.effective
      /\ s.outcome = r.outcome
  BY DEF Transitioned, Row
<1> HIDE DEF s
<1>6. LeasesPaired(s)
  BY <1>4, <1>5 DEF RowOK, LeasesPaired
<1>7. PhaseCoherent(s)
  BY <1>1, <1>4 DEF PhaseCoherent
<1>8. TimesOrdered(s)
  BY <1>2, <1>4, <1>5 DEF TimesOrdered
<1>9. TagsCoherent(s)
  BY <1>5 DEF RowOK, TagsCoherent
<1>10. QED
  BY <1>2, <1>5, <1>6, <1>7, <1>8, <1>9 DEF RowOK, s

(* A finished PATCH can be recorded.                                              *)
LEMMA PublicationIsValid ==
    ASSUME NEW r \in Row, RowOK(r), TimeHolds(r), clock \in Nat, clock > 0,
           r.state = "metadata_pending"
    PROVE  RowOK(Transitioned(r, "published", NoRemote, NoMarker, "none"))
<1> DEFINE s == Transitioned(r, "published", NoRemote, NoMarker, "none")
<1>1. /\ r.started \in Nat /\ r.accepted \in Nat /\ r.started > 0 /\ r.accepted > 0
      /\ r.started <= r.accepted /\ r.accepted <= clock
      /\ r.remote # NoRemote /\ r.path # NoPath /\ r.created <= clock
  BY DEF RowOK, PhaseCoherent, TimesOrdered, TimeHolds, Row
<1>2. Later(clock, r.updated) = clock
  BY DEF Later, TimeHolds, Row
<1>3. /\ s.state = "published" /\ s.remote = r.remote /\ s.op = "none" /\ s.intent = "none"
      /\ s.owner = NoOwner /\ s.expires = 0 /\ s.started = r.started
      /\ s.accepted = r.accepted /\ s.published = clock /\ s.updated = clock
  BY <1>2 DEF Transitioned, OperationIn, IntentIn, Row
<1>4. /\ s.cOwner = r.cOwner /\ s.cExpires = r.cExpires /\ s.created = r.created
      /\ s.path = r.path /\ s.frozen = r.frozen /\ s.effective = r.effective
      /\ s.outcome = r.outcome
  BY DEF Transitioned, Row
<1> HIDE DEF s
<1>5. LeasesPaired(s)
  BY <1>3, <1>4 DEF RowOK, LeasesPaired
<1>6. PhaseCoherent(s)
  BY <1>1, <1>3 DEF PhaseCoherent
<1>7. TimesOrdered(s)
  BY <1>1, <1>3, <1>4 DEF TimesOrdered
<1>8. TagsCoherent(s)
  BY <1>4 DEF RowOK, TagsCoherent
<1>9. QED
  BY <1>1, <1>4, <1>5, <1>6, <1>7, <1>8 DEF RowOK, s

(* A removed file can be recorded.                                                *)
LEMMA RemovalIsValid ==
    ASSUME NEW r \in Row, RowOK(r), TimeHolds(r), clock \in Nat, clock > 0,
           r.state = "published"
    PROVE  RowOK(LocallyRemoved(r))
<1> DEFINE s == LocallyRemoved(r)
<1>1. /\ r.started \in Nat /\ r.accepted \in Nat /\ r.published \in Nat
      /\ r.started > 0 /\ r.accepted > 0 /\ r.published > 0
      /\ r.started <= r.accepted /\ r.accepted <= r.published /\ r.remote # NoRemote
  BY DEF RowOK, PhaseCoherent, TimesOrdered, Row
<1>2. /\ Later(clock, r.published) > 0 /\ r.published <= Later(clock, r.published)
      /\ r.created <= Later(clock, r.created)
  BY <1>1, LaterIsTime DEF Later, Row
<1>3. /\ s.state = "local_removed" /\ s.op = "none" /\ s.intent = "none"
      /\ s.path = NoPath /\ s.token = NoMarker /\ s.due = 0
      /\ s.owner = NoOwner /\ s.expires = 0
      /\ s.cOwner = NoOwner /\ s.cGen = 0 /\ s.cExpires = 0
  BY DEF LocallyRemoved, Row
<1>4. /\ s.remote = r.remote /\ s.started = r.started /\ s.accepted = r.accepted
      /\ s.published = r.published /\ s.created = r.created
      /\ s.removed = Later(clock, r.published) /\ s.updated = Later(clock, r.created)
      /\ s.frozen = r.frozen /\ s.effective = r.effective /\ s.outcome = r.outcome
  BY DEF LocallyRemoved, Row
<1> HIDE DEF s
<1>5. LeasesPaired(s)
  BY <1>3 DEF LeasesPaired
<1>6. PhaseCoherent(s)
  BY <1>1, <1>3, <1>4 DEF PhaseCoherent
<1>7. TimesOrdered(s)
  BY <1>1, <1>2, <1>3, <1>4 DEF TimesOrdered
<1>8. TagsCoherent(s)
  BY <1>4 DEF RowOK, TagsCoherent
<1>9. QED
  BY <1>3, <1>5, <1>6, <1>7, <1>8 DEF RowOK, s

(* An outcome the server or the file system has made final is one the store can       *)
(* record: no reachable row makes the validation of the next one fail.             *)
THEOREM OutcomesAreRecorded == StoreSpec => []OutcomesDurable
<1>1. LedgerInv => OutcomesDurable
  <2> SUFFICES ASSUME LedgerInv PROVE OutcomesDurable
    OBVIOUS
  <2>1. clock \in Nat /\ clock > 0
    BY DEF LedgerInv, StoreInv, TypeOK, TimesInv
  <2>2. ASSUME NEW j \in Jobs,
               jobs[j].state \in {"transferring", "uncertain", "metadata_pending", "published"}
        PROVE  jobs[j] \in Row /\ RowOK(jobs[j]) /\ TimeHolds(jobs[j])
    BY <2>2, Rows DEF LedgerInv, TimesInv, Exists, LiveStates
  <2>3. QED
    BY <2>1, <2>2, AcceptanceIsValid, PublicationIsValid, RemovalIsValid DEF OutcomesDurable
<1>2. QED
  BY <1>1, LedgerInvariant, PTL

============================================================================
