---------------------- MODULE SpeakrPublisher_proofs ----------------------
(* Theorems about the publication engine, for any number of recordings, workers,    *)
(* tags, transfers and operator retries, leases of any length that expire at any    *)
(* moment, requests that arrive late or never, and workers that stop anywhere.      *)
EXTENDS SpeakrPublisher, PublicationStore_proofs, FiniteSetTheorems, SequenceTheorems

---------------------------------------------------------------------------
(* The invariant.                                                                 *)

PublisherTypeOK ==
    /\ pc \in [Owners -> Steps] /\ mem \in [Owners -> Memory]
    /\ minted \in 0..MaxMarkers
    /\ wire \subseteq Request /\ recordings \in Seq(Recording) /\ RemoteIds \subseteq Remotes
    /\ authorised \in [Jobs -> Nat] /\ clock > 0

(* What a transfer of the row submits, once its tags are resolved.                 *)
TagsOf(r) == IF r.outcome = "known" THEN r.effective ELSE r.frozen

HasCopy(remote, marker) == remote \in RemoteIds /\ recordings[remote].marker = marker
IsDescribed(remote) == remote \in RemoteIds /\ recordings[remote].patched

(* A marker belongs to one row and is forgotten when the row returns to POST; a     *)
(* known remote ID names the copy that bears it, described once published.         *)
RowsLinked ==
    /\ \A j \in Jobs :
          /\ jobs[j].token \in 0..minted
          /\ jobs[j].state = "queued" => jobs[j].token = NoMarker
          /\ jobs[j].remote # NoRemote => HasCopy(jobs[j].remote, jobs[j].token)
          /\ jobs[j].remote # NoRemote /\ jobs[j].state = "published" =>
                IsDescribed(jobs[j].remote)
    /\ \A j, k \in Jobs : jobs[j].token = jobs[k].token /\ j # k => jobs[j].token = NoMarker

(* A request on its way or stored: the row that still has its marker is the row it  *)
(* was sent for, with the tags that row reports.                                   *)
Describes(q) ==
    /\ q.marker \in 1..minted
    /\ \A j \in Jobs : jobs[j].token = q.marker =>
          q.job = j /\ q.tags = TagsOf(jobs[j])

RequestsDescribed ==
    /\ \A q \in wire : Describes(q)
    /\ \A n \in RemoteIds : Describes(recordings[n])

(* No marker is used twice.                                                       *)
SentOnce ==
    /\ \A q, p \in wire : q.marker = p.marker => q = p
    /\ \A q \in wire, n \in RemoteIds : q.marker # recordings[n].marker
    /\ \A n, m \in RemoteIds : recordings[n].marker = recordings[m].marker => n = m

Unsent(marker) ==
    /\ \A q \in wire : q.marker # marker
    /\ \A n \in RemoteIds : recordings[n].marker # marker

Sending == {"post_renew", "post_send", "post_wait", "post_settle"}
Held(w) == jobs[Job(w)].owner = w

(* The worker knows that its request has not left, or came to nothing.             *)
KnowsUnsent(w) ==
    \/ pc[w] \in {"post_renew", "post_send"}
    \/ pc[w] = "post_settle" /\ mem[w].reply \in {"not_sent", "busy", "refused"}

(* What a worker remembers agrees with its row as long as it holds the lease.      *)
Remembers(w) ==
    LET r == jobs[Job(w)] IN
    /\ Held(w) /\ pc[w] \in Working =>
          r.state \in IF pc[w] \in Sending THEN {"transferring"}
                      ELSE {"queued", "uncertain", "metadata_pending"}
    /\ Held(w) /\ pc[w] = "post_begin" => mem[w].tags = TagsOf(r)
    /\ Held(w) /\ pc[w] \in Sending =>
          r.token = mem[w].marker /\ mem[w].tags = TagsOf(r)
    /\ Held(w) /\ pc[w] \in {"reconcile_tags", "reconcile_accept"} /\ mem[w].remote # NoRemote =>
          HasCopy(mem[w].remote, r.token)
    /\ Held(w) /\ pc[w] = "patch_send" => mem[w].remote = r.remote
    /\ Held(w) /\ pc[w] = "patch_done" /\ r.remote # NoRemote => IsDescribed(r.remote)

(* What it knows of its own transfer, with or without the lease: once it looked at  *)
(* the lease for the last time, its request describes the row as a sent one does.   *)
Knows(w) ==
    /\ pc[w] \in Sending => mem[w].marker \in 1..minted
    /\ KnowsUnsent(w) => Unsent(mem[w].marker)
    /\ pc[w] = "post_settle" /\ mem[w].reply = "accepted" =>
          HasCopy(mem[w].remote, mem[w].marker)
    /\ pc[w] = "reconcile_accept" => mem[w].remote # NoRemote
    /\ pc[w] = "post_send" => Describes(mem[w])

OwnMarkers ==
    \A v, w \in Owners :
        pc[v] \in Sending /\ pc[w] \in Sending /\ mem[v].marker = mem[w].marker => v = w

PublisherInv ==
    /\ StoreInv /\ PublisherTypeOK /\ RowsLinked /\ RequestsDescribed /\ SentOnce
    /\ OwnMarkers /\ \A w \in Owners : Remembers(w) /\ Knows(w)

---------------------------------------------------------------------------
(* What each operation of the store does to the parts of a row that matter here.   *)

Still(r, s) ==
    /\ s.state = r.state /\ s.intent = r.intent /\ s.token = r.token /\ s.remote = r.remote
    /\ TagsOf(s) = TagsOf(r)
Same(r, s) == Still(r, s) /\ s.owner = r.owner

Doubted(r, s) ==
    /\ r.state = "transferring" /\ s.state = "uncertain" /\ s.intent = "reconcile"
    /\ s.token = r.token /\ s.remote = r.remote /\ TagsOf(s) = TagsOf(r)
Quiet(r, s) == Still(r, s) \/ Doubted(r, s)

OthersSame(j) == \A k \in Jobs \ {j} : jobs'[k] = jobs[k]

(* A transaction on one row writes that row.                                      *)
LEMMA CommitWrites ==
    ASSUME StoreInv, NEW j \in Jobs, NEW s, Commit(j, s)
    PROVE  jobs'[j] = s /\ RowOK(s) /\ OthersSame(j)
BY DEF Commit, StoreInv, TypeOK, OthersSame

(* A fence held by a worker.                                                      *)
LEMMA FenceHolds ==
    ASSUME StoreInv, NEW j \in Jobs, NEW w \in Owners, NEW gen,
           Exists(j), Fenced(jobs[j], w, gen)
    PROVE  jobs[j].owner = w /\ jobs[j].gen = gen /\ w # NoOwner
BY StoreAssumption DEF Fenced

(* A heartbeat leaves all of the row but its lease.                              *)
LEMMA RenewEffect ==
    ASSUME StoreInv, NEW j \in Jobs, NEW w \in Owners, NEW gen, Renew(j, w, gen)
    PROVE  jobs[j].owner = w /\ Same(jobs[j], jobs'[j]) /\ OthersSame(j)
<1>1. jobs[j] \in Row
  BY Rows
<1>2. /\ jobs'[j] = [jobs[j] EXCEPT !.expires = clock + LeaseMs,
                                    !.updated = Later(clock, jobs[j].created)]
      /\ OthersSame(j)
  BY CommitWrites DEF Renew
<1>3. jobs[j].owner = w
  BY FenceHolds DEF Renew
<1> DEFINE r == jobs[j]  s == jobs'[j]
<1>4. r \in Row /\ s = [r EXCEPT !.expires = clock + LeaseMs, !.updated = Later(clock, r.created)]
  BY <1>1, <1>2
<1> HIDE DEF r, s
<1>5. Same(r, s)
  BY <1>4 DEF Same, Still, TagsOf, Row
<1>6. QED
  BY <1>2, <1>3, <1>5 DEF r, s

(* An interrupted upload becomes uncertain, with its marker and its tags.          *)
LEMMA DoubtEffect ==
    ASSUME NEW r \in Row, r.state = "transferring", NEW due, NEW now
    PROVE  LET s == AsUncertain(r, due, now) IN s.owner = NoOwner /\ Doubted(r, s)
BY DEF Doubted, TagsOf, AsUncertain, Row

(* schedule(): a deferred row is left, an interrupted upload becomes uncertain.     *)
LEMMA ScheduleEffect ==
    ASSUME StoreInv, NEW j \in Jobs, NEW w \in Owners, NEW gen, NEW due, Schedule(j, w, gen, due)
    PROVE  /\ jobs[j].owner = w /\ OthersSame(j)
           /\ jobs'[j].owner = NoOwner /\ Quiet(jobs[j], jobs'[j])
<1> DEFINE r == jobs[j]  s == jobs'[j]
<1>1. r \in Row /\ r.owner = w /\ OthersSame(j)
  BY Rows, FenceHolds, CommitWrites DEF Schedule
<1>2. \/ r.state = "transferring" /\ s = AsUncertain(r, due, clock)
      \/ s = [r EXCEPT !.owner = NoOwner, !.expires = 0, !.due = due,
                        !.updated = Later(clock, r.created)]
  BY CommitWrites DEF Schedule
<1> HIDE DEF r, s
<1>3. CASE r.state = "transferring" /\ s = AsUncertain(r, due, clock)
  <2>1. s.owner = NoOwner /\ Doubted(r, s)
    BY <1>1, <1>3, DoubtEffect
  <2>2. QED
    BY <1>1, <2>1 DEF Quiet, r, s
<1>4. CASE s = [r EXCEPT !.owner = NoOwner, !.expires = 0, !.due = due,
                         !.updated = Later(clock, r.created)]
  <2>1. s.owner = NoOwner /\ Still(r, s)
    BY <1>1, <1>4 DEF Still, TagsOf, Row
  <2>2. QED
    BY <1>1, <2>1 DEF Quiet, r, s
<1>5. QED
  BY <1>2, <1>3, <1>4

(* _recover_expired leaves a row, or takes its expired lease away.                  *)
Recovers(r, s) == s = r \/ (s.owner = NoOwner /\ Quiet(r, s))

(* Recovery leaves a row, or takes its expired lease and doubts its upload.      *)
LEMMA RecoveredEffect ==
    ASSUME NEW r \in Row, NEW now
    PROVE  Recovers(r, Recovered(r, now))
<1> DEFINE due == IF Claimable(r) THEN Earlier(r.due, now) ELSE r.due
           s == Recovered(r, now)
<1>1. \/ s = r
      \/ r.state = "transferring" /\ s = AsUncertain(r, now, now)
      \/ s = [r EXCEPT !.owner = NoOwner, !.expires = 0, !.due = due,
                        !.updated = Later(now, r.created)]
  BY DEF Recovered
<1> HIDE DEF s, due
<1>2. CASE r.state = "transferring" /\ s = AsUncertain(r, now, now)
  BY <1>2, DoubtEffect DEF Recovers, Quiet, s
<1>3. CASE s = [r EXCEPT !.owner = NoOwner, !.expires = 0, !.due = due,
                         !.updated = Later(now, r.created)]
  <2>1. s.owner = NoOwner /\ Still(r, s)
    BY <1>3 DEF Still, TagsOf, Row
  <2>2. QED
    BY <2>1 DEF Recovers, Quiet, s
<1>4. QED
  BY <1>1, <1>2, <1>3 DEF Recovers, s

ClaimedStates == {"queued", "uncertain", "metadata_pending"}

(* A claim recovers every row and takes the lease of a row that can be worked on.   *)
LEMMA ClaimEffect ==
    ASSUME StoreInv, NEW j \in Jobs, NEW w \in Owners, NEW any, NEW now \in Nat, ClaimJob(j, w, any, now)
    PROVE  /\ \A k \in Jobs \ {j} : Recovers(jobs[k], jobs'[k])
           /\ Quiet(jobs[j], jobs'[j]) /\ jobs'[j].owner = w
           /\ jobs'[j].state \in ClaimedStates
<1> DEFINE r == jobs[j]  t == Recovered(r, now)  s == jobs'[j]
<1>1. \A k \in Jobs : jobs[k] \in Row
  BY Rows
<1>2. \A k \in Jobs \ {j} : Recovers(jobs[k], jobs'[k])
  BY <1>1, RecoveredEffect DEF ClaimJob
<1>3. s = Claimed(t, w, now) /\ Claimable(t)
  BY DEF ClaimJob, ClaimSucceeds, ClaimableNow
<1>4. t \in Row
  BY <1>1, RecoveredType
<1>5. Recovers(r, t)
  BY <1>1, RecoveredEffect
<1> HIDE DEF r, s, t
<1>6. t.state \in ClaimedStates
  BY <1>3 DEF Claimable, HttpMethod, ReconciliationEligible, ClaimedStates
<1>7. Still(t, s) /\ s.owner = w
  BY <1>3, <1>4 DEF Still, Claimed, TagsOf, Row
<1>8. Quiet(r, t)
  BY <1>5 DEF Recovers, Quiet, Still
<1>9. Quiet(r, s) /\ s.state \in ClaimedStates
  BY <1>6, <1>7, <1>8 DEF Quiet, Still, Doubted
<1>10. QED
  BY <1>2, <1>7, <1>9 DEF r, s

(* A claim that finds nothing only recovers expired leases.                      *)
LEMMA ClaimNothingEffect ==
    ASSUME StoreInv, NEW j, NEW any, NEW now \in Nat, ClaimNothing(j, any, now)
    PROVE  \A k \in Jobs : Recovers(jobs[k], jobs'[k])
BY Rows, RecoveredEffect DEF ClaimNothing

(* transition(): the state asked for, and what it implies.                         *)
LEMMA TransitionEffect ==
    ASSUME StoreInv, NEW j \in Jobs, NEW w \in Owners, NEW gen, NEW sources,
           NEW target \in LiveStates, NEW remote, NEW token, NEW requested,
           Transition(j, w, gen, sources, target, remote, token, requested)
    PROVE  LET r == jobs[j]  s == jobs'[j] IN
           /\ OthersSame(j) /\ RowOK(r) /\ RowOK(s)
           /\ r.owner = w /\ r.state \in sources
           /\ target = r.state \/ target \in AllowedTargets[r.state]
           /\ s.state = target /\ s.intent = IntentIn(target, r.intent)
           /\ s.remote = IF target \in {"queued", "transferring", "uncertain"} THEN NoRemote
                         ELSE IF remote = NoRemote THEN r.remote ELSE remote
           /\ s.token = IF target = "queued" THEN NoMarker
                        ELSE IF token = NoMarker THEN r.token ELSE token
           /\ s.owner = IF target = "transferring" THEN w ELSE NoOwner
           /\ TagsOf(s) = TagsOf(r)
<1> DEFINE r == jobs[j]  s == jobs'[j]
<1>1. r \in Row /\ RowOK(r)
  BY Rows DEF Transition, MayTransition
<1>2. r.owner = w /\ OthersSame(j) /\ RowOK(s)
  BY FenceHolds, CommitWrites DEF Transition, MayTransition
<1>3. r.state \in sources /\ (target = r.state \/ target \in AllowedTargets[r.state])
  BY DEF Transition, MayTransition
<1>4. s = Transitioned(r, target, remote, token, requested)
  BY CommitWrites DEF Transition
<1> HIDE DEF r, s
<1>5. /\ s.state = target /\ s.intent = IntentIn(target, r.intent)
      /\ s.remote = IF target \in {"queued", "transferring", "uncertain"} THEN NoRemote
                    ELSE IF remote = NoRemote THEN r.remote ELSE remote
  BY <1>1, <1>4 DEF Transitioned, Row
<1>6. /\ s.token = IF target = "queued" THEN NoMarker
                   ELSE IF token = NoMarker THEN r.token ELSE token
      /\ s.owner = IF target = "transferring" THEN r.owner ELSE NoOwner
  BY <1>1, <1>4 DEF Transitioned, Row
<1>7. s.frozen = r.frozen /\ s.effective = r.effective /\ s.outcome = r.outcome
  BY <1>1, <1>4 DEF Transitioned, Row
<1>8. QED
  BY <1>1, <1>2, <1>3, <1>5, <1>6, <1>7 DEF TagsOf, r, s

(* update_tag_status() decides what a transfer of a queued row will submit.        *)
LEMMA TagEffect ==
    ASSUME StoreInv, NEW j \in Jobs, NEW w \in Owners, NEW gen, NEW outcome, NEW tags,
           UpdateTagStatus(j, w, gen, outcome, tags)
    PROVE  LET r == jobs[j]  s == jobs'[j] IN
           /\ OthersSame(j)
           /\ r.owner = w /\ s.owner = w /\ r.state = "queued" /\ s.state = "queued"
           /\ s.intent = r.intent /\ s.token = r.token /\ s.remote = r.remote
           /\ TagsOf(s) = IF outcome = "known" THEN tags ELSE r.frozen
<1> DEFINE r == jobs[j]  s == jobs'[j]
<1>1. r \in Row /\ r.owner = w /\ OthersSame(j) /\ r.state = "queued"
  BY Rows, FenceHolds, CommitWrites DEF UpdateTagStatus
<1>2. s = [r EXCEPT !.effective = tags, !.outcome = outcome,
                    !.updated = Later(clock, r.created)]
  BY CommitWrites DEF UpdateTagStatus
<1> HIDE DEF r, s
<1>3. /\ s.owner = r.owner /\ s.state = r.state /\ s.intent = r.intent /\ s.token = r.token
      /\ s.remote = r.remote
      /\ TagsOf(s) = IF outcome = "known" THEN tags ELSE r.frozen
  BY <1>1, <1>2 DEF TagsOf, Row
<1>4. QED
  BY <1>1, <1>3 DEF r, s

(* resolve_reconciled_tags() reports the tags that were submitted.                 *)
LEMMA TagsReconciledEffect ==
    ASSUME StoreInv, NEW j \in Jobs, NEW w \in Owners, NEW gen, ResolveReconciledTags(j, w, gen)
    PROVE  jobs[j].owner = w /\ Same(jobs[j], jobs'[j]) /\ OthersSame(j)
<1> DEFINE r == jobs[j]  s == jobs'[j]
<1>1. r \in Row /\ r.owner = w /\ OthersSame(j)
  BY Rows, FenceHolds, CommitWrites DEF ResolveReconciledTags
<1>2. s = TagsReconciled(r)
  BY CommitWrites DEF ResolveReconciledTags
<1> HIDE DEF r, s
<1>3. Same(r, s)
  BY <1>1, <1>2 DEF Same, Still, TagsOf, TagsReconciled, Row
<1>4. QED
  BY <1>1, <1>3 DEF r, s

(* A row that is resumed keeps its remote ID and its tags, and its marker unless it *)
(* returns to POST.                                                               *)
Resumption(r, s, target) ==
    /\ target \in {"queued", "uncertain", "metadata_pending"}
    /\ s.state = target /\ s.remote = r.remote /\ TagsOf(s) = TagsOf(r)
    /\ s.token = IF target = "queued" THEN NoMarker ELSE r.token
    /\ target = "queued" => s.remote = NoRemote

(* What _resume writes, field by field.                                          *)
LEMMA ResumedFields ==
    ASSUME NEW r \in Row, NEW target, NEW due
    PROVE  LET s == Resumed(r, target, due) IN
           /\ s.state = target /\ s.remote = r.remote /\ s.owner = NoOwner
           /\ s.token = IF target = "queued" THEN NoMarker ELSE r.token
           /\ s.frozen = r.frozen /\ s.effective = r.effective /\ s.outcome = r.outcome
BY DEF Resumed, Row

(* retry() releases the row into the phase its state calls for.                  *)
LEMMA RetryEffect ==
    ASSUME StoreInv, NEW j \in Jobs, NEW w \in FencedClients, NEW gen, Retry(j, w, gen)
    PROVE  /\ jobs[j].owner = w /\ OthersSame(j) /\ jobs'[j].owner = NoOwner
           /\ Resumption(jobs[j], jobs'[j], RetryTarget(jobs[j]))
<1> DEFINE r == jobs[j]  s == jobs'[j]  target == RetryTarget(jobs[j])
<1>1. r \in Row /\ r.owner = w /\ OthersSame(j) /\ RowOK(s) /\ s = Resumed(r, target, clock)
  BY Rows, CommitWrites DEF Retry, Fenced
<1>2. target \in {"queued", "uncertain", "metadata_pending"}
  BY DEF Retry, RetryTarget, ResumeTarget
<1> HIDE DEF r, s, target
<1>3. /\ s.state = target /\ s.remote = r.remote /\ s.owner = NoOwner
      /\ s.token = IF target = "queued" THEN NoMarker ELSE r.token
      /\ s.frozen = r.frozen /\ s.effective = r.effective /\ s.outcome = r.outcome
  BY <1>1, ResumedFields
<1>4. target = "queued" => s.remote = NoRemote
  BY <1>1, <1>3 DEF RowOK, PhaseCoherent
<1>5. Resumption(r, s, target)
  BY <1>2, <1>3, <1>4 DEF Resumption, TagsOf
<1>6. QED
  BY <1>1, <1>3, <1>5 DEF r, s, target

(* relink() changes the path, and resumes a missing row under the lease it has.     *)
LEMMA RelinkEffect ==
    ASSUME StoreInv, NEW j \in Jobs, NEW w \in FencedClients, NEW gen, NEW path,
           Relink(j, w, gen, path)
    PROVE  /\ jobs[j].owner = w /\ OthersSame(j)
           /\ \/ Same(jobs[j], jobs'[j])
              \/ /\ jobs[j].state = "missing" /\ jobs'[j].owner = w
                 /\ Resumption(jobs[j], jobs'[j], ResumeTarget(jobs[j].intent))
<1> DEFINE r == jobs[j]  s == jobs'[j]  target == ResumeTarget(jobs[j].intent)
<1>1. r \in Row /\ r.owner = w /\ OthersSame(j) /\ RowOK(s) /\ s = Relinked(r, path)
  BY Rows, CommitWrites DEF Relink, Fenced
<1>2. target \in {"queued", "uncertain", "metadata_pending", "refused"}
  BY DEF ResumeTarget
<1> HIDE DEF r, s
<1>3. CASE r.state = "missing" /\ ResumeTarget(r.intent) # "refused"
  <2> DEFINE t == Resumed(r, target, clock)
  <2>1. target = ResumeTarget(r.intent) /\ target # "refused"
    BY <1>3 DEF r
  <2>2. s = [t EXCEPT !.path = path, !.owner = r.owner, !.expires = r.expires]
    BY <1>1, <1>3, <2>1 DEF Relinked
  <2>3. t \in Row
    <3>1. target \in LiveStates /\ clock \in Nat
      BY <1>2, <2>1 DEF LiveStates, StoreInv, TypeOK
    <3>2. QED
      BY <1>1, <3>1, ResumedType
  <2>4. /\ t.state = target /\ t.remote = r.remote
        /\ t.token = IF target = "queued" THEN NoMarker ELSE r.token
        /\ t.frozen = r.frozen /\ t.effective = r.effective /\ t.outcome = r.outcome
    BY <1>1, ResumedFields
  <2> HIDE DEF t, target
  <2>5. /\ s.state = t.state /\ s.remote = t.remote /\ s.token = t.token /\ s.owner = r.owner
        /\ s.frozen = t.frozen /\ s.effective = t.effective /\ s.outcome = t.outcome
    BY <2>2, <2>3 DEF Row
  <2>6. target = "queued" => s.remote = NoRemote
    BY <1>1, <2>4, <2>5 DEF RowOK, PhaseCoherent
  <2>7. Resumption(r, s, target)
    BY <1>2, <2>1, <2>4, <2>5, <2>6 DEF Resumption, TagsOf
  <2>8. QED
    BY <1>1, <1>3, <2>5, <2>7 DEF r, s, target
<1>4. CASE ~ (r.state = "missing" /\ ResumeTarget(r.intent) # "refused")
  <2>1. s = [r EXCEPT !.path = path, !.updated = Later(clock, r.created)]
    BY <1>1, <1>4 DEF Relinked
  <2>2. Same(r, s)
    BY <1>1, <2>1 DEF Same, Still, TagsOf, Row
  <2>3. QED
    BY <1>1, <2>2 DEF r, s
<1>5. QED
  BY <1>3, <1>4

(* create_or_reuse() begins a row without marker or remote ID; forget() ends one.   *)
LEMMA CreateEffect ==
    ASSUME StoreInv, NEW j \in Jobs, NEW path, NEW tags, Create(j, path, tags)
    PROVE  LET s == jobs'[j] IN
           /\ OthersSame(j) /\ jobs[j].state = "absent" /\ s.state = "queued"
           /\ s.token = NoMarker /\ s.remote = NoRemote /\ s.owner = NoOwner
<1>1. /\ jobs[j].state = "absent" /\ OthersSame(j)
      /\ jobs'[j] = [NoRow EXCEPT !.state = "queued", !.op = "post", !.intent = "post",
                                  !.path = path, !.due = clock, !.frozen = tags,
                                  !.created = clock, !.updated = clock]
  BY CommitWrites DEF Create
<1>2. QED
  BY <1>1 DEF NoRow

(* forget() leaves neither marker nor remote ID behind.                          *)
LEMMA ForgetEffect ==
    ASSUME StoreInv, NEW j \in Jobs, Forget(j)
    PROVE  LET s == jobs'[j] IN
           /\ OthersSame(j) /\ jobs[j].owner = NoOwner /\ s.state = "forgotten"
           /\ s.token = NoMarker /\ s.remote = NoRemote /\ s.owner = NoOwner
<1>1. jobs'[j] = [NoRow EXCEPT !.state = "forgotten"] /\ OthersSame(j) /\ jobs[j].owner = NoOwner
  BY DEF Forget, StoreInv, TypeOK, OthersSame
<1>2. QED
  BY <1>1 DEF NoRow

(* update_path() changes the path of rows alone.                                  *)
LEMMA UpdatePathEffect ==
    ASSUME StoreInv, NEW old, NEW new, NEW identified, UpdatePath(old, new, identified)
    PROVE  \A k \in Jobs : Same(jobs[k], jobs'[k])
<1> SUFFICES ASSUME NEW k \in Jobs PROVE Same(jobs[k], jobs'[k])
  OBVIOUS
<1> DEFINE r == jobs[k]  s == jobs'[k]
<1>1. r \in Row /\ (s = r \/ s = [r EXCEPT !.path = new])
  BY Rows DEF UpdatePath
<1> HIDE DEF r, s
<1>2. Same(r, s)
  BY <1>1 DEF Same, Still, TagsOf, Row
<1>3. QED
  BY <1>2 DEF r, s

---------------------------------------------------------------------------
(* Steps that leave the links between rows, requests and copies in order.          *)

(* What may become of a row: its marker stays, with the tags submitted under it, or *)
(* goes; a remote ID is that of a copy with its marker.                            *)
Mild(r, s) ==
    /\ s.token \in {r.token, NoMarker}
    /\ s.token # NoMarker => TagsOf(s) = TagsOf(r)
    /\ s.state = "queued" => s.token = NoMarker
    /\ s.remote # NoRemote =>
          s.token = r.token /\ (s.remote = r.remote \/ HasCopy(s.remote, r.token))
    /\ s.remote # NoRemote /\ s.state = "published" => IsDescribed(s.remote)

(* A step of w does no more to any row, and nothing to a row another worker holds.  *)
Touches(w) ==
    \A k \in Jobs :
        /\ Mild(jobs[k], jobs'[k])
        /\ Same(jobs[k], jobs'[k]) \/ jobs'[k].owner \in {NoOwner, w}

(* The server's copies stay, with their descriptions.                              *)
Growing ==
    \A n \in RemoteIds :
        /\ n \in RemoteIds'
        /\ recordings'[n].job = recordings[n].job
        /\ recordings'[n].marker = recordings[n].marker
        /\ recordings'[n].tags = recordings[n].tags
        /\ recordings[n].patched => recordings'[n].patched

(* Rows that are left, doubted or resumed keep what links them to their copies.  *)
LEMMA MildSteps ==
    ASSUME RowsLinked, NEW k \in Jobs, NEW s, NEW target,
           Quiet(jobs[k], s) \/ Resumption(jobs[k], s, target)
    PROVE  Mild(jobs[k], s)
<1> DEFINE r == jobs[k]
<1>1. /\ r.state = "queued" => r.token = NoMarker
      /\ r.remote # NoRemote /\ r.state = "published" => IsDescribed(r.remote)
  BY DEF RowsLinked
<1> HIDE DEF r
<1>2. Quiet(r, s) => Mild(r, s)
  BY <1>1 DEF Quiet, Still, Doubted, Mild
<1>3. Resumption(r, s, target) => Mild(r, s)
  BY DEF Resumption, Mild
<1>4. QED
  BY <1>2, <1>3 DEF r

(* A transaction on one row that is mild there is mild everywhere.               *)
LEMMA TouchOne ==
    ASSUME RowsLinked, NEW j \in Jobs, NEW w, OthersSame(j), Mild(jobs[j], jobs'[j]),
           Same(jobs[j], jobs'[j]) \/ jobs'[j].owner \in {NoOwner, w}
    PROVE  Touches(w)
<1>1. \A k \in Jobs \ {j} : Same(jobs[k], jobs'[k]) /\ Mild(jobs[k], jobs'[k])
  <2>1. \A k \in Jobs \ {j} : Same(jobs[k], jobs'[k]) /\ Quiet(jobs[k], jobs'[k])
    BY DEF OthersSame, Same, Still, Quiet
  <2>2. QED
    BY <2>1, MildSteps
<1>2. QED
  BY <1>1 DEF Touches

(* claim_one, with the recovery of every expired lease.                            *)
LEMMA ClaimTouches ==
    ASSUME StoreInv, RowsLinked, NEW j \in Jobs, NEW w \in Owners, NEW any, NEW now \in Nat,
           ClaimJob(j, w, any, now) \/ ClaimNothing(j, any, now)
    PROVE  Touches(w)
<1>1. \A k \in Jobs : \/ Recovers(jobs[k], jobs'[k])
                      \/ Quiet(jobs[k], jobs'[k]) /\ jobs'[k].owner = w
  BY ClaimEffect, ClaimNothingEffect
<1>2. \A k \in Jobs : Quiet(jobs[k], jobs'[k])
  BY <1>1 DEF Recovers, Quiet, Still
<1>3. \A k \in Jobs : Same(jobs[k], jobs'[k]) \/ jobs'[k].owner \in {NoOwner, w}
  BY <1>1 DEF Recovers, Same, Still
<1>4. QED
  BY <1>2, <1>3, MildSteps DEF Touches

(* What a worker does under its lease without learning of a copy.                  *)
LEMMA WorkTouches ==
    ASSUME StoreInv, RowsLinked, NEW j \in Jobs, NEW w \in Owners, NEW gen, NEW path, NEW due,
           NEW outcome, NEW tags,
           \/ Renew(j, w, gen) \/ Schedule(j, w, gen, due) \/ Relink(j, w, gen, path)
           \/ ResolveReconciledTags(j, w, gen) \/ UpdateTagStatus(j, w, gen, outcome, tags)
           \/ Retry(j, w, gen)
           \/ MoveToUncertain(j, w, gen) \/ TerminalUncertain(j, w, gen)
           \/ Block(j, w, gen) \/ MarkMissing(j, w, gen)
    PROVE  Touches(w) /\ jobs[j].owner = w
<1> DEFINE r == jobs[j]  s == jobs'[j]
           Goal == Touches(w) /\ r.owner = w
<1>1. CASE Renew(j, w, gen) \/ ResolveReconciledTags(j, w, gen)
  BY <1>1, RenewEffect, TagsReconciledEffect, MildSteps, TouchOne DEF Same, Quiet
<1>2. CASE Schedule(j, w, gen, due)
  BY <1>2, ScheduleEffect, MildSteps, TouchOne
<1>3. CASE Relink(j, w, gen, path)
  <2>1. w \in FencedClients
    BY DEF FencedClients
  <2>2. QED
    BY <1>3, <2>1, RelinkEffect, MildSteps, TouchOne DEF Same, Quiet
<1>4. CASE Retry(j, w, gen)
  <2>1. w \in FencedClients
    BY DEF FencedClients
  <2>2. QED
    BY <1>4, <2>1, RetryEffect, MildSteps, TouchOne
<1>5. CASE UpdateTagStatus(j, w, gen, outcome, tags)
  <2>1. /\ OthersSame(j) /\ r.owner = w /\ s.owner = w
        /\ s.state = "queued" /\ s.token = r.token /\ s.remote = r.remote /\ r.state = "queued"
    BY <1>5, TagEffect
  <2>2. r.token = NoMarker
    BY <2>1 DEF RowsLinked
  <2>3. Mild(r, s)
    BY <2>1, <2>2 DEF Mild
  <2>4. QED
    BY <2>1, <2>3, TouchOne
<1>6. ASSUME NEW sources, NEW target \in {"uncertain", "blocked", "missing"}, NEW requested,
             Transition(j, w, gen, sources, target, NoRemote, NoMarker, requested)
      PROVE  Goal
  <2>1. /\ OthersSame(j) /\ r.owner = w /\ s.owner = NoOwner /\ s.state = target
        /\ s.remote \in {NoRemote, r.remote} /\ s.token = r.token /\ TagsOf(s) = TagsOf(r)
    <3>1. target \in LiveStates
      BY DEF LiveStates
    <3>2. QED
      BY <1>6, <3>1, TransitionEffect
  <2>2. Mild(r, s)
    BY <2>1 DEF Mild
  <2>3. QED
    BY <2>1, <2>2, TouchOne
<1>7. QED
  BY <1>1, <1>2, <1>3, <1>4, <1>5, <1>6
     DEF MoveToUncertain, TerminalUncertain, Block, MarkMissing

(* accept_transfer with the ID of a copy that bears the row's marker.               *)
LEMMA AcceptTouches ==
    ASSUME StoreInv, RowsLinked, NEW j \in Jobs, NEW w \in Owners, NEW gen, NEW source, NEW remote,
           AcceptTransfer(j, w, gen, source, remote),
           remote # NoRemote => HasCopy(remote, jobs[j].token)
    PROVE  Touches(w) /\ jobs[j].owner = w /\ jobs[j].state = source
<1> DEFINE r == jobs[j]  s == jobs'[j]
<1>1. /\ OthersSame(j) /\ r.owner = w /\ r.state = source /\ s.owner = NoOwner
      /\ s.state = "metadata_pending"
      /\ s.remote = IF remote = NoRemote THEN r.remote ELSE remote
      /\ s.token = r.token /\ TagsOf(s) = TagsOf(r)
  <2>1. "metadata_pending" \in LiveStates
    BY DEF LiveStates
  <2>2. QED
    BY <2>1, TransitionEffect DEF AcceptTransfer
<1>2. Mild(r, s)
  BY <1>1 DEF Mild
<1>3. QED
  BY <1>1, <1>2, TouchOne

(* mark_published of a row whose copy has been described.                          *)
LEMMA PublishTouches ==
    ASSUME StoreInv, RowsLinked, NEW j \in Jobs, NEW w \in Owners, NEW gen,
           MarkPublished(j, w, gen),
           jobs[j].owner = w /\ jobs[j].remote # NoRemote => IsDescribed(jobs[j].remote)
    PROVE  Touches(w) /\ jobs[j].owner = w
<1> DEFINE r == jobs[j]  s == jobs'[j]
<1>1. /\ OthersSame(j) /\ r.owner = w /\ s.owner = NoOwner /\ s.state = "published"
      /\ s.remote = r.remote /\ s.token = r.token /\ TagsOf(s) = TagsOf(r)
  <2>1. "published" \in LiveStates
    BY DEF LiveStates
  <2>2. QED
    BY <2>1, TransitionEffect DEF MarkPublished
<1>2. Mild(r, s)
  BY <1>1 DEF Mild
<1>3. QED
  BY <1>1, <1>2, TouchOne

(* What an operator or the rename callback does.                                   *)
LEMMA OperatorTouches ==
    ASSUME StoreInv, RowsLinked, NEW j \in Jobs, NEW gen, NEW path, NEW tags, NEW old, NEW identified,
           \/ Create(j, path, tags) \/ Retry(j, NoOwner, gen) \/ Relink(j, NoOwner, gen, path)
           \/ Forget(j) \/ UpdatePath(old, path, identified)
    PROVE  Touches(NoOwner)
<1>1. NoOwner \in FencedClients
  BY DEF FencedClients
<1>2. CASE Create(j, path, tags) \/ Forget(j)
  <2>1. OthersSame(j) /\ jobs'[j].owner = NoOwner
          /\ jobs'[j].token = NoMarker /\ jobs'[j].remote = NoRemote
    BY <1>2, CreateEffect, ForgetEffect
  <2>2. Mild(jobs[j], jobs'[j])
    BY <2>1 DEF Mild
  <2>3. QED
    BY <2>1, <2>2, TouchOne
<1>3. CASE Retry(j, NoOwner, gen)
  BY <1>1, <1>3, RetryEffect, MildSteps, TouchOne
<1>4. CASE Relink(j, NoOwner, gen, path)
  BY <1>1, <1>4, RelinkEffect, MildSteps, TouchOne DEF Same, Quiet
<1>5. CASE UpdatePath(old, path, identified)
  BY <1>5, UpdatePathEffect, MildSteps DEF Same, Quiet, Touches
<1>6. QED
  BY <1>2, <1>3, <1>4, <1>5

(* The markers and the null marker.                                               *)
LEMMA MarkerFacts ==
    /\ MaxMarkers \in Nat /\ NoMarker = 0 /\ NoRemote = 0
    /\ Markers = 1..MaxMarkers /\ Remotes = 1..MaxMarkers
BY PublisherAssumption

(* Mild steps that grow the server's store keep rows linked to their copies.     *)
LEMMA RowsKeep ==
    ASSUME RowsLinked, NEW w, Touches(w), Growing, minted \in Nat, minted' = minted
    PROVE  RowsLinked'
<1>1. ASSUME NEW j \in Jobs
      PROVE  /\ jobs'[j].token \in 0..minted /\ jobs'[j].token \in {jobs[j].token, NoMarker}
             /\ jobs'[j].state = "queued" => jobs'[j].token = NoMarker
             /\ jobs'[j].remote # NoRemote => HasCopy(jobs'[j].remote, jobs'[j].token)
             /\ jobs'[j].remote # NoRemote /\ jobs'[j].state = "published" =>
                   IsDescribed(jobs'[j].remote)
  <2> DEFINE r == jobs[j]  s == jobs'[j]
  <2>1. Mild(r, s)
    BY DEF Touches
  <2>2. r.token \in 0..minted /\ (r.remote # NoRemote => HasCopy(r.remote, r.token))
    BY DEF RowsLinked
  <2>3. 0 \in 0..minted
    OBVIOUS
  <2> HIDE DEF r, s
  <2>4. /\ s.token \in 0..minted /\ s.token \in {r.token, NoMarker}
        /\ s.state = "queued" => s.token = NoMarker
        /\ s.remote # NoRemote /\ s.state = "published" => IsDescribed(s.remote)
    BY <2>1, <2>2, <2>3, MarkerFacts DEF Mild
  <2>5. s.remote # NoRemote => HasCopy(s.remote, s.token)
    BY <2>1, <2>2 DEF Mild
  <2>6. QED
    BY <2>4, <2>5 DEF r, s
<1>2. \A n, m : /\ HasCopy(n, m) => HasCopy(n, m)'
                /\ IsDescribed(n) => IsDescribed(n)'
  BY DEF Growing, HasCopy, IsDescribed
<1>3. \A j, k \in Jobs : jobs'[j].token = jobs'[k].token /\ j # k => jobs'[j].token = NoMarker
  BY <1>1 DEF RowsLinked
<1>4. ASSUME NEW j \in Jobs, jobs'[j].remote # NoRemote
      PROVE  LET n == jobs'[j].remote IN
             /\ n \in RemoteIds' /\ recordings'[n].marker = jobs'[j].token
             /\ jobs'[j].state = "published" => recordings'[n].patched
  <2>1. PICK n, m : n = jobs'[j].remote /\ m = jobs'[j].token
    OBVIOUS
  <2>2. HasCopy(n, m)' /\ (jobs'[j].state = "published" => IsDescribed(n)')
    BY <1>1, <1>2, <1>4, <2>1
  <2>3. QED
    BY <2>1, <2>2 DEF HasCopy, IsDescribed
<1>5. QED
  BY <1>1, <1>3, <1>4 DEF RowsLinked, HasCopy, IsDescribed

(* Mild steps keep every request and copy described by its row.                  *)
LEMMA RequestKeeps ==
    ASSUME RowsLinked, NEW w, Touches(w), minted \in Nat, minted' = minted, NEW q, Describes(q)
    PROVE  Describes(q)'
<1>1. q.marker \in 1..minted /\ q.marker # NoMarker
  BY MarkerFacts DEF Describes
<1>2. ASSUME NEW j \in Jobs, jobs'[j].token = q.marker
      PROVE  q.job = j /\ q.tags = TagsOf(jobs'[j])
  <2>1. jobs[j].token = q.marker /\ TagsOf(jobs'[j]) = TagsOf(jobs[j])
    BY <1>1, <1>2 DEF Touches, Mild
  <2>2. QED
    BY <2>1 DEF Describes
<1>3. QED
  BY <1>1, <1>2 DEF Describes, TagsOf

(* A worker that does not move, whose row is left as it is or taken from it.        *)
LEMMA RemembersKeeps ==
    ASSUME NEW v \in Owners, Remembers(v), Growing,
           pc'[v] = pc[v], mem'[v] = mem[v],
           Same(jobs[Job(v)], jobs'[Job(v)]) \/ jobs'[Job(v)].owner # v
    PROVE  Remembers(v)'
<1> DEFINE r == jobs[Job(v)]  s == jobs'[Job(v)]
<1>1. Job(v)' = Job(v)
  BY DEF Job
<1>2. CASE s.owner # v
  BY <1>1, <1>2 DEF Remembers, Held
<1>3. CASE Same(r, s)
  <2>1. /\ s.owner = r.owner /\ s.state = r.state /\ s.token = r.token /\ s.remote = r.remote
        /\ TagsOf(s) = TagsOf(r)
    BY <1>3 DEF Same, Still
  <2>2. \A n, m : /\ HasCopy(n, m) => HasCopy(n, m)'
                  /\ IsDescribed(n) => IsDescribed(n)'
    BY DEF Growing, HasCopy, IsDescribed
  <2>3. PICK p, m, t, remote, tags : 
            /\ p = pc[v] /\ m = mem[v] /\ t = r.token /\ remote = r.remote /\ tags = TagsOf(r)
    OBVIOUS
  <2>4. Held(v)' <=> Held(v)
    BY <1>1, <2>1 DEF Held
  <2>5. TagsOf(jobs[Job(v)])' = tags
    BY <1>1, <2>1, <2>3 DEF TagsOf
  <2>6. /\ Held(v) /\ p \in Working =>
              s.state \in IF p \in Sending THEN {"transferring"}
                          ELSE {"queued", "uncertain", "metadata_pending"}
        /\ Held(v) /\ p = "post_begin" => m.tags = tags
        /\ Held(v) /\ p \in Sending => t = m.marker /\ m.tags = tags
        /\ Held(v) /\ p \in {"reconcile_tags", "reconcile_accept"} /\ m.remote # NoRemote =>
              HasCopy(m.remote, t)'
        /\ Held(v) /\ p = "patch_send" => m.remote = remote
        /\ Held(v) /\ p = "patch_done" /\ remote # NoRemote => IsDescribed(remote)'
    BY <2>1, <2>2, <2>3 DEF Remembers
  <2>7. /\ pc'[v] = p /\ mem'[v] = m /\ jobs[Job(v)]' = s
        /\ s.token = t /\ s.remote = remote
    BY <1>1, <2>1, <2>3
  <2>8. QED
    BY <2>4, <2>5, <2>6, <2>7 DEF Remembers, HasCopy, IsDescribed
<1>4. QED
  BY <1>2, <1>3

(* What a worker knows of its transfer stays true while others send other requests. *)
LEMMA KnowsKeeps ==
    ASSUME NEW v \in Owners, Knows(v), Growing, minted \in Nat, minted' \in Nat, minted' >= minted,
           pc'[v] = pc[v], mem'[v] = mem[v],
           KnowsUnsent(v) => Unsent(mem[v].marker)',
           \A q : Describes(q) => Describes(q)'
    PROVE  Knows(v)'
<1>1. KnowsUnsent(v)' <=> KnowsUnsent(v)
  BY DEF KnowsUnsent
<1>2. pc'[v] \in Sending => mem'[v].marker \in 1..minted'
  BY DEF Knows
<1>3. PICK m : m = mem[v]
  OBVIOUS
<1>4. KnowsUnsent(v)' => Unsent(m.marker)'
  BY <1>1, <1>3
<1>5. pc'[v] = "post_settle" /\ m.reply = "accepted" => HasCopy(m.remote, m.marker)'
  BY <1>3 DEF Knows, Growing, HasCopy
<1>6. pc'[v] = "post_send" => Describes(m)'
  BY <1>3 DEF Knows
<1>7. QED
  BY <1>2, <1>3, <1>4, <1>5, <1>6 DEF Knows, HasCopy, Unsent, Describes

---------------------------------------------------------------------------
(* Every step of a worker, the operator, the rename callback or the clock is one    *)
(* operation of the store, called with values the store expects, or none.          *)

(* The clock runs, and one step at a time.                                        *)
ClockRuns == clock' = clock \/ clock' = clock + 1

(* No step of the store turns the clock back.                                    *)
LEMMA StoreKeepsClock == StoreNext => ClockRuns
<1>1. \A j, s : Commit(j, s) => clock' = clock
  BY DEF Commit
<1>2. \A j \in Jobs : ClaimSteps(j) => clock' = clock
  BY DEF ClaimSteps, ClaimJob, ClaimNothing
<1>3. ASSUME NEW j \in Jobs, WorkerSteps(j)
      PROVE  clock' = clock
  BY <1>1, <1>3
     DEF WorkerSteps, Renew, Release, Schedule, UpdateTagStatus, ResolveReconciledTags,
         BeginTransfer, AcceptTransfer, MoveToUncertain, TerminalUncertain, Block,
         MarkMissing, MarkPublished, Transition
<1>4. ASSUME NEW j \in Jobs, OperatorSteps(j)
      PROVE  clock' = clock
  <2>1. \A path, tags : Create(j, path, tags) => clock' = clock
    BY <1>1 DEF Create
  <2>2. \A w, gen, path : Retry(j, w, gen) \/ Relink(j, w, gen, path) => clock' = clock
    BY <1>1 DEF Retry, Relink
  <2>3. Forget(j) => clock' = clock
    BY DEF Forget
  <2>4. QED
    BY <1>4, <2>1, <2>2, <2>3 DEF OperatorSteps
<1>5. ASSUME NEW i \in Intents, CleanupSteps(i)
      PROVE  clock' = clock
  <2>1. \A path : PrepareIntent(i, path) => clock' = clock
    BY DEF PrepareIntent
  <2>2. \A c : ClaimGroup(i, c) => clock' = clock
    BY DEF ClaimGroup
  <2>3. \A claim, phase : Advance(i, claim, phase) => clock' = clock
    BY DEF Advance
  <2>4. \A claim : RenewGroup(i, claim) \/ ReleaseGroup(i, claim) => clock' = clock
    BY DEF RenewGroup, ReleaseGroup
  <2>5. \A claim : CompleteGroup(i, claim) \/ AbortClaimed(i, claim) => clock' = clock
    BY DEF CompleteGroup, AbortClaimed
  <2>6. Abort(i) => clock' = clock
    BY DEF Abort
  <2>7. QED
    BY <1>5, <2>1, <2>2, <2>3, <2>4, <2>5, <2>6 DEF CleanupSteps
<1>6. \A old, new, identified : UpdatePath(old, new, identified) => clock' = clock
  BY DEF UpdatePath
<1>7. Tick => clock' = clock + 1
  BY DEF Tick
<1>8. QED
  BY <1>2, <1>3, <1>4, <1>5, <1>6, <1>7 DEF StoreNext, ClockRuns

(* An operation of a worker names the generation of the lease it holds.            *)
LEMMA WorkIsStore ==
    ASSUME StoreInv, NEW j \in Jobs, NEW w \in Owners, NEW gen,
           \/ Renew(j, w, gen) \/ Retry(j, w, gen)
           \/ \E due \in {clock, clock + 1} : Schedule(j, w, gen, due)
           \/ \E path \in Paths : Relink(j, w, gen, path)
           \/ \E marker \in Markers : BeginTransfer(j, w, gen, marker)
           \/ \E remote \in Remotes, source \in {"transferring", "uncertain"} :
                 AcceptTransfer(j, w, gen, source, remote)
           \/ MoveToUncertain(j, w, gen) \/ TerminalUncertain(j, w, gen)
           \/ Block(j, w, gen) \/ MarkMissing(j, w, gen) \/ MarkPublished(j, w, gen)
           \/ \E tags \in SUBSET jobs[j].frozen : UpdateTagStatus(j, w, gen, "known", tags)
           \/ UpdateTagStatus(j, w, gen, "unknown", {})
           \/ ResolveReconciledTags(j, w, gen)
    PROVE  StoreNext
<1>1. gen = jobs[j].gen
  BY FenceHolds
     DEF Renew, Schedule, Relink, Retry, UpdateTagStatus, ResolveReconciledTags,
         BeginTransfer, AcceptTransfer, MoveToUncertain, TerminalUncertain, Block,
         MarkMissing, MarkPublished, Transition, MayTransition
<1>2. w \in FencedClients
  BY DEF FencedClients
<1> DEFINE Resuming == Retry(j, w, gen) \/ \E path \in Paths : Relink(j, w, gen, path)
<1>3. Resuming => OperatorSteps(j)
  BY <1>1, <1>2 DEF OperatorSteps
<1>4. ~ Resuming => WorkerSteps(j)
  BY <1>1 DEF WorkerSteps
<1>5. QED
  BY <1>3, <1>4 DEF StoreNext

(* A claim at the present or at a reading of a moment ago.                         *)
LEMMA ClaimIsStore ==
    ASSUME clock \in Nat, clock > 0, NEW j \in Jobs, NEW w \in Owners, NEW any \in BOOLEAN,
           NEW now \in 1..clock, any => now = clock,
           ClaimJob(j, w, any, now) \/ ClaimNothing(j, any, now)
    PROVE  StoreNext
BY DEF ClaimSteps, StoreNext

(* What the invariant says of one worker.                                         *)
LEMMA WorkerFacts ==
    ASSUME PublisherInv, NEW w \in Owners
    PROVE  /\ StoreInv /\ RowsLinked /\ Remembers(w) /\ Knows(w)
           /\ pc[w] \in Steps /\ mem[w] \in Memory /\ Job(w) \in Jobs
           /\ minted \in Nat /\ clock \in Nat /\ clock > 0
<1>1. pc[w] \in Steps /\ mem[w] \in Memory /\ clock > 0
  BY DEF PublisherInv, PublisherTypeOK
<1>2. Job(w) \in Jobs
  BY <1>1 DEF Job, Memory
<1>3. minted \in Nat /\ clock \in Nat
  BY MarkerFacts DEF PublisherInv, PublisherTypeOK, StoreInv, TypeOK
<1>4. QED
  BY <1>1, <1>2, <1>3 DEF PublisherInv

(* The remote ID a worker accepts is one the server may have given.                *)
LEMMA AcceptsRemote ==
    ASSUME PublisherInv, NEW w \in Owners,
           \/ pc[w] = "post_settle" /\ mem[w].reply = "accepted"
           \/ pc[w] = "reconcile_accept"
    PROVE  mem[w].remote \in Remotes
<1>1. mem[w].remote \in Remotes \cup {NoRemote} /\ Knows(w)
  BY WorkerFacts DEF Memory
<1>2. 0 \notin RemoteIds
  BY DEF PublisherInv, PublisherTypeOK, RemoteIds
<1>3. mem[w].remote # NoRemote
  BY <1>1, <1>2, MarkerFacts DEF Knows, HasCopy
<1>4. QED
  BY <1>1, <1>3

(* Every action of a worker is one operation of the store, or none.              *)
LEMMA WorkerCallsStore ==
    ASSUME PublisherInv, NEW w \in Owners, Worker(w)
    PROVE  StoreNext \/ UNCHANGED storeVars
<1> DEFINE Goal == StoreNext \/ UNCHANGED storeVars
<1>1. StoreInv /\ Job(w) \in Jobs /\ clock \in Nat /\ clock > 0 /\ minted \in Nat
  BY WorkerFacts
<1> HIDE DEF Goal
<1>2. ASSUME NEW j \in Jobs, Start(w, j) \/ StartNothing(w, j) \/ StartBlock(w, j)
      PROVE  Goal
  <2>1. CASE Start(w, j) \/ StartNothing(w, j)
    <3>1. PICK now \in 1..clock : ClaimJob(j, w, FALSE, now) \/ ClaimNothing(j, FALSE, now)
      BY <2>1 DEF Start, StartNothing
    <3>2. QED
      BY <1>1, <3>1, ClaimIsStore DEF Goal
  <2>2. CASE StartBlock(w, j)
    <3>1. ClaimJob(j, w, TRUE, clock)
      BY <2>2 DEF StartBlock
    <3>2. clock \in 1..clock /\ TRUE \in BOOLEAN
      BY <1>1
    <3>3. StoreNext
      BY <1>1, <3>1, <3>2, ClaimIsStore
    <3>4. QED
      BY <3>3 DEF Goal
  <2>3. QED
    BY <1>2, <2>1, <2>2
<1>3. Reclaim(w) \/ RequeueClaim(w) => Goal
  <2>1. clock \in 1..clock
    BY <1>1
  <2>2. QED
    BY <1>1, <2>1, ClaimIsStore DEF Goal, Reclaim, RequeueClaim
<1>4. BlockConfiguration(w) \/ Heartbeat(w) \/ LocalFailure(w) \/ MetadataFailure(w) \/ RefreshPath(w) => Goal
  BY <1>1, WorkIsStore
     DEF Goal, BlockConfiguration, Heartbeat, LocalFailure, MetadataFailure, RefreshPath
<1>5. Stop(w) \/ PostSend(w) \/ UploadTimeout(w) \/ PatchSend(w) => Goal
  BY DEF Goal, Stop, PostSend, UploadTimeout, PatchSend
<1>6. PostStage(w) \/ PostRenew(w) \/ SettleUnknown(w) \/ SettleRefused(w) \/ SettleNotSent(w) => Goal
  BY <1>1, WorkIsStore DEF Goal, PostStage, PostRenew, SettleUnknown, SettleRefused, SettleNotSent
<1>7. ResolveTags(w) => Goal
  BY <1>1, WorkIsStore DEF Goal, ResolveTags
<1>8. PostBegin(w) => Goal
  <2>1. PostBegin(w) => minted + 1 \in Markers
    BY <1>1, MarkerFacts DEF PostBegin
  <2>2. QED
    BY <1>1, <2>1, WorkIsStore DEF Goal, PostBegin
<1>9. Accept(w) \/ ReconcileAccept(w) => Goal
  BY <1>1, AcceptsRemote, WorkIsStore DEF Goal, Accept, ReconcileAccept
<1>10. RequeueRetry(w) \/ RequeueSchedule(w) \/ Reconcile(w) \/ ReconcileUnavailable(w) => Goal
  BY <1>1, WorkIsStore DEF Goal, RequeueRetry, RequeueSchedule, Reconcile, ReconcileUnavailable
<1>11. ReconcileNoMatch(w) \/ ReconcileTags(w) \/ PatchStage(w) => Goal
  BY <1>1, WorkIsStore DEF Goal, ReconcileNoMatch, ReconcileTags, PatchStage
<1>12. PatchFails(w) \/ PatchDone(w) => Goal
  BY <1>1, WorkIsStore DEF Goal, PatchFails, PatchDone
<1>13. QED
  BY <1>2, <1>3, <1>4, <1>5, <1>6, <1>7, <1>8, <1>9, <1>10, <1>11, <1>12
     DEF Goal, Worker, Post, ReconcileOrPatch

(* Every step of the system is a step of the store, or leaves it alone.          *)
LEMMA StepCallsStore ==
    ASSUME PublisherInv, [Next]_vars
    PROVE  [StoreNext]_storeVars
<1>1. ASSUME NEW w \in Owners, Worker(w)
      PROVE  StoreNext \/ UNCHANGED storeVars
  BY <1>1, WorkerCallsStore
<1>2. ASSUME NEW j \in Jobs, Operator(j)
      PROVE  StoreNext
  <2>1. NoOwner \in FencedClients /\ \A gen : Fenced(jobs[j], NoOwner, gen) <=> Fenced(jobs[j], NoOwner, 0)
    BY DEF FencedClients, Fenced
  <2>2. Enqueue(j) \/ OperatorForget(j) => OperatorSteps(j)
    BY DEF Enqueue, OperatorForget, OperatorSteps
  <2>3. OperatorRetry(j) => OperatorSteps(j)
    BY <2>1 DEF OperatorRetry, OperatorSteps, Retry
  <2>4. OperatorRelink(j) => OperatorSteps(j)
    BY <2>1 DEF OperatorRelink, OperatorSteps, Relink
  <2>5. QED
    BY <1>2, <2>2, <2>3, <2>4 DEF Operator, StoreNext
<1>3. RenameCallback \/ Passage => StoreNext
  BY DEF RenameCallback, Passage, StoreNext
<1>4. Server \/ UNCHANGED vars => UNCHANGED storeVars
  BY DEF Server, ServerStores, ServerRefuses, vars
<1>5. QED
  BY <1>1, <1>2, <1>3, <1>4 DEF Next

(* Hence the invariant of the store, and a clock that does not step back.          *)
LEMMA StoreHolds ==
    ASSUME PublisherInv, [Next]_vars
    PROVE  StoreInv' /\ clock' > 0
<1>1. StoreInv /\ clock \in Nat /\ clock > 0
  BY DEF PublisherInv, PublisherTypeOK, StoreInv, TypeOK
<1>2. [StoreNext]_storeVars
  BY StepCallsStore
<1>3. clock' = clock \/ clock' = clock + 1
  BY <1>2, StoreKeepsClock DEF ClockRuns, storeVars
<1>4. QED
  BY <1>1, <1>2, <1>3, StoreSteps

---------------------------------------------------------------------------
(* Steps that send and store no request.                                          *)

(* The copies stay, with their descriptions, and there is no new one.              *)
SameCopies ==
    /\ recordings' \in Seq(Recording) /\ RemoteIds' = RemoteIds
    /\ \A n \in RemoteIds :
          /\ recordings'[n].job = recordings[n].job
          /\ recordings'[n].marker = recordings[n].marker
          /\ recordings'[n].tags = recordings[n].tags
          /\ recordings[n].patched => recordings'[n].patched

(* The mover is the worker that took the step, or NoOwner.                          *)
Moves(u) ==
    /\ StoreInv' /\ clock' > 0 /\ Touches(u) /\ SameCopies
    /\ UNCHANGED <<minted, wire>> /\ authorised' \in [Jobs -> Nat]
    /\ pc' \in [Owners -> Steps] /\ mem' \in [Owners -> Memory]
    /\ \A v \in Owners \ {u} : pc'[v] = pc[v] /\ mem'[v] = mem[v]

(* A step of one client leaves what every other worker remembers and knows true. *)
LEMMA OthersKeep ==
    ASSUME PublisherInv, NEW u \in FencedClients, Moves(u), NEW v \in Owners \ {u}
    PROVE  Remembers(v)' /\ Knows(v)'
<1>1. Growing
  BY DEF Moves, SameCopies, Growing
<1>2. pc'[v] = pc[v] /\ mem'[v] = mem[v] /\ v # NoOwner
  BY StoreAssumption DEF Moves
<1>3. Remembers(v) /\ Knows(v) /\ Job(v) \in Jobs /\ minted \in Nat /\ minted' = minted
  BY WorkerFacts DEF Moves
<1>4. Same(jobs[Job(v)], jobs'[Job(v)]) \/ jobs'[Job(v)].owner # v
  BY <1>2, <1>3 DEF Moves, Touches
<1>5. Remembers(v)'
  BY <1>1, <1>2, <1>3, <1>4, RemembersKeeps
<1>6. PICK marker : marker = mem[v].marker
  OBVIOUS
<1>7. Unsent(marker) => Unsent(marker)'
  BY DEF Unsent, Moves, SameCopies
<1>8. KnowsUnsent(v) => Unsent(mem[v].marker)'
  BY <1>2, <1>3, <1>6, <1>7 DEF Knows, Unsent
<1>9. ASSUME NEW q, Describes(q)
      PROVE  Describes(q)'
  BY <1>3, <1>9, RequestKeeps DEF PublisherInv, Moves
<1>10. Knows(v)'
  BY <1>1, <1>2, <1>3, <1>8, <1>9, KnowsKeeps
<1>11. QED
  BY <1>5, <1>10

(* What is left to show of a step: what the mover remembers and knows.             *)
LEMMA Frame ==
    ASSUME PublisherInv, NEW u \in FencedClients, Moves(u),
           u \in Owners => /\ Remembers(u)' /\ Knows(u)'
                           /\ pc'[u] \in Sending =>
                                 pc[u] \in Sending /\ mem'[u].marker = mem[u].marker
    PROVE  PublisherInv'
<1>1. Growing
  BY DEF Moves, SameCopies, Growing
<1>2. RowsLinked /\ RequestsDescribed /\ SentOnce /\ OwnMarkers /\ Touches(u)
      /\ minted' = minted /\ wire' = wire
  BY DEF PublisherInv, Moves
<1>3. minted \in 0..MaxMarkers /\ wire \subseteq Request /\ RemoteIds \subseteq Remotes
  BY DEF PublisherInv, PublisherTypeOK
<1>4. minted \in Nat
  BY <1>3, MarkerFacts
<1>5. PublisherTypeOK'
  BY <1>2, <1>3 DEF PublisherTypeOK, Moves, SameCopies
<1>6. RowsLinked'
  BY <1>1, <1>2, <1>4, RowsKeep
<1>7. RequestsDescribed'
  <2>1. ASSUME NEW q \in wire
        PROVE  Describes(q)'
    BY <1>2, <1>4, RequestKeeps DEF RequestsDescribed
  <2>2. ASSUME NEW n \in RemoteIds
        PROVE  Describes(recordings[n])' 
    <3>1. PICK q : q = recordings[n]
      OBVIOUS
    <3>2. Describes(q)'
      BY <1>2, <1>4, <3>1, RequestKeeps DEF RequestsDescribed
    <3>3. recordings'[n].marker = q.marker /\ recordings'[n].job = q.job /\ recordings'[n].tags = q.tags
      BY <3>1 DEF Moves, SameCopies
    <3>4. QED
      BY <3>2, <3>3 DEF Describes
  <2>3. RemoteIds' = RemoteIds
    BY DEF Moves, SameCopies
  <2>4. QED
    BY <1>2, <2>1, <2>2, <2>3 DEF RequestsDescribed
<1>8. SentOnce'
  BY <1>2 DEF SentOnce, Moves, SameCopies
<1>9. OwnMarkers'
  BY <1>2 DEF OwnMarkers, Moves
<1>10. \A v \in Owners : Remembers(v)' /\ Knows(v)'
  BY OthersKeep
<1>11. QED
  BY <1>5, <1>6, <1>7, <1>8, <1>9, <1>10 DEF PublisherInv, Moves

(* A worker that comes to rest between two leases, or is done with its job.         *)
LEMMA RestStep ==
    ASSUME PublisherInv, NEW w \in Owners, NEW step \in Steps \ Working,
           NEW m \in Memory, StoreInv', clock' > 0, Touches(w), SameCopies,
           pc' = [pc EXCEPT ![w] = step], mem' = [mem EXCEPT ![w] = m],
           UNCHANGED <<minted, wire, authorised>>
    PROVE  PublisherInv'
<1>1. pc \in [Owners -> Steps] /\ mem \in [Owners -> Memory] /\ authorised \in [Jobs -> Nat]
  BY DEF PublisherInv, PublisherTypeOK
<1>2. pc'[w] = step /\ w \in FencedClients
  BY <1>1 DEF FencedClients
<1>3. Moves(w)
  BY <1>1 DEF Moves
<1>4. Remembers(w)' /\ Knows(w)' /\ step \notin Sending
  BY <1>2 DEF Remembers, Knows, KnowsUnsent, Working, Steps, Sending
<1>5. QED
  BY <1>2, <1>3, <1>4, Frame

(* The memory of an idle worker is typed.                                        *)
LEMMA NothingType == Nothing \in Memory
<1>1. (CHOOSE j \in Jobs : TRUE) \in Jobs
  BY PublisherAssumption
<1>2. QED
  BY <1>1 DEF Nothing, Fresh, Memory, Replies

(* StoreStep to such a place.                                                      *)
LEMMA RestingStoreStep ==
    ASSUME PublisherInv, NEW w \in Owners, StoreInv', clock' > 0, Touches(w),
           NEW step \in {"idle", "reclaim", "requeue_claim", "requeue_again"},
           StoreStep(w, step)
    PROVE  PublisherInv'
<1>1. step \in Steps \ Working
  BY DEF Steps, Working
<1>2. mem \in [Owners -> Memory] /\ recordings \in Seq(Recording) /\ Nothing \in Memory
  BY NothingType DEF PublisherInv, PublisherTypeOK
<1>3. PICK m \in Memory : mem' = [mem EXCEPT ![w] = m]
  <2>1. CASE step = "idle"
    BY <1>2, <2>1 DEF StoreStep
  <2>2. CASE step # "idle"
    <3>1. mem[w] \in Memory /\ mem' = [mem EXCEPT ![w] = mem[w]]
      BY <1>2, <2>2 DEF StoreStep
    <3>2. QED
      BY <3>1
  <2>3. QED
    BY <2>1, <2>2
<1>4. SameCopies /\ UNCHANGED <<minted, wire, authorised>> /\ pc' = [pc EXCEPT ![w] = step]
  BY <1>2 DEF SameCopies, StoreStep, Goto, RemoteIds
<1>5. QED
  BY <1>1, <1>3, <1>4, RestStep

(* A worker that fences a row of a state it can work on.                           *)
LEMMA FenceStep ==
    ASSUME PublisherInv, NEW w \in Owners, NEW j \in Jobs, StoreInv', clock' > 0, Touches(w),
           jobs'[j].state \in ClaimedStates,
           NEW step \in {"idle", "block", "post_stage", "reconcile", "patch_stage",
                         "requeue_retry", "requeue_schedule"},
           Fence(w, j, step)
    PROVE  PublisherInv'
<1> DEFINE m == Fresh(j, jobs'[j].gen)
<1>1. pc \in [Owners -> Steps] /\ mem \in [Owners -> Memory] /\ authorised \in [Jobs -> Nat]
      /\ recordings \in Seq(Recording)
  BY DEF PublisherInv, PublisherTypeOK
<1>2. m \in Memory /\ m.job = j
  <2>1. jobs'[j].gen \in Nat
    BY DEF StoreInv, TypeOK, Row
  <2>2. QED
    BY <2>1 DEF Fresh, Memory, Replies
<1>3. step \in Steps /\ w \in FencedClients
  BY DEF Steps, FencedClients
<1>4. pc'[w] = step /\ mem'[w] = m /\ Job(w)' = j
  BY <1>1, <1>2 DEF Fence, Goto, Job
<1>5. Moves(w)
  BY <1>1, <1>2, <1>3 DEF Moves, Fence, Goto, SameCopies, RemoteIds
<1>6. Remembers(w)' /\ Knows(w)' /\ step \notin Sending
  BY <1>4 DEF Remembers, Knows, KnowsUnsent, Working, Steps, Sending, ClaimedStates
<1>7. QED
  BY <1>3, <1>4, <1>5, <1>6, Frame

(* Nobody's position changes.                                                      *)
LEMMA StillStep ==
    ASSUME PublisherInv, StoreInv', clock' > 0, Touches(NoOwner),
           UNCHANGED <<pc, mem, minted, wire, recordings>>, authorised' \in [Jobs -> Nat]
    PROVE  PublisherInv'
<1>1. NoOwner \in FencedClients /\ NoOwner \notin Owners
  BY StoreAssumption DEF FencedClients
<1>2. Moves(NoOwner)
  BY DEF Moves, SameCopies, PublisherInv, PublisherTypeOK, RemoteIds
<1>3. QED
  BY <1>1, <1>2, Frame

(* A worker that goes on with the row it holds.                                    *)
LEMMA AdvanceStep ==
    ASSUME PublisherInv, NEW w \in Owners, NEW step \in Steps \ Sending,
           NEW m \in Memory, m.job = Job(w), NEW s, s = jobs'[Job(w)],
           StoreInv', clock' > 0, Touches(w), SameCopies,
           pc' = [pc EXCEPT ![w] = step], mem' = [mem EXCEPT ![w] = m],
           UNCHANGED <<minted, wire, authorised>>,
           s.owner = w => s.state \in ClaimedStates,
           s.owner = w /\ step = "post_begin" => m.tags = TagsOf(s),
           s.owner = w /\ step \in {"reconcile_tags", "reconcile_accept"} /\ m.remote # NoRemote =>
              HasCopy(m.remote, s.token),
           s.owner = w /\ step = "patch_send" => m.remote = s.remote,
           s.owner = w /\ step = "patch_done" /\ s.remote # NoRemote =>
              s.remote \in RemoteIds /\ recordings'[s.remote].patched,
           step = "reconcile_accept" => m.remote # NoRemote
    PROVE  PublisherInv'
<1>1. pc \in [Owners -> Steps] /\ mem \in [Owners -> Memory] /\ authorised \in [Jobs -> Nat]
      /\ w \in FencedClients
  BY DEF PublisherInv, PublisherTypeOK, FencedClients
<1>2. pc'[w] = step /\ mem'[w] = m /\ jobs'[Job(w)'] = s
  BY <1>1 DEF Job
<1>3. Moves(w)
  BY <1>1 DEF Moves
<1>4. HasCopy(m.remote, s.token) => HasCopy(m.remote, s.token)'
  BY DEF HasCopy, SameCopies
<1>5. s.remote \in RemoteIds <=> s.remote \in RemoteIds'
  BY DEF SameCopies
<1>6. Remembers(w)'
  BY <1>2, <1>4, <1>5 DEF Remembers, Held, Sending, ClaimedStates, HasCopy, IsDescribed, TagsOf
<1>7. Knows(w)' /\ step \notin Sending
  BY <1>2 DEF Knows, KnowsUnsent, Sending
<1>8. QED
  BY <1>1, <1>2, <1>3, <1>6, <1>7, Frame

(* A PATCH changes no copy but for its description.                              *)
LEMMA PatchedCopies ==
    ASSUME PublisherInv, NEW remote, Patched(remote)
    PROVE  SameCopies /\ (remote \in RemoteIds => recordings'[remote].patched)
<1>1. recordings \in Seq(Recording) /\ RemoteIds = 1..Len(recordings) /\ Len(recordings) \in Nat
  BY DEF PublisherInv, PublisherTypeOK, RemoteIds
<1>2. recordings' = [recordings EXCEPT ![remote].patched = TRUE]
  BY DEF Patched
<1>3. \A n \in RemoteIds : recordings[n] \in Recording
  BY <1>1
<1>4. RemoteIds' = RemoteIds
  BY <1>2 DEF RemoteIds
<1>5. \A n \in RemoteIds :
         /\ n # remote => recordings'[n] = recordings[n]
         /\ n = remote => recordings'[n] = [recordings[n] EXCEPT !.patched = TRUE]
  BY <1>2 DEF RemoteIds
<1>6. ASSUME NEW n \in RemoteIds
      PROVE  /\ recordings'[n] \in Recording
             /\ recordings'[n].job = recordings[n].job
             /\ recordings'[n].marker = recordings[n].marker
             /\ recordings'[n].tags = recordings[n].tags
             /\ recordings[n].patched => recordings'[n].patched
             /\ n = remote => recordings'[n].patched
  <2> DEFINE q == recordings[n]  p == recordings'[n]
  <2>1. q \in Recording /\ ((p = q /\ n # remote) \/ p = [q EXCEPT !.patched = TRUE])
    BY <1>3, <1>5
  <2> HIDE DEF q, p
  <2>2. p \in Recording /\ p.job = q.job /\ p.marker = q.marker /\ p.tags = q.tags
          /\ (q.patched => p.patched) /\ (n = remote => p.patched)
    BY <2>1 DEF Recording
  <2>3. QED
    BY <2>2 DEF q, p
<1>7. recordings' \in Seq(Recording)
  <2>1. recordings' \in [1..Len(recordings) -> Recording]
    <3>1. recordings \in [1..Len(recordings) -> Recording]
      BY <1>1
    <3>2. PICK e : recordings' = [recordings EXCEPT ![remote] = e]
      BY <1>2
    <3>3. recordings' \in [1..Len(recordings) -> Recording \cup {e}]
      BY <3>1, <3>2
    <3>4. QED
      BY <1>1, <1>6, <3>3
  <2>2. QED
    BY <1>1, <2>1, SeqDef
<1>8. QED
  BY <1>4, <1>6, <1>7 DEF SameCopies

---------------------------------------------------------------------------
(* The actions of a worker.                                                       *)

(* _run_one's claims, and the phase a claimed row continues from.                  *)
LEMMA ClaimSafe ==
    ASSUME PublisherInv, NEW w \in Owners, NEW j \in Jobs, StoreInv', clock' > 0,
           Start(w, j) \/ StartNothing(w, j) \/ StartBlock(w, j)
    PROVE  PublisherInv'
<1>1. StoreInv /\ RowsLinked /\ clock \in Nat /\ \A t \in 1..clock : t \in Nat
  BY WorkerFacts
<1>2. PhaseOf(jobs'[j].state) \in {"idle", "post_stage", "reconcile", "patch_stage"}
  BY DEF PhaseOf
<1>3. CASE Start(w, j)
  <2>1. PICK now \in Nat : ClaimJob(j, w, FALSE, now)
    BY <1>1, <1>3 DEF Start
  <2>2. Touches(w) /\ jobs'[j].state \in ClaimedStates
    BY <1>1, <2>1, ClaimTouches, ClaimEffect
  <2>3. QED
    BY <1>2, <1>3, <2>2, FenceStep DEF Start
<1>4. CASE StartBlock(w, j)
  <2>1. ClaimJob(j, w, TRUE, clock)
    BY <1>4 DEF StartBlock
  <2>2. Touches(w) /\ jobs'[j].state \in ClaimedStates
    BY <1>1, <2>1, ClaimTouches, ClaimEffect
  <2>3. QED
    BY <1>4, <2>2, FenceStep DEF StartBlock
<1>5. CASE StartNothing(w, j)
  <2>1. PICK now \in Nat : ClaimNothing(j, FALSE, now)
    BY <1>1, <1>5 DEF StartNothing
  <2>2. \A k \in Jobs : Recovers(jobs[k], jobs'[k])
    BY <1>1, <2>1, ClaimNothingEffect
  <2>3. \A k \in Jobs : /\ Quiet(jobs[k], jobs'[k])
                        /\ Same(jobs[k], jobs'[k]) \/ jobs'[k].owner = NoOwner
    BY <2>2 DEF Recovers, Quiet, Same, Still
  <2>4. Touches(NoOwner)
    BY <1>1, <2>3, MildSteps DEF Touches
  <2>5. UNCHANGED publisherVars /\ authorised \in [Jobs -> Nat]
    BY <1>5 DEF StartNothing, PublisherInv, PublisherTypeOK
  <2>6. QED
    BY <2>4, <2>5, StillStep DEF publisherVars
<1>6. QED
  BY <1>3, <1>4, <1>5

(* A worker that claims its row again continues from what is persisted.          *)
LEMMA ReclaimSafe ==
    ASSUME PublisherInv, NEW w \in Owners, StoreInv', clock' > 0, Reclaim(w) \/ RequeueClaim(w)
    PROVE  PublisherInv'
<1> DEFINE j == Job(w)
<1>1. StoreInv /\ RowsLinked /\ clock \in Nat /\ j \in Jobs
  BY WorkerFacts
<1>2. Touches(w)
  BY <1>1, ClaimTouches DEF Reclaim, RequeueClaim
<1>3. CASE ClaimNothing(j, FALSE, clock) /\ StoreStep(w, "idle")
  BY <1>2, <1>3, RestingStoreStep
<1>4. ASSUME ClaimJob(j, w, FALSE, clock),
             NEW step \in {"idle", "post_stage", "reconcile", "patch_stage",
                           "requeue_retry", "requeue_schedule"},
             Fence(w, j, step)
      PROVE  PublisherInv'
  <2>1. jobs'[j].state \in ClaimedStates
    BY <1>1, <1>4, ClaimEffect
  <2>2. QED
    BY <1>1, <1>2, <1>4, <2>1, FenceStep
<1>5. PhaseOf(jobs'[j].state) \in {"idle", "post_stage", "reconcile", "patch_stage"}
  BY DEF PhaseOf
<1>6. QED
  BY <1>3, <1>4, <1>5 DEF Reclaim, RequeueClaim

(* Transactions after which the worker holds no lease.                             *)
LEMMA ReleasingSafe ==
    ASSUME PublisherInv, NEW w \in Owners, StoreInv', clock' > 0,
           \/ BlockConfiguration(w) \/ LocalFailure(w) \/ MetadataFailure(w)
           \/ SettleUnknown(w) \/ SettleRefused(w) \/ SettleNotSent(w)
           \/ RequeueRetry(w) \/ RequeueSchedule(w)
           \/ ReconcileUnavailable(w) \/ ReconcileNoMatch(w)
    PROVE  PublisherInv'
<1> DEFINE j == Job(w)  gen == Gen(w)
<1>1. StoreInv /\ RowsLinked /\ j \in Jobs
  BY WorkerFacts
<1>2. PICK step \in {"idle", "reclaim", "requeue_claim", "requeue_again"} :
         /\ StoreStep(w, step)
         /\ \/ Block(j, w, gen) \/ MarkMissing(j, w, gen) \/ \E due : Schedule(j, w, gen, due)
            \/ MoveToUncertain(j, w, gen) \/ TerminalUncertain(j, w, gen) \/ Retry(j, w, gen)
  BY DEF BlockConfiguration, LocalFailure, MetadataFailure, SettleUnknown, SettleRefused,
         SettleNotSent, RequeueRetry, RequeueSchedule, ReconcileUnavailable, ReconcileNoMatch
<1>3. Touches(w)
  BY <1>1, <1>2, WorkTouches
<1>4. QED
  BY <1>2, <1>3, RestingStoreStep

(* A worker that stops anywhere.                                                  *)
LEMMA StopSafe ==
    ASSUME PublisherInv, NEW w \in Owners, StoreInv', clock' > 0, Stop(w)
    PROVE  PublisherInv'
<1>1. RowsLinked /\ StoreStep(w, "idle") /\ jobs' = jobs
  BY WorkerFacts DEF Stop, storeVars
<1>2. \A k \in Jobs : Quiet(jobs[k], jobs'[k]) /\ Same(jobs[k], jobs'[k])
  BY <1>1 DEF Quiet, Same, Still
<1>3. Touches(w)
  BY <1>1, <1>2, MildSteps DEF Touches
<1>4. QED
  BY <1>1, <1>3, RestingStoreStep

(* The heartbeat, and a rename written to the row while it is leased.              *)
LEMMA HeartbeatSafe ==
    ASSUME PublisherInv, NEW w \in Owners, StoreInv', clock' > 0, Heartbeat(w) \/ RefreshPath(w)
    PROVE  PublisherInv'
<1> DEFINE j == Job(w)  gen == Gen(w)
<1>1. StoreInv /\ RowsLinked /\ Remembers(w) /\ j \in Jobs
  BY WorkerFacts
<1>2. OthersSame(j) /\ Same(jobs[j], jobs'[j])
  <2>1. CASE Heartbeat(w)
    BY <1>1, <2>1, RenewEffect DEF Heartbeat
  <2>2. CASE RefreshPath(w)
    <3>1. PICK path : Relink(j, w, gen, path)
      BY <2>2 DEF RefreshPath
    <3>2. w \in FencedClients
      BY DEF FencedClients
    <3>3. jobs[j].owner = w /\ OthersSame(j) /\ (Same(jobs[j], jobs'[j]) \/ jobs[j].state = "missing")
      BY <1>1, <3>1, <3>2, RelinkEffect
    <3>4. pc[w] \in Working
      BY <2>2 DEF RefreshPath, Working, Steps
    <3>5. jobs[j].state # "missing"
      BY <1>1, <3>3, <3>4 DEF Remembers, Held
    <3>6. QED
      BY <3>3, <3>5
  <2>3. QED
    BY <2>1, <2>2
<1>3. \A k \in Jobs : Quiet(jobs[k], jobs'[k]) /\ Same(jobs[k], jobs'[k])
  BY <1>2 DEF OthersSame, Same, Still, Quiet
<1>4. Touches(NoOwner)
  BY <1>1, <1>3, MildSteps DEF Touches
<1>5. UNCHANGED publisherVars /\ authorised \in [Jobs -> Nat]
  BY DEF Heartbeat, RefreshPath, PublisherInv, PublisherTypeOK
<1>6. QED
  BY <1>4, <1>5, StillStep DEF publisherVars

(* Nothing about the copies changes.                                              *)
LEMMA CopiesUntouched == PublisherInv /\ UNCHANGED recordings => SameCopies
BY DEF PublisherInv, PublisherTypeOK, SameCopies, RemoteIds

(* The staged snapshot; the resolved tags; the reported tags of a found copy.       *)
LEMMA StageSafe ==
    ASSUME PublisherInv, NEW w \in Owners, StoreInv', clock' > 0,
           PostStage(w) \/ ReconcileTags(w)
    PROVE  PublisherInv'
<1> DEFINE j == Job(w)  gen == Gen(w)
<1>1. StoreInv /\ RowsLinked /\ Remembers(w) /\ j \in Jobs /\ mem[w] \in Memory
  BY WorkerFacts
<1>2. PICK step \in {"post_tags", "reconcile_accept"} :
         /\ StoreStep(w, step) /\ (Renew(j, w, gen) \/ ResolveReconciledTags(j, w, gen))
         /\ \/ step = "post_tags" /\ pc[w] = "post_stage"
            \/ step = "reconcile_accept" /\ pc[w] = "reconcile_tags" /\ mem[w].remote # NoRemote
  BY DEF PostStage, ReconcileTags
<1>3. Touches(w) /\ jobs[j].owner = w
  BY <1>1, <1>2, WorkTouches
<1>4. Same(jobs[j], jobs'[j])
  BY <1>1, <1>2, RenewEffect, TagsReconciledEffect
<1>5. mem' = [mem EXCEPT ![w] = mem[w]] /\ pc' = [pc EXCEPT ![w] = step]
         /\ UNCHANGED <<minted, wire, recordings, authorised>>
  BY <1>2 DEF StoreStep, Goto, PublisherInv, PublisherTypeOK
<1>6. SameCopies
  BY <1>5, CopiesUntouched
<1>7. step \in Steps \ Sending /\ mem[w].job = j
  BY DEF Steps, Sending, Job
<1>8. PICK s : s = jobs'[j]
  OBVIOUS
<1>9. s.state \in ClaimedStates
        /\ (step = "reconcile_accept" => HasCopy(mem[w].remote, s.token))
  BY <1>1, <1>2, <1>3, <1>4, <1>8
     DEF Remembers, Held, Same, Still, Working, Steps, Sending, ClaimedStates
<1>10. /\ s.owner = w /\ step = "post_begin" => mem[w].tags = TagsOf(s)
       /\ s.owner = w /\ step = "patch_send" => mem[w].remote = s.remote
       /\ s.owner = w /\ step = "patch_done" /\ s.remote # NoRemote =>
              s.remote \in RemoteIds /\ recordings'[s.remote].patched
       /\ step = "reconcile_accept" => mem[w].remote # NoRemote
       /\ step # "reconcile_tags"
  BY <1>2
<1>11. QED
  BY <1>1, <1>3, <1>5, <1>6, <1>7, <1>8, <1>9, <1>10, AdvanceStep

(* The tags a worker will submit are those the row will report.                  *)
LEMMA ResolveTagsSafe ==
    ASSUME PublisherInv, NEW w \in Owners, StoreInv', clock' > 0, ResolveTags(w)
    PROVE  PublisherInv'
<1> DEFINE j == Job(w)  gen == Gen(w)
<1>1. StoreInv /\ RowsLinked /\ Remembers(w) /\ j \in Jobs /\ mem[w] \in Memory
  BY WorkerFacts
<1>2. jobs[j] \in Row
  BY <1>1, Rows
<1>3. PICK tags \in SUBSET Tags :
         /\ mem' = [mem EXCEPT ![w].tags = tags]
         /\ \/ jobs[j].frozen = {} /\ tags = {} /\ UNCHANGED storeVars
            \/ UpdateTagStatus(j, w, gen, "known", tags)
            \/ UpdateTagStatus(j, w, gen, "unknown", {}) /\ tags = jobs[j].frozen
  <2>1. jobs[j].frozen \in SUBSET Tags
    BY <1>2 DEF Row
  <2>2. QED
    BY <2>1 DEF ResolveTags
<1> DEFINE m == [mem[w] EXCEPT !.tags = tags]
<1>4. m \in Memory /\ m.job = j /\ m.tags = tags
  BY <1>1 DEF Memory, Job
<1>5. /\ mem' = [mem EXCEPT ![w] = m] /\ pc' = [pc EXCEPT ![w] = "post_begin"]
      /\ UNCHANGED <<minted, wire, recordings, authorised>>
  BY <1>3 DEF ResolveTags, Goto
<1>6. SameCopies /\ pc[w] = "post_tags"
  BY <1>5, CopiesUntouched DEF ResolveTags
<1> HIDE DEF m
<1>7. PICK s : s = jobs'[j]
  OBVIOUS
<1>8. /\ Touches(w)
      /\ s.owner = w => s.state \in ClaimedStates /\ tags = TagsOf(s)
  <2>1. CASE jobs[j].frozen = {} /\ tags = {} /\ UNCHANGED storeVars
    <3>1. \A k \in Jobs : Quiet(jobs[k], jobs'[k]) /\ Same(jobs[k], jobs'[k])
      BY <2>1 DEF Quiet, Same, Still, storeVars
    <3>2. Touches(w) /\ s = jobs[j]
      BY <1>1, <1>7, <2>1, <3>1, MildSteps DEF Touches, storeVars
    <3>3. s.owner = w => s.state \in ClaimedStates
      BY <1>1, <1>6, <3>2 DEF Remembers, Held, Working, Steps, Sending, ClaimedStates
    <3>4. Exists(j) => TagsOf(jobs[j]) = {}
      BY <1>1, <2>1, Rows DEF TagsOf, RowOK, TagsCoherent
    <3>5. jobs[j].state \in ClaimedStates => Exists(j)
      BY DEF ClaimedStates, Exists, LiveStates
    <3>6. QED
      BY <2>1, <3>2, <3>3, <3>4, <3>5
  <2>2. CASE UpdateTagStatus(j, w, gen, "known", tags)
    <3>1. s.state = "queued" /\ TagsOf(s) = tags
      BY <1>1, <1>7, <2>2, TagEffect
    <3>2. QED
      BY <1>1, <2>2, <3>1, WorkTouches DEF ClaimedStates
  <2>3. CASE UpdateTagStatus(j, w, gen, "unknown", {}) /\ tags = jobs[j].frozen
    <3>1. s.state = "queued" /\ TagsOf(s) = tags
      BY <1>1, <1>7, <2>3, TagEffect
    <3>2. QED
      BY <1>1, <2>3, <3>1, WorkTouches DEF ClaimedStates
  <2>4. QED
    BY <1>3, <2>1, <2>2, <2>3
<1>9. "post_begin" \in Steps \ Sending
  BY DEF Steps, Sending
<1>10. QED
  BY <1>1, <1>4, <1>5, <1>6, <1>7, <1>8, <1>9, AdvanceStep

(* A search that finds one copy of the row's marker.                               *)
LEMMA FoundCopy ==
    ASSUME NEW marker, Cardinality(Matches(marker)) = 1
    PROVE  HasCopy(CHOOSE r \in Matches(marker) : TRUE, marker)
<1>1. Matches(marker) # {}
  BY FS_EmptySet
<1>2. (CHOOSE r \in Matches(marker) : TRUE) \in Matches(marker)
  BY <1>1
<1>3. QED
  BY <1>2 DEF Matches, HasCopy

(* The answer of a search, and the staged metadata of an accepted upload.           *)
LEMMA LookupSafe ==
    ASSUME PublisherInv, NEW w \in Owners, StoreInv', clock' > 0,
           Reconcile(w) \/ PatchStage(w)
    PROVE  PublisherInv'
<1> DEFINE j == Job(w)  gen == Gen(w)  found == Matches(jobs[Job(w)].token)
           one == IF Cardinality(found) = 1 THEN CHOOSE r \in found : TRUE ELSE NoRemote
<1>1. StoreInv /\ RowsLinked /\ Remembers(w) /\ j \in Jobs /\ mem[w] \in Memory /\ jobs[j] \in Row
  BY WorkerFacts, Rows
<1>2. RemoteIds \subseteq Remotes
  BY DEF PublisherInv, PublisherTypeOK
<1>3. one = NoRemote \/ HasCopy(one, jobs[j].token)
  BY FoundCopy
<1>4. one \in Remotes \cup {NoRemote}
  BY <1>2, <1>3 DEF HasCopy
<1> HIDE DEF one, found
<1>5. PICK remote \in Remotes \cup {NoRemote}, step \in {"reconcile_tags", "patch_send"} :
         /\ Renew(j, w, gen)
         /\ mem' = [mem EXCEPT ![w].remote = remote]
         /\ pc' = [pc EXCEPT ![w] = step]
         /\ \/ step = "reconcile_tags" /\ pc[w] = "reconcile" /\ remote = one
            \/ step = "patch_send" /\ pc[w] = "patch_stage" /\ remote = jobs[j].remote
  <2>1. CASE Reconcile(w)
    <3>1. /\ Renew(j, w, gen) /\ mem' = [mem EXCEPT ![w].remote = one]
          /\ pc' = [pc EXCEPT ![w] = "reconcile_tags"] /\ pc[w] = "reconcile"
      BY <2>1, Zenon DEF Reconcile, Goto, one, found
    <3>2. QED
      BY <1>4, <3>1
  <2>2. CASE PatchStage(w)
    BY <1>1, <2>2 DEF PatchStage, Goto, Row
  <2>3. QED
    BY <2>1, <2>2
<1> DEFINE m == [mem[w] EXCEPT !.remote = remote]
<1>6. m \in Memory /\ m.job = j /\ m.remote = remote
  BY <1>1 DEF Memory, Job
<1>7. /\ mem' = [mem EXCEPT ![w] = m] /\ UNCHANGED <<minted, wire, recordings, authorised>>
  BY <1>5 DEF Reconcile, PatchStage
<1> HIDE DEF m
<1>8. Touches(w) /\ jobs[j].owner = w /\ Same(jobs[j], jobs'[j]) /\ SameCopies
  BY <1>1, <1>5, <1>7, WorkTouches, RenewEffect, CopiesUntouched
<1>9. PICK s : s = jobs'[j]
  OBVIOUS
<1>10. step \in Steps \ Sending
  BY DEF Steps, Sending
<1>11. s.token = jobs[j].token /\ s.remote = jobs[j].remote /\ s.state = jobs[j].state
  BY <1>8, <1>9 DEF Same, Still
<1>12. s.state \in ClaimedStates
  BY <1>1, <1>5, <1>8, <1>11 DEF Remembers, Held, Working, Steps, Sending, ClaimedStates
<1>13. step \in {"reconcile_tags", "reconcile_accept"} /\ m.remote # NoRemote =>
          HasCopy(m.remote, s.token)
  BY <1>3, <1>5, <1>6, <1>11
<1>14. step = "patch_send" => m.remote = s.remote
  BY <1>5, <1>6, <1>11
<1>15. step \notin {"post_begin", "patch_done", "reconcile_accept"}
  OBVIOUS
<1>16. QED
  BY <1>5, <1>6, <1>7, <1>8, <1>9, <1>10, <1>12, <1>13, <1>14, <1>15, AdvanceStep

(* A PATCH, applied or not, with or without an answer.                             *)
LEMMA PatchSafe ==
    ASSUME PublisherInv, NEW w \in Owners, StoreInv', clock' > 0,
           PatchSend(w) \/ PatchFails(w) \/ PatchDone(w)
    PROVE  PublisherInv'
<1> DEFINE j == Job(w)  gen == Gen(w)
<1>1. StoreInv /\ RowsLinked /\ Remembers(w) /\ j \in Jobs /\ mem[w] \in Memory
  BY WorkerFacts
<1>2. CASE PatchSend(w)
  <2>1. PICK s : s = jobs'[j]
    OBVIOUS
  <2>2. SameCopies /\ (mem[w].remote \in RemoteIds => recordings'[mem[w].remote].patched)
    BY <1>2, PatchedCopies DEF PatchSend
  <2>3. jobs' = jobs /\ pc[w] = "patch_send"
    BY <1>2 DEF PatchSend, storeVars
  <2>4. \A k \in Jobs : Quiet(jobs[k], jobs'[k]) /\ Same(jobs[k], jobs'[k])
    BY <2>3 DEF Quiet, Same, Still
  <2>5. Touches(w)
    BY <1>1, <2>4, MildSteps DEF Touches
  <2>6. s.owner = w => s.state \in ClaimedStates /\ mem[w].remote = s.remote
    BY <1>1, <2>1, <2>3 DEF Remembers, Held, Working, Steps, Sending, ClaimedStates
  <2>7. s.remote # NoRemote => s.remote \in RemoteIds
    BY <1>1, <2>1, <2>3 DEF RowsLinked, HasCopy
  <2>8. "patch_done" \in Steps \ Sending /\ mem[w].job = j
    BY DEF Steps, Sending, Job
  <2>9. mem' = [mem EXCEPT ![w] = mem[w]] /\ pc' = [pc EXCEPT ![w] = "patch_done"]
          /\ UNCHANGED <<minted, wire, authorised>>
    BY <1>2 DEF PatchSend, Goto, PublisherInv, PublisherTypeOK
  <2>10. QED
    BY <1>1, <2>1, <2>2, <2>5, <2>6, <2>7, <2>8, <2>9, AdvanceStep
<1>3. CASE PatchFails(w)
  <2>1. PICK due : Schedule(j, w, gen, due) \/ Block(j, w, gen)
    BY <1>3 DEF PatchFails
  <2>2. Touches(w)
    BY <1>1, <2>1, WorkTouches
  <2>3. SameCopies
    BY <1>3, PatchedCopies, CopiesUntouched DEF PatchFails
  <2>4. "idle" \in Steps \ Working
    BY DEF Steps, Working
  <2>5. mem' = [mem EXCEPT ![w] = Nothing] /\ pc' = [pc EXCEPT ![w] = "idle"]
          /\ UNCHANGED <<minted, wire, authorised>>
    BY <1>3 DEF PatchFails, Goto
  <2>6. QED
    BY <2>2, <2>3, <2>4, <2>5, NothingType, RestStep
<1>4. CASE PatchDone(w)
  <2>1. MarkPublished(j, w, gen) /\ StoreStep(w, "idle") /\ pc[w] = "patch_done"
    BY <1>4 DEF PatchDone
  <2>2. jobs[j].owner = w /\ jobs[j].remote # NoRemote => IsDescribed(jobs[j].remote)
    BY <1>1, <2>1 DEF Remembers, Held
  <2>3. Touches(w)
    BY <1>1, <2>1, <2>2, PublishTouches
  <2>4. QED
    BY <2>1, <2>3, RestingStoreStep
<1>5. QED
  BY <1>2, <1>3, <1>4

(* The remote ID of a 202 reply, or of a unique match, is that of the row's copy.   *)
LEMMA AcceptSafe ==
    ASSUME PublisherInv, NEW w \in Owners, StoreInv', clock' > 0,
           Accept(w) \/ ReconcileAccept(w)
    PROVE  PublisherInv'
<1> DEFINE j == Job(w)  gen == Gen(w)
<1>1. StoreInv /\ RowsLinked /\ Remembers(w) /\ Knows(w) /\ j \in Jobs
  BY WorkerFacts
<1>2. PICK source \in LiveStates : AcceptTransfer(j, w, gen, source, mem[w].remote) /\ StoreStep(w, "reclaim")
  <2>1. {"transferring", "uncertain"} \subseteq LiveStates
    BY DEF LiveStates
  <2>2. QED
    BY <2>1 DEF Accept, ReconcileAccept
<1>3. jobs[j].owner = w
  BY <1>1, <1>2, FenceHolds DEF AcceptTransfer, Transition, MayTransition
<1>4. mem[w].remote # NoRemote => HasCopy(mem[w].remote, jobs[j].token)
  <2>1. CASE Accept(w)
    <3>1. pc[w] = "post_settle" /\ mem[w].reply = "accepted"
      BY <2>1 DEF Accept
    <3>2. jobs[j].token = mem[w].marker
      BY <1>1, <1>3, <3>1 DEF Remembers, Held, Sending
    <3>3. QED
      BY <1>1, <3>1, <3>2 DEF Knows
  <2>2. CASE ReconcileAccept(w)
    BY <1>1, <1>3, <2>2 DEF ReconcileAccept, Remembers, Held
  <2>3. QED
    BY <2>1, <2>2
<1>5. Touches(w)
  BY <1>1, <1>2, <1>4, AcceptTouches
<1>6. QED
  BY <1>2, <1>5, RestingStoreStep

---------------------------------------------------------------------------
(* Transfers: a marker is minted, sent, stored or refused, and answered.           *)

(* A worker that has the outcome of its transfer.                                  *)
LEMMA OutcomeStep ==
    ASSUME PublisherInv, NEW w \in Owners, pc[w] \in Sending,
           NEW m \in Memory, m.job = mem[w].job, m.marker = mem[w].marker, m.tags = mem[w].tags,
           m.reply # "accepted",
           m.reply \in {"not_sent", "busy", "refused"} => pc[w] = "post_send",
           StoreInv', clock' > 0, Touches(w), SameCopies,
           jobs[Job(w)].owner = w => Same(jobs[Job(w)], jobs'[Job(w)]),
           jobs[Job(w)].owner # w => jobs'[Job(w)].owner # w,
           pc' = [pc EXCEPT ![w] = "post_settle"], mem' = [mem EXCEPT ![w] = m],
           UNCHANGED <<minted, wire, authorised>>
    PROVE  PublisherInv'
<1>1. pc \in [Owners -> Steps] /\ mem \in [Owners -> Memory] /\ authorised \in [Jobs -> Nat]
      /\ w \in FencedClients /\ Remembers(w) /\ Knows(w)
  BY DEF PublisherInv, PublisherTypeOK, FencedClients
<1>2. pc'[w] = "post_settle" /\ mem'[w] = m /\ Job(w)' = Job(w) /\ "post_settle" \in Steps
  BY <1>1 DEF Job, Sending, Steps
<1>3. Moves(w)
  BY <1>1, <1>2 DEF Moves
<1>4. pc[w] \in Working
  BY DEF Sending, Working, Steps
<1>5. PICK r, s : r = jobs[Job(w)] /\ s = jobs'[Job(w)]
  OBVIOUS
<1>6. s.owner = w => /\ s.state = "transferring" /\ s.token = m.marker /\ m.tags = TagsOf(s)
  BY <1>1, <1>4, <1>5 DEF Remembers, Held, Same, Still
<1>7. jobs'[Job(w)'] = s
  BY <1>2, <1>5
<1>8. Remembers(w)'
  BY <1>2, <1>6, <1>7 DEF Remembers, Held, Sending, TagsOf
<1>9. KnowsUnsent(w)' => KnowsUnsent(w)
  BY <1>2 DEF KnowsUnsent, Sending
<1>10. Unsent(m.marker) => Unsent(m.marker)'
  BY DEF Unsent, SameCopies
<1>11. m.marker \in 1..minted /\ (KnowsUnsent(w)' => Unsent(m.marker)')
  BY <1>1, <1>9, <1>10 DEF Knows
<1>12. Knows(w)'
  BY <1>2, <1>11 DEF Knows, Unsent, Sending
<1>13. QED
  BY <1>1, <1>2, <1>3, <1>8, <1>12, Frame

(* A connection that fails before any byte, or an answer that never comes.       *)
LEMMA NotSentSafe ==
    ASSUME PublisherInv, NEW w \in Owners, StoreInv', clock' > 0,
           \/ PostSend(w) /\ pc'[w] = "post_settle"
           \/ UploadTimeout(w)
    PROVE  PublisherInv'
<1> DEFINE j == Job(w)  gen == Gen(w)
<1>1. StoreInv /\ RowsLinked /\ j \in Jobs /\ mem[w] \in Memory
  BY WorkerFacts
<1>2. CASE UploadTimeout(w)
  <2> DEFINE m == [mem[w] EXCEPT !.reply = "unknown"]
  <2>1. m \in Memory /\ m.job = mem[w].job /\ m.marker = mem[w].marker /\ m.tags = mem[w].tags
          /\ m.reply = "unknown"
    BY <1>1 DEF Memory, Replies
  <2>2. mem' = [mem EXCEPT ![w] = m]
    BY <1>2 DEF UploadTimeout
  <2> HIDE DEF m
  <2>3. jobs' = jobs /\ pc[w] = "post_wait" /\ SameCopies
          /\ pc' = [pc EXCEPT ![w] = "post_settle"] /\ UNCHANGED <<minted, wire, authorised>>
    BY <1>2, CopiesUntouched DEF UploadTimeout, storeVars, Goto
  <2>4. \A k \in Jobs : Quiet(jobs[k], jobs'[k]) /\ Same(jobs[k], jobs'[k])
    BY <2>3 DEF Quiet, Same, Still
  <2>5. Touches(w)
    BY <1>1, <2>4, MildSteps DEF Touches
  <2>6. pc[w] \in Sending
    BY <2>3 DEF Sending
  <2>7. QED
    BY <1>1, <2>1, <2>2, <2>3, <2>4, <2>5, <2>6, OutcomeStep
<1>3. CASE PostSend(w) /\ pc'[w] = "post_settle"
  <2>1. jobs' = jobs /\ pc[w] = "post_send" /\ UNCHANGED <<minted, recordings, authorised>>
    BY <1>3 DEF PostSend, storeVars
  <2>2. Touches(w) /\ Same(jobs[j], jobs'[j]) /\ SameCopies
    <3>1. \A k \in Jobs : Quiet(jobs[k], jobs'[k]) /\ Same(jobs[k], jobs'[k])
      BY <2>1 DEF Quiet, Same, Still
    <3>2. Touches(w)
      BY <1>1, <3>1, MildSteps DEF Touches
    <3>3. QED
      BY <1>1, <2>1, <3>1, <3>2, CopiesUntouched
  <2>3. pc \in [Owners -> Steps]
    BY DEF PublisherInv, PublisherTypeOK
  <2>4. /\ pc' = [pc EXCEPT ![w] = "post_settle"] /\ mem' = [mem EXCEPT ![w].reply = "not_sent"]
        /\ UNCHANGED wire
    BY <1>3, <2>3 DEF PostSend, Goto
  <2> DEFINE m == [mem[w] EXCEPT !.reply = "not_sent"]
  <2>5. m \in Memory /\ m.job = mem[w].job /\ m.marker = mem[w].marker /\ m.tags = mem[w].tags
          /\ m.reply = "not_sent"
    BY <1>1 DEF Memory, Replies
  <2>6. mem' = [mem EXCEPT ![w] = m] /\ pc[w] \in Sending
    BY <2>1, <2>4 DEF Sending
  <2> HIDE DEF m
  <2>7. jobs[j].owner # w => jobs'[j].owner # w
    BY <2>1
  <2>8. QED
    BY <1>1, <2>1, <2>2, <2>4, <2>5, <2>6, <2>7, OutcomeStep
<1>4. QED
  BY <1>2, <1>3

(* The last durable step before the request: a fresh marker on the row.             *)
LEMMA BeginSafe ==
    ASSUME PublisherInv, NEW w \in Owners, StoreInv', clock' > 0, PostBegin(w)
    PROVE  PublisherInv'
<1> DEFINE j == Job(w)  gen == Gen(w)  marker == minted + 1
<1>1. /\ StoreInv /\ RowsLinked /\ Remembers(w) /\ j \in Jobs /\ mem[w] \in Memory
      /\ RequestsDescribed /\ SentOnce /\ OwnMarkers
      /\ minted \in Nat /\ MaxMarkers \in Nat /\ NoMarker = 0 /\ Markers = 1..MaxMarkers
  BY WorkerFacts, MarkerFacts DEF PublisherInv
<1>2. /\ pc[w] = "post_begin" /\ minted < MaxMarkers /\ BeginTransfer(j, w, gen, marker)
      /\ minted' = marker /\ pc' = [pc EXCEPT ![w] = "post_renew"]
      /\ UNCHANGED <<wire, recordings, authorised>>
  BY DEF PostBegin, Goto
<1>3. /\ pc \in [Owners -> Steps] /\ mem \in [Owners -> Memory]
      /\ wire \subseteq Request /\ recordings \in Seq(Recording) /\ RemoteIds \subseteq Remotes
      /\ authorised \in [Jobs -> Nat]
  BY DEF PublisherInv, PublisherTypeOK
<1> DEFINE m == [mem[w] EXCEPT !.marker = marker, !.reply = "none"]
<1>4. mem' = [mem EXCEPT ![w] = m]
  BY DEF PostBegin
<1>5. /\ m \in Memory /\ m.job = j /\ m.marker = marker /\ m.tags = mem[w].tags
      /\ m.reply = "none"
  <2>1. marker \in Markers /\ "none" \in Replies
    BY <1>1, <1>2 DEF Replies
  <2> HIDE DEF marker
  <2>2. QED
    BY <1>1, <2>1 DEF Memory, Job
<1> HIDE DEF m
<1>6. PICK r, s : r = jobs[j] /\ s = jobs'[j]
  OBVIOUS
<1>7. /\ OthersSame(j) /\ r.owner = w /\ s.owner = w /\ s.state = "transferring"
      /\ s.token = marker /\ s.remote = NoRemote /\ TagsOf(s) = TagsOf(r)
  <2>1. "transferring" \in LiveStates /\ marker # NoMarker
    BY <1>1 DEF LiveStates
  <2>2. QED
    BY <1>1, <1>2, <1>6, <2>1, TransitionEffect DEF BeginTransfer
<1>8. RemoteIds' = RemoteIds
  BY <1>2 DEF RemoteIds
<1>9. PublisherTypeOK'
  BY <1>1, <1>2, <1>3, <1>4, <1>5, <1>8 DEF PublisherTypeOK, Steps
<1>10. \A k \in Jobs : k # j => jobs'[k] = jobs[k]
  BY <1>7 DEF OthersSame
<1>11. RowsLinked'
  <2>1. ASSUME NEW k \in Jobs
        PROVE  /\ jobs'[k].token \in 0..marker
               /\ k # j => jobs'[k].token \in 0..minted
               /\ jobs'[k].state = "queued" => jobs'[k].token = NoMarker
               /\ jobs'[k].remote # NoRemote =>
                     /\ jobs'[k].remote \in RemoteIds
                     /\ recordings[jobs'[k].remote].marker = jobs'[k].token
               /\ jobs'[k].remote # NoRemote /\ jobs'[k].state = "published" =>
                     recordings[jobs'[k].remote].patched
    <3>1. CASE k = j
      BY <1>1, <1>6, <1>7, <3>1
    <3>2. CASE k # j
      <4>1. jobs[k].token \in 0..minted
        BY <1>1 DEF RowsLinked
      <4>2. QED
        BY <1>1, <1>10, <3>2, <4>1 DEF RowsLinked, HasCopy, IsDescribed
    <3>3. QED
      BY <3>1, <3>2
  <2>2. ASSUME NEW k \in Jobs, NEW l \in Jobs, jobs'[k].token = jobs'[l].token, k # l
        PROVE  jobs'[k].token = NoMarker
    <3>1. CASE k = j \/ l = j
      <4>1. marker \notin 0..minted
        BY <1>1
      <4>2. QED
        BY <1>6, <1>7, <2>1, <2>2, <3>1, <4>1
    <3>2. CASE k # j /\ l # j
      BY <1>1, <1>10, <2>2, <3>2 DEF RowsLinked
    <3>3. QED
      BY <3>1, <3>2
  <2>3. QED
    BY <1>2, <1>8, <2>1, <2>2 DEF RowsLinked, HasCopy, IsDescribed
<1>12. ASSUME NEW q, Describes(q)
       PROVE  Describes(q)' /\ q.marker # marker
  <2>1. q.marker \in 1..marker /\ q.marker # marker
    BY <1>1, <1>12 DEF Describes
  <2>2. ASSUME NEW k \in Jobs, jobs'[k].token = q.marker
        PROVE  q.job = k /\ q.tags = TagsOf(jobs'[k])
    <3>1. k # j
      BY <1>6, <1>7, <2>1, <2>2
    <3>2. QED
      BY <1>10, <1>12, <2>2, <3>1 DEF Describes
  <2>3. QED
    BY <1>2, <2>1, <2>2 DEF Describes, TagsOf
<1>13. RequestsDescribed' /\ SentOnce' /\ Unsent(marker)
  <2>1. \A q \in wire : Describes(q)' /\ q.marker # marker
    BY <1>1, <1>12 DEF RequestsDescribed
  <2>2. ASSUME NEW n \in RemoteIds
        PROVE  Describes(recordings[n])' /\ recordings[n].marker # marker
    <3>1. PICK q : q = recordings[n]
      OBVIOUS
    <3>2. Describes(q)' /\ q.marker # marker
      BY <1>1, <1>12, <3>1 DEF RequestsDescribed
    <3>3. QED
      BY <1>2, <3>1, <3>2 DEF Describes
  <2>3. QED
    BY <1>1, <1>2, <1>8, <2>1, <2>2 DEF RequestsDescribed, SentOnce, Unsent
<1>14. Growing
  BY <1>2, <1>8 DEF Growing
<1>15. ASSUME NEW v \in Owners, v # w
       PROVE  Remembers(v)' /\ Knows(v)' /\ (pc[v] \in Sending => mem[v].marker # marker)
  <2>1. Remembers(v) /\ Knows(v) /\ Job(v) \in Jobs /\ pc'[v] = pc[v] /\ mem'[v] = mem[v]
    BY <1>2, <1>3, <1>4, <1>15, WorkerFacts
  <2>2. Same(jobs[Job(v)], jobs'[Job(v)]) \/ jobs'[Job(v)].owner # v
    BY <1>6, <1>7, <1>10, <1>15, <2>1 DEF Same, Still
  <2>3. Remembers(v)'
    BY <1>14, <2>1, <2>2, RemembersKeeps
  <2>4. PICK own : own = mem[v].marker
    OBVIOUS
  <2>5. Unsent(own) => Unsent(own)'
    BY <1>2, <1>8 DEF Unsent
  <2>6. KnowsUnsent(v) => Unsent(mem[v].marker)'
    BY <2>1, <2>4, <2>5 DEF Knows, Unsent
  <2>7. Knows(v)'
    BY <1>1, <1>2, <1>12, <1>14, <2>1, <2>6, KnowsKeeps
  <2>8. QED
    BY <1>1, <2>1, <2>3, <2>7 DEF Knows
<1>16. /\ pc'[w] = "post_renew" /\ mem'[w] = m /\ Job(w)' = j /\ jobs'[Job(w)'] = s
  BY <1>2, <1>3, <1>4, <1>5, <1>6 DEF Job
<1>17. Remembers(w)'
  <2>1. m.tags = TagsOf(r)
    BY <1>1, <1>2, <1>5, <1>6, <1>7 DEF Remembers, Held
  <2>2. QED
    BY <1>5, <1>7, <1>16, <2>1 DEF Remembers, Held, Sending, TagsOf
<1>18. Knows(w)'
  <2>1. PICK own : own = marker
    OBVIOUS
  <2>2. Unsent(own)' /\ own \in 1..minted'
    BY <1>1, <1>2, <1>8, <1>13, <2>1 DEF Unsent
  <2>3. QED
    BY <1>5, <1>16, <2>1, <2>2 DEF Knows, Unsent, Sending
<1>19. OwnMarkers'
  <2>1. \A v \in Owners : v # w => pc'[v] = pc[v] /\ mem'[v] = mem[v]
    BY <1>2, <1>3, <1>4
  <2>2. QED
    BY <1>1, <1>5, <1>15, <1>16, <2>1 DEF OwnMarkers
<1>20. QED
  BY <1>9, <1>11, <1>13, <1>15, <1>17, <1>18, <1>19 DEF PublisherInv

(* The last look at the lease: the request describes the row, and will go on to.   *)
LEMMA RenewSafe ==
    ASSUME PublisherInv, NEW w \in Owners, StoreInv', clock' > 0, PostRenew(w)
    PROVE  PublisherInv'
<1> DEFINE j == Job(w)  gen == Gen(w)
<1>1. /\ StoreInv /\ RowsLinked /\ Remembers(w) /\ Knows(w) /\ j \in Jobs /\ mem[w] \in Memory
      /\ minted \in Nat /\ w \in FencedClients
  BY WorkerFacts DEF FencedClients
<1>2. /\ Renew(j, w, gen) /\ pc[w] = "post_renew" /\ pc' = [pc EXCEPT ![w] = "post_send"]
      /\ mem' = mem /\ UNCHANGED <<minted, wire, recordings, authorised>>
  BY DEF PostRenew, StoreStep, Goto
<1>3. Touches(w) /\ jobs[j].owner = w /\ Same(jobs[j], jobs'[j]) /\ SameCopies
  BY <1>1, <1>2, RenewEffect, WorkTouches, CopiesUntouched
<1>4. pc \in [Owners -> Steps] /\ mem \in [Owners -> Memory] /\ authorised \in [Jobs -> Nat]
  BY DEF PublisherInv, PublisherTypeOK
<1>5. pc'[w] = "post_send" /\ mem'[w] = mem[w] /\ Job(w)' = j
  BY <1>2, <1>4 DEF Job
<1>6. Moves(w)
  BY <1>2, <1>3, <1>4 DEF Moves, Steps
<1>7. PICK r, s, m : r = jobs[j] /\ s = jobs'[j] /\ m = mem[w]
  OBVIOUS
<1>8. /\ r.state = "transferring" /\ r.token = m.marker /\ m.tags = TagsOf(r)
      /\ s.state = r.state /\ s.token = r.token /\ TagsOf(s) = TagsOf(r)
  BY <1>1, <1>2, <1>3, <1>7 DEF Remembers, Held, Same, Still, Sending, Working, Steps
<1>9. jobs'[Job(w)'] = s
  BY <1>5, <1>7
<1>10. Remembers(w)'
  BY <1>5, <1>7, <1>8, <1>9 DEF Remembers, Held, Sending, TagsOf
<1>11. m.marker \in 1..minted /\ Unsent(m.marker) /\ m.job = j
  BY <1>1, <1>2, <1>7 DEF Knows, KnowsUnsent, Sending, Job
<1>12. Describes(m)
  BY <1>1, <1>7, <1>8, <1>11, MarkerFacts DEF Describes, RowsLinked
<1>13. Describes(m)' /\ Unsent(m.marker)'
  BY <1>1, <1>2, <1>3, <1>11, <1>12, RequestKeeps DEF Unsent, SameCopies
<1>14. Knows(w)'
  BY <1>2, <1>5, <1>7, <1>11, <1>13 DEF Knows, KnowsUnsent, Unsent, Describes, Sending
<1>15. pc[w] \in Sending /\ mem'[w].marker = mem[w].marker
  BY <1>2 DEF Sending
<1>16. QED
  BY <1>1, <1>6, <1>10, <1>14, <1>15, Frame

(* The request leaves with the fresh marker, with or without the lease.            *)
LEMMA SendSafe ==
    ASSUME PublisherInv, NEW w \in Owners, StoreInv', clock' > 0,
           PostSend(w), pc'[w] # "post_settle"
    PROVE  PublisherInv'
<1> DEFINE j == Job(w)  gen == Gen(w)
           sent == [job |-> Job(w), marker |-> mem[w].marker, tags |-> mem[w].tags]
<1>1. /\ StoreInv /\ RowsLinked /\ Remembers(w) /\ Knows(w) /\ j \in Jobs /\ mem[w] \in Memory
      /\ RequestsDescribed /\ SentOnce /\ OwnMarkers
      /\ minted \in Nat /\ minted \in 0..MaxMarkers /\ NoMarker = 0 /\ Markers = 1..MaxMarkers
      /\ MaxMarkers \in Nat
  BY WorkerFacts, MarkerFacts DEF PublisherInv, PublisherTypeOK
<1>2. /\ pc \in [Owners -> Steps] /\ mem \in [Owners -> Memory]
      /\ wire \subseteq Request /\ recordings \in Seq(Recording) /\ RemoteIds \subseteq Remotes
      /\ authorised \in [Jobs -> Nat]
  BY DEF PublisherInv, PublisherTypeOK
<1>3. PICK q : q = sent
  OBVIOUS
<1>4. /\ pc[w] = "post_send" /\ jobs' = jobs
      /\ wire' = wire \cup {q} /\ pc' = [pc EXCEPT ![w] = "post_wait"]
      /\ UNCHANGED <<mem, minted, recordings, authorised>>
  BY <1>2, <1>3 DEF PostSend, Goto, storeVars
<1>5. q.job = j /\ q.marker = mem[w].marker /\ q.tags = mem[w].tags
  BY <1>3
<1>6. q.marker \in 1..minted /\ Unsent(q.marker)
  BY <1>1, <1>4, <1>5 DEF Knows, KnowsUnsent, Sending
<1>7. q \in Request
  BY <1>1, <1>3, <1>6 DEF Request, Memory, Job
<1>8. Touches(w)
  <2>1. \A k \in Jobs : Quiet(jobs[k], jobs'[k]) /\ Same(jobs[k], jobs'[k])
    BY <1>4 DEF Quiet, Same, Still
  <2>2. QED
    BY <1>1, <2>1, MildSteps DEF Touches
<1>9. \A k \in Jobs : Same(jobs[k], jobs'[k])
  BY <1>4 DEF Same, Still
<1>10. RemoteIds' = RemoteIds /\ Growing
  BY <1>4 DEF RemoteIds, Growing
<1>11. PublisherTypeOK'
  BY <1>1, <1>2, <1>4, <1>7, <1>10 DEF PublisherTypeOK, Steps
<1>12. RowsLinked'
  BY <1>1, <1>4, <1>8, <1>10, RowsKeep
<1>13. ASSUME NEW p, Describes(p)
       PROVE  Describes(p)'
  BY <1>1, <1>4, <1>8, <1>13, RequestKeeps
<1>14. Describes(q)'
  <2>1. PICK m : m = mem[w]
    OBVIOUS
  <2>2. Describes(m) /\ q.job = m.job /\ q.marker = m.marker /\ q.tags = m.tags
    BY <1>1, <1>4, <1>5, <2>1 DEF Knows, Job
  <2>3. Describes(q)
    BY <2>2 DEF Describes
  <2>4. QED
    BY <1>13, <2>3
<1>15. RequestsDescribed'
  <2>1. \A p \in wire : Describes(p)'
    BY <1>1, <1>4, <1>8, RequestKeeps DEF RequestsDescribed
  <2>2. ASSUME NEW n \in RemoteIds
        PROVE  Describes(recordings[n])'
    <3>1. PICK p : p = recordings[n]
      OBVIOUS
    <3>2. Describes(p)'
      BY <1>1, <1>4, <1>8, <3>1, RequestKeeps DEF RequestsDescribed
    <3>3. QED
      BY <1>4, <3>1, <3>2 DEF Describes
  <2>3. QED
    BY <1>4, <1>10, <1>14, <2>1, <2>2 DEF RequestsDescribed
<1>16. SentOnce'
  BY <1>1, <1>4, <1>6, <1>10 DEF SentOnce, Unsent
<1>17. OwnMarkers'
  BY <1>1, <1>2, <1>4 DEF OwnMarkers, Sending
<1>18. ASSUME NEW v \in Owners, v # w
       PROVE  Remembers(v)' /\ Knows(v)'
  <2>1. Remembers(v) /\ Knows(v) /\ Job(v) \in Jobs /\ pc'[v] = pc[v] /\ mem'[v] = mem[v]
    BY <1>2, <1>4, <1>18, WorkerFacts
  <2>2. Remembers(v)'
    BY <1>9, <1>10, <2>1, RemembersKeeps
  <2>3. PICK own : own = mem[v].marker
    OBVIOUS
  <2>4. KnowsUnsent(v) => own # q.marker
    BY <1>1, <1>4, <1>5, <1>18, <2>3 DEF KnowsUnsent, OwnMarkers, Sending
  <2>5. Unsent(own) /\ own # q.marker => Unsent(own)'
    BY <1>4, <1>10 DEF Unsent
  <2>6. KnowsUnsent(v) => Unsent(mem[v].marker)'
    BY <2>1, <2>3, <2>4, <2>5 DEF Knows, Unsent
  <2>7. QED
    BY <1>1, <1>4, <1>10, <1>13, <2>1, <2>2, <2>6, KnowsKeeps
<1>19. pc'[w] = "post_wait" /\ mem'[w] = mem[w] /\ Job(w)' = j
  BY <1>2, <1>4 DEF Job
<1>20. Remembers(w)'
  <2>1. PICK s : s = jobs[j] /\ s = jobs'[j]
    BY <1>4
  <2>2. s.owner = w =>
           s.state = "transferring" /\ s.token = mem[w].marker /\ mem[w].tags = TagsOf(s)
    BY <1>1, <1>4, <2>1 DEF Remembers, Held, Sending, Working, Steps
  <2>3. jobs'[Job(w)'] = s
    BY <1>19, <2>1
  <2>4. QED
    BY <1>19, <2>2, <2>3 DEF Remembers, Held, Sending, TagsOf
<1>21. Knows(w)'
  BY <1>4, <1>5, <1>6, <1>19 DEF Knows, KnowsUnsent, Sending
<1>22. QED
  BY <1>11, <1>12, <1>15, <1>16, <1>17, <1>18, <1>20, <1>21 DEF PublisherInv

(* What the server's answer does to the sender that still waits for it.            *)
LEMMA AnswerStep ==
    ASSUME PublisherInv, StoreInv', UNCHANGED <<jobs, clock, minted, authorised>>,
           NEW q \in wire, wire' = wire \ {q}, Growing,
           recordings' \in Seq(Recording), RemoteIds' \subseteq Remotes,
           NEW kind \in {"accepted", "unknown", "busy", "refused"}, NEW remote \in Remotes \cup {NoRemote},
           Reply(q, kind, remote),
           RequestsDescribed', SentOnce',
           \A marker : marker # q.marker /\ Unsent(marker) => Unsent(marker)',
           kind \in {"busy", "refused"} => Unsent(q.marker)',
           kind = "accepted" => HasCopy(remote, q.marker)'
    PROVE  PublisherInv'
<1>1. /\ pc \in [Owners -> Steps] /\ mem \in [Owners -> Memory]
      /\ wire \subseteq Request /\ authorised \in [Jobs -> Nat] /\ minted \in 0..MaxMarkers
      /\ RowsLinked /\ OwnMarkers /\ minted \in Nat
  BY MarkerFacts DEF PublisherInv, PublisherTypeOK
<1> DEFINE Answered(v) == pc[v] = "post_wait" /\ mem[v].marker = q.marker
<1>2. ASSUME NEW v \in Owners
      PROVE  /\ Answered(v) => /\ pc'[v] = "post_settle"
                               /\ mem'[v] = [mem[v] EXCEPT !.reply = kind, !.remote = remote]
             /\ ~ Answered(v) => pc'[v] = pc[v] /\ mem'[v] = mem[v]
  BY DEF Reply
<1>3. \A v \in Owners : Answered(v) =>
         /\ mem'[v] \in Memory /\ mem'[v].job = mem[v].job /\ mem'[v].marker = mem[v].marker
         /\ mem'[v].tags = mem[v].tags /\ mem'[v].reply = kind /\ mem'[v].remote = remote
  <2> SUFFICES ASSUME NEW v \in Owners, Answered(v)
               PROVE  /\ mem'[v] \in Memory /\ mem'[v].job = mem[v].job
                      /\ mem'[v].marker = mem[v].marker
                      /\ mem'[v].tags = mem[v].tags /\ mem'[v].reply = kind /\ mem'[v].remote = remote
    OBVIOUS
  <2>1. PICK m : m = mem[v] /\ m \in Memory
    BY <1>1
  <2>2. mem'[v] = [m EXCEPT !.reply = kind, !.remote = remote] /\ kind \in Replies
    BY <1>2, <2>1 DEF Replies
  <2>3. QED
    BY <2>1, <2>2 DEF Memory
<1> HIDE DEF Answered
<1>4. pc' \in [Owners -> Steps] /\ mem' \in [Owners -> Memory]
  <2>1. \A v \in Owners : pc'[v] \in Steps /\ mem'[v] \in Memory
    BY <1>1, <1>2, <1>3 DEF Steps
  <2>2. pc' = [v \in Owners |-> pc'[v]] /\ mem' = [v \in Owners |-> mem'[v]]
    BY DEF Reply
  <2>3. QED
    BY <2>1, <2>2
<1>5. PublisherTypeOK'
  BY <1>1, <1>4 DEF PublisherTypeOK, PublisherInv
<1>6. \A k \in Jobs : Same(jobs[k], jobs'[k]) /\ Quiet(jobs[k], jobs'[k])
  BY DEF Same, Still, Quiet
<1>7. Touches(NoOwner)
  BY <1>1, <1>6, MildSteps DEF Touches
<1>8. RowsLinked'
  BY <1>1, <1>7, RowsKeep
<1>9. OwnMarkers'
  <2>1. \A v \in Owners : /\ pc'[v] \in Sending <=> pc[v] \in Sending
                          /\ mem'[v].marker = mem[v].marker
    BY <1>2, <1>3 DEF Sending, Answered
  <2>2. QED
    BY <1>1, <2>1 DEF OwnMarkers
<1>10. ASSUME NEW v \in Owners, ~ Answered(v)
       PROVE  Remembers(v)' /\ Knows(v)'
  <2>1. Remembers(v) /\ Knows(v) /\ Job(v) \in Jobs /\ pc'[v] = pc[v] /\ mem'[v] = mem[v]
    BY <1>2, <1>10, WorkerFacts
  <2>2. Remembers(v)'
    BY <1>6, <2>1, RemembersKeeps
  <2>3. PICK own : own = mem[v].marker
    OBVIOUS
  <2>4. KnowsUnsent(v) => Unsent(own) /\ own # q.marker
    BY <2>1, <2>3 DEF Knows, Unsent
  <2>5. KnowsUnsent(v) => Unsent(mem[v].marker)'
    BY <2>1, <2>3, <2>4 DEF Unsent
  <2>6. \A p : Describes(p) => Describes(p)'
    BY DEF Describes, TagsOf
  <2>7. QED
    BY <1>1, <2>1, <2>2, <2>5, <2>6, KnowsKeeps
<1>11. ASSUME NEW v \in Owners, Answered(v)
       PROVE  Remembers(v)' /\ Knows(v)'
  <2>1. PICK m : m = mem'[v]
    OBVIOUS
  <2>2. /\ pc'[v] = "post_settle" /\ m.job = mem[v].job /\ m.marker = q.marker
        /\ m.tags = mem[v].tags /\ m.reply = kind /\ m.remote = remote
        /\ pc[v] = "post_wait" /\ mem[v].marker = q.marker
    BY <1>2, <1>3, <1>11, <2>1 DEF Answered
  <2>3. Job(v)' = Job(v) /\ Remembers(v) /\ Knows(v)
    BY <2>1, <2>2, WorkerFacts DEF Job
  <2>4. PICK r : r = jobs[Job(v)] /\ r = jobs'[Job(v)']
    BY <2>3
  <2>5. r.owner = v => r.state = "transferring" /\ r.token = m.marker /\ m.tags = TagsOf(r)
    BY <2>2, <2>3, <2>4 DEF Remembers, Held, Sending, Working, Steps
  <2>6. Remembers(v)'
    BY <2>1, <2>2, <2>4, <2>5 DEF Remembers, Held, Sending, TagsOf
  <2>7. m.marker \in 1..minted'
    BY <2>2, <2>3 DEF Knows, Sending
  <2>8. Knows(v)'
    BY <2>1, <2>2, <2>7 DEF Knows, KnowsUnsent, Unsent, HasCopy, Sending
  <2>9. QED
    BY <2>6, <2>8
<1>12. QED
  BY <1>5, <1>8, <1>9, <1>10, <1>11 DEF PublisherInv

(* The server runs out of remote IDs no sooner than the workers out of markers:     *)
(* every recording bears a marker of its own, and so does the request.             *)
LEMMA RoomForOne ==
    ASSUME PublisherInv, NEW q \in wire
    PROVE  Len(recordings) + 1 \in Remotes
<1>1. /\ recordings \in Seq(Recording) /\ q \in Request /\ SentOnce
      /\ MaxMarkers \in Nat /\ Remotes = 1..MaxMarkers /\ Markers = 1..MaxMarkers
  BY MarkerFacts DEF PublisherInv, PublisherTypeOK
<1>2. Len(recordings) \in Nat /\ RemoteIds = 1..Len(recordings)
  BY <1>1 DEF RemoteIds
<1> DEFINE last == Len(recordings) + 1
           marker == [n \in 1..last |-> IF n = last THEN q.marker ELSE recordings[n].marker]
<1>3. \A n \in 1..last : n # last => n \in RemoteIds
  BY <1>2
<1>4. \A n \in RemoteIds : recordings[n].marker \in Markers
  <2>1. \A n \in RemoteIds : recordings[n] \in Recording
    BY <1>1, <1>2
  <2>2. QED
    BY <2>1 DEF Recording
<1>5. marker \in [1..last -> Markers]
  BY <1>1, <1>3, <1>4 DEF Request
<1>6. \A n, m \in 1..last : marker[n] = marker[m] => n = m
  BY <1>1, <1>3 DEF SentOnce
<1> HIDE DEF marker
<1>7. marker \in Injection(1..last, Markers)
  BY <1>5, <1>6 DEF Injection, IsInjective
<1>8. IsFiniteSet(Markers) /\ Cardinality(Markers) = MaxMarkers
  BY <1>1, FS_Interval
<1>9. Cardinality(1..last) <= MaxMarkers
  BY <1>7, <1>8, FS_Injection
<1>10. Cardinality(1..last) = last
  BY <1>2, FS_Interval
<1>11. QED
  BY <1>1, <1>2, <1>9, <1>10

(* A stored request becomes a copy that the row and its sender describe.         *)
LEMMA ServerStoresSafe ==
    ASSUME PublisherInv, NEW q \in wire, StoreInv', ServerStores(q)
    PROVE  PublisherInv'
<1> DEFINE last == Len(recordings) + 1
           stored == [job |-> q.job, marker |-> q.marker, tags |-> q.tags, patched |-> FALSE]
<1>1. /\ recordings \in Seq(Recording) /\ q \in Request /\ SentOnce /\ RequestsDescribed
      /\ RemoteIds \subseteq Remotes /\ last \in Remotes
  BY RoomForOne DEF PublisherInv, PublisherTypeOK
<1>2. /\ wire' = wire \ {q} /\ recordings' = Append(recordings, stored)
      /\ UNCHANGED <<jobs, clock, minted, authorised>>
  BY DEF ServerStores, storeVars
<1>3. stored \in Recording
  BY <1>1 DEF Recording, Request
<1>4. /\ recordings' \in Seq(Recording) /\ Len(recordings') = last
      /\ \A n \in 1..Len(recordings) : recordings'[n] = recordings[n]
      /\ recordings'[last] = stored
  BY <1>1, <1>2, <1>3, AppendProperties
<1>5. RemoteIds = 1..Len(recordings) /\ RemoteIds' = 1..last /\ Len(recordings) \in Nat
  BY <1>1, <1>4 DEF RemoteIds
<1>6. RemoteIds' = RemoteIds \cup {last} /\ last \notin RemoteIds
  BY <1>5
<1>7. \A n \in RemoteIds : recordings'[n] = recordings[n]
  BY <1>4, <1>5
<1>8. Growing
  BY <1>6, <1>7 DEF Growing
<1>9. stored.job = q.job /\ stored.marker = q.marker /\ stored.tags = q.tags
  OBVIOUS
<1> HIDE DEF stored, last
<1>10. RequestsDescribed'
  <2>1. \A p : Describes(p) => Describes(p)'
    BY <1>2 DEF Describes, TagsOf
  <2>2. ASSUME NEW n \in RemoteIds'
        PROVE  Describes(recordings[n])'
    <3>1. PICK p : p = IF n = last THEN q ELSE recordings[n]
      OBVIOUS
    <3>2. Describes(p)'
      BY <1>1, <1>6, <2>1, <3>1 DEF RequestsDescribed
    <3>3. recordings'[n].job = p.job /\ recordings'[n].marker = p.marker /\ recordings'[n].tags = p.tags
      BY <1>4, <1>6, <1>7, <1>9, <3>1
    <3>4. QED
      BY <3>2, <3>3 DEF Describes
  <2>3. \A p \in wire' : Describes(p)'
    BY <1>1, <1>2, <2>1 DEF RequestsDescribed
  <2>4. QED
    BY <2>2, <2>3 DEF RequestsDescribed
<1>11. SentOnce'
  <2>1. recordings'[last].marker = q.marker /\ \A n \in RemoteIds : recordings'[n].marker # q.marker
    BY <1>1, <1>4, <1>7, <1>9 DEF SentOnce
  <2>2. \A p \in wire' : p \in wire /\ p.marker # q.marker
    BY <1>1, <1>2 DEF SentOnce
  <2>3. \A n, m \in RemoteIds' : recordings'[n].marker = recordings'[m].marker => n = m
    BY <1>1, <1>6, <1>7, <2>1 DEF SentOnce
  <2>4. \A p \in wire', n \in RemoteIds' : p.marker # recordings'[n].marker
    BY <1>1, <1>6, <1>7, <2>1, <2>2 DEF SentOnce
  <2>5. QED
    BY <1>1, <2>2, <2>3, <2>4 DEF SentOnce
<1>12. \A marker : marker # q.marker /\ Unsent(marker) => Unsent(marker)'
  BY <1>2, <1>4, <1>6, <1>7, <1>9 DEF Unsent
<1>13. PICK remote : remote = last
  OBVIOUS
<1>14. HasCopy(remote, q.marker)'
  BY <1>4, <1>6, <1>9, <1>13 DEF HasCopy
<1>15. PICK kind \in {"accepted", "unknown"} : Reply(q, kind, remote)
  BY <1>13 DEF ServerStores, last
<1>16. RemoteIds' \subseteq Remotes /\ remote \in Remotes \cup {NoRemote}
  BY <1>1, <1>6, <1>13
<1>17. QED
  BY <1>2, <1>4, <1>8, <1>10, <1>11, <1>12, <1>14, <1>15, <1>16, AnswerStep

(* A refused or lost request leaves its marker unsent.                           *)
LEMMA ServerRefusesSafe ==
    ASSUME PublisherInv, NEW q \in wire, StoreInv', ServerRefuses(q)
    PROVE  PublisherInv'
<1>1. /\ recordings \in Seq(Recording) /\ q \in Request /\ SentOnce /\ RequestsDescribed
      /\ RemoteIds \subseteq Remotes
  BY DEF PublisherInv, PublisherTypeOK
<1>2. wire' = wire \ {q} /\ UNCHANGED <<jobs, clock, minted, recordings, authorised>>
  BY DEF ServerRefuses, storeVars
<1>3. RemoteIds' = RemoteIds /\ Growing
  BY <1>2 DEF RemoteIds, Growing
<1>4. RequestsDescribed'
  BY <1>1, <1>2, <1>3 DEF RequestsDescribed, Describes, TagsOf
<1>5. SentOnce'
  BY <1>1, <1>2, <1>3 DEF SentOnce
<1>6. \A marker : Unsent(marker) => Unsent(marker)'
  BY <1>2, <1>3 DEF Unsent
<1>7. Unsent(q.marker)'
  BY <1>1, <1>2, <1>3 DEF Unsent, SentOnce
<1>8. PICK kind \in {"unknown", "busy", "refused"} : Reply(q, kind, NoRemote)
  BY DEF ServerRefuses
<1>9. QED
  BY <1>1, <1>2, <1>3, <1>4, <1>5, <1>6, <1>7, <1>8, AnswerStep

---------------------------------------------------------------------------
(* The operator, the rename callback, the clock, and the whole.                    *)

(* Operators, renames and time keep the invariant.                               *)
LEMMA OutsideSafe ==
    ASSUME PublisherInv, StoreInv', clock' > 0,
           (\E j \in Jobs : Operator(j)) \/ RenameCallback \/ Passage \/ UNCHANGED vars
    PROVE  PublisherInv'
<1>1. StoreInv /\ RowsLinked /\ authorised \in [Jobs -> Nat]
  BY DEF PublisherInv, PublisherTypeOK
<1>2. ASSUME NEW j \in Jobs, Operator(j)
      PROVE  Touches(NoOwner) /\ authorised' \in [Jobs -> Nat]
                /\ UNCHANGED <<pc, mem, minted, wire, recordings>>
  <2>1. CASE Enqueue(j) \/ OperatorRelink(j) \/ OperatorForget(j)
    <3>1. PICK path, tags : Create(j, path, tags) \/ Relink(j, NoOwner, 0, path) \/ Forget(j)
      BY <2>1 DEF Enqueue, OperatorRelink, OperatorForget
    <3>2. Touches(NoOwner)
      BY <1>1, <3>1, OperatorTouches
    <3>3. QED
      BY <1>1, <2>1, <3>2 DEF Enqueue, OperatorRelink, OperatorForget, publisherVars
  <2>2. CASE OperatorRetry(j)
    <3>1. Touches(NoOwner)
      BY <1>1, <2>2, OperatorTouches DEF OperatorRetry
    <3>2. QED
      BY <1>1, <2>2, <3>1 DEF OperatorRetry
  <2>3. QED
    BY <1>2, <2>1, <2>2 DEF Operator
<1>3. CASE RenameCallback
  <2>1. PICK old, new, identified : UpdatePath(old, new, identified)
    BY <1>3 DEF RenameCallback
  <2>2. \A k \in Jobs : Same(jobs[k], jobs'[k])
    BY <1>1, <2>1, UpdatePathEffect
  <2>3. Touches(NoOwner)
    BY <1>1, <2>2, MildSteps DEF Touches, Same, Quiet
  <2>4. UNCHANGED publisherVars
    BY <1>3 DEF RenameCallback
  <2>5. QED
    BY <1>1, <2>3, <2>4, StillStep DEF publisherVars
<1>4. CASE Passage \/ UNCHANGED vars
  <2>1. jobs' = jobs /\ UNCHANGED publisherVars
    BY <1>4 DEF Passage, Tick, vars, storeVars, publisherVars
  <2>2. \A k \in Jobs : Quiet(jobs[k], jobs'[k]) /\ Same(jobs[k], jobs'[k])
    BY <2>1 DEF Quiet, Same, Still
  <2>3. Touches(NoOwner)
    BY <1>1, <2>2, MildSteps DEF Touches
  <2>4. QED
    BY <1>1, <2>1, <2>3, StillStep DEF publisherVars
<1>5. QED
  BY <1>2, <1>3, <1>4, StillStep

(* Every step keeps the invariant.                                               *)
LEMMA PublisherSteps == PublisherInv /\ [Next]_vars => PublisherInv'
<1> SUFFICES ASSUME PublisherInv, [Next]_vars
             PROVE  PublisherInv'
  OBVIOUS
<1>1. StoreInv' /\ clock' > 0
  BY StoreHolds
<1>2. ASSUME NEW w \in Owners, Worker(w)
      PROVE  PublisherInv'
  <2>1. CASE \E j \in Jobs : Start(w, j) \/ StartNothing(w, j) \/ StartBlock(w, j)
    BY <1>1, <2>1, ClaimSafe
  <2>2. CASE Reclaim(w) \/ RequeueClaim(w)
    BY <1>1, <2>2, ReclaimSafe
  <2>3. CASE \/ BlockConfiguration(w) \/ LocalFailure(w) \/ MetadataFailure(w)
             \/ SettleUnknown(w) \/ SettleRefused(w) \/ SettleNotSent(w)
             \/ RequeueRetry(w) \/ RequeueSchedule(w)
             \/ ReconcileUnavailable(w) \/ ReconcileNoMatch(w)
    BY <1>1, <2>3, ReleasingSafe
  <2>4. CASE Stop(w)
    BY <1>1, <2>4, StopSafe
  <2>5. CASE Heartbeat(w) \/ RefreshPath(w)
    BY <1>1, <2>5, HeartbeatSafe
  <2>6. CASE PostStage(w) \/ ReconcileTags(w)
    BY <1>1, <2>6, StageSafe
  <2>7. CASE ResolveTags(w)
    BY <1>1, <2>7, ResolveTagsSafe
  <2>8. CASE Reconcile(w) \/ PatchStage(w)
    BY <1>1, <2>8, LookupSafe
  <2>9. CASE PatchSend(w) \/ PatchFails(w) \/ PatchDone(w)
    BY <1>1, <2>9, PatchSafe
  <2>10. CASE Accept(w) \/ ReconcileAccept(w)
    BY <1>1, <2>10, AcceptSafe
  <2>11. CASE PostBegin(w)
    BY <1>1, <2>11, BeginSafe
  <2>12. CASE PostRenew(w)
    BY <1>1, <2>12, RenewSafe
  <2>13. CASE PostSend(w) \/ UploadTimeout(w)
    BY <1>1, <2>13, NotSentSafe, SendSafe
  <2>14. QED
    BY <1>2, <2>1, <2>2, <2>3, <2>4, <2>5, <2>6, <2>7, <2>8, <2>9, <2>10, <2>11, <2>12, <2>13
       DEF Worker, Post, ReconcileOrPatch
<1>3. ASSUME NEW q \in wire, ServerStores(q) \/ ServerRefuses(q)
      PROVE  PublisherInv'
  BY <1>1, <1>3, ServerStoresSafe, ServerRefusesSafe
<1>4. CASE (\E j \in Jobs : Operator(j)) \/ RenameCallback \/ Passage \/ UNCHANGED vars
  BY <1>1, <1>4, OutsideSafe
<1>5. QED
  BY <1>2, <1>3, <1>4 DEF Next, Server

(* Every initial state satisfies the invariant.                                  *)
LEMMA PublisherStarts == Init => PublisherInv
<1> SUFFICES ASSUME Init PROVE PublisherInv
  OBVIOUS
<1>1. StoreInv
  BY StoreStarts DEF Init
<1>2. \A j \in Jobs : jobs[j].token = NoMarker /\ jobs[j].remote = NoRemote
                        /\ jobs[j].state = "absent" /\ jobs[j].owner = NoOwner
  BY DEF Init, StoreInit, NoRow
<1>3. /\ pc = [w \in Owners |-> "idle"] /\ mem = [w \in Owners |-> Nothing] /\ minted = 0
      /\ wire = {} /\ recordings = <<>> /\ authorised = [j \in Jobs |-> 0] /\ clock = 1
  BY DEF Init, StoreInit
<1>4. RemoteIds = {}
  BY <1>3 DEF RemoteIds
<1>5. recordings \in Seq(Recording)
  BY <1>3, EmptySeq
<1>6. PublisherTypeOK
  BY <1>3, <1>4, <1>5, NothingType, MarkerFacts DEF PublisherTypeOK, Steps
<1>7. RowsLinked
  BY <1>2, <1>3, MarkerFacts DEF RowsLinked
<1>8. RequestsDescribed /\ SentOnce
  BY <1>3, <1>4 DEF RequestsDescribed, SentOnce
<1>9. \A w \in Owners : pc[w] = "idle"
  BY <1>3
<1>10. OwnMarkers /\ \A w \in Owners : Remembers(w) /\ Knows(w)
  BY <1>9 DEF OwnMarkers, Remembers, Knows, KnowsUnsent, Sending, Working
<1>11. QED
  BY <1>1, <1>6, <1>7, <1>8, <1>10 DEF PublisherInv

(* The invariant holds in every reachable state.                                   *)
THEOREM PublisherInvariant == Spec => []PublisherInv
BY PublisherStarts, PublisherSteps, PTL DEF Spec

(* Workers, operator and callback use the store as its specification allows: every  *)
(* step is a step of the store or leaves it alone, so what is proved of the store   *)
(* under arbitrary clients holds under these.                                      *)
THEOREM PublisherUsesStore == Spec => StoreSpec
<1>1. Init => StoreInit
  BY DEF Init
<1>2. PublisherInv /\ [Next]_vars => [StoreNext]_storeVars
  BY StepCallsStore
<1>3. QED
  BY <1>1, <1>2, PublisherInvariant, PTL DEF Spec, StoreSpec

---------------------------------------------------------------------------
(* No copy without permission: every recording of a job is uploaded under one        *)
(* permission, the first of which comes with the job and the others from operators. *)

(* The sender of this request looked at its lease for the last time.                *)
Leaves(v, marker) == pc[v] = "post_send" /\ mem[v].marker = marker

(* The transfers of a job whose request is leaving, or has left and was not refused. *)
Spent(j) ==
    {marker \in Markers :
        \/ \E v \in Owners : mem[v].job = j /\ Leaves(v, marker)
        \/ \E q \in wire : q.job = j /\ q.marker = marker
        \/ \E n \in RemoteIds : recordings[n].job = j /\ recordings[n].marker = marker}

Unspent(marker) == Unsent(marker) /\ \A v \in Owners : ~ Leaves(v, marker)

(* A worker about to take an uncertain row back to POST holds a permission.         *)
Requeuing == {"requeue_claim", "requeue_retry"}
Requeuers(j) == {w \in Owners : pc[w] \in Requeuing /\ mem[w].job = j}

(* So does a row that may still be uploaded without another word of an operator.    *)
Pending(j) ==
    \/ jobs[j].state \in {"absent", "queued"}
    \/ jobs[j].state \in {"blocked", "missing"} /\ jobs[j].intent = "post"
    \/ jobs[j].state = "transferring" /\ Unspent(jobs[j].token)

Permitted(j) ==
    /\ IsFiniteSet(Requeuers(j))
    /\ Cardinality(Spent(j)) + Cardinality(Requeuers(j)) + (IF Pending(j) THEN 1 ELSE 0)
          <= 1 + authorised[j]

DuplicateInv == PublisherInv /\ \A j \in Jobs : Permitted(j)

(* No more permissions are spent than there are markers.                         *)
LEMMA SpentFinite ==
    ASSUME NEW j
    PROVE  IsFiniteSet(Spent(j)) /\ Cardinality(Spent(j)) \in Nat
<1>1. IsFiniteSet(Markers)
  BY MarkerFacts, FS_Interval
<1>2. Spent(j) \in SUBSET Markers
  BY DEF Spent
<1>3. IsFiniteSet(Spent(j))
  BY <1>1, <1>2, FS_Subset
<1>4. QED
  BY <1>3, FS_CardinalityType

(* A step that spends nothing, or passes a permission on.                          *)
LEMMA PermissionKept ==
    ASSUME PublisherInv, PublisherInv', NEW j \in Jobs, Permitted(j),
           Spent(j)' \subseteq Spent(j), Requeuers(j)' \subseteq Requeuers(j),
           Pending(j)' => Pending(j), authorised'[j] >= authorised[j]
    PROVE  Permitted(j)'
<1>1. /\ IsFiniteSet(Spent(j)) /\ IsFiniteSet(Requeuers(j))
      /\ Cardinality(Spent(j)) \in Nat /\ Cardinality(Requeuers(j)) \in Nat
  BY SpentFinite, FS_CardinalityType DEF Permitted
<1>2. /\ Cardinality(Spent(j)') \in Nat /\ Cardinality(Spent(j)') <= Cardinality(Spent(j))
      /\ IsFiniteSet(Spent(j)')
  BY <1>1, FS_Subset, FS_CardinalityType
<1>3. /\ Cardinality(Requeuers(j)') \in Nat /\ IsFiniteSet(Requeuers(j)')
      /\ Cardinality(Requeuers(j)') <= Cardinality(Requeuers(j))
  BY <1>1, FS_Subset, FS_CardinalityType
<1>4. authorised[j] \in Nat /\ authorised'[j] \in Nat
  BY DEF PublisherInv, PublisherTypeOK
<1>5. QED
  BY <1>1, <1>2, <1>3, <1>4 DEF Permitted

(* Requests and copies keep their jobs and markers, and no new ones come.           *)
SameMarkers ==
    /\ wire' = wire /\ RemoteIds' = RemoteIds
    /\ \A n \in RemoteIds : /\ recordings'[n].job = recordings[n].job
                            /\ recordings'[n].marker = recordings[n].marker

(* A worker about to send stays so, with its request, and no other comes to it.     *)
Stays(v) == pc[v] = "post_send" \/ pc'[v] = "post_send" => pc'[v] = pc[v] /\ mem'[v] = mem[v]
SameLeavers == \A v \in Owners : Stays(v)

LEMMA LeaversStay ==
    ASSUME SameLeavers
    PROVE  \A v \in Owners : \A marker, j :
              /\ Leaves(v, marker)' <=> Leaves(v, marker)
              /\ (mem'[v].job = j /\ Leaves(v, marker)') <=> (mem[v].job = j /\ Leaves(v, marker))
<1> SUFFICES ASSUME NEW v \in Owners, NEW marker, NEW j
             PROVE  /\ Leaves(v, marker)' <=> Leaves(v, marker)
                    /\ (mem'[v].job = j /\ Leaves(v, marker)')
                          <=> (mem[v].job = j /\ Leaves(v, marker))
  OBVIOUS
<1>1. Stays(v)
  BY DEF SameLeavers
<1>2. QED
  BY <1>1 DEF Stays, Leaves

(* Where senders, requests and copies stay, so does what is spent and unspent.   *)
LEMMA SameMarkersKeep ==
    ASSUME SameMarkers, SameLeavers
    PROVE  /\ \A j : Spent(j)' = Spent(j)
           /\ \A marker : Unspent(marker)' <=> Unspent(marker)
<1>0. \A v \in Owners : \A marker, j :
         /\ Leaves(v, marker)' <=> Leaves(v, marker)
         /\ (mem'[v].job = j /\ Leaves(v, marker)') <=> (mem[v].job = j /\ Leaves(v, marker))
  BY LeaversStay
<1>1. \A marker : Unspent(marker)' <=> Unspent(marker)
  BY <1>0 DEF Unspent, Unsent, SameMarkers
<1>2. ASSUME NEW j PROVE Spent(j)' = Spent(j)
  <2>1. \A marker : 
           (\E n \in RemoteIds' : recordings'[n].job = j /\ recordings'[n].marker = marker)
           <=> (\E n \in RemoteIds : recordings[n].job = j /\ recordings[n].marker = marker)
    BY DEF SameMarkers
  <2>2. wire' = wire
    BY DEF SameMarkers
  <2>3. \A marker : (\E v \in Owners : mem'[v].job = j /\ Leaves(v, marker)')
                    <=> (\E v \in Owners : mem[v].job = j /\ Leaves(v, marker))
    BY <1>0
  <2>4. QED
    BY <2>1, <2>2, <2>3 DEF Spent
<1>3. QED
  BY <1>1, <1>2

(* A row that is left, doubted or moved on by its holder needs no permission it did *)
(* not have.                                                                      *)
LEMMA PendsLess ==
    ASSUME NEW k \in Jobs, \A marker : Unspent(marker)' => Unspent(marker),
           \/ Quiet(jobs[k], jobs'[k])
           \/ jobs'[k].state \in {"uncertain", "metadata_pending", "published", "forgotten"}
           \/ jobs[k].state \in {"queued", "absent"}
    PROVE  Pending(k)' => Pending(k)
<1>1. CASE Quiet(jobs[k], jobs'[k])
  <2>1. \/ /\ jobs'[k].state = jobs[k].state /\ jobs'[k].intent = jobs[k].intent
           /\ jobs'[k].token = jobs[k].token
        \/ jobs'[k].state = "uncertain"
    BY <1>1 DEF Quiet, Still, Doubted
  <2>2. PICK token : token = jobs[k].token
    OBVIOUS
  <2>3. CASE jobs'[k].token = token
    <3>1. Unspent(token)' => Unspent(token)
      OBVIOUS
    <3>2. QED
      BY <2>1, <2>2, <2>3, <3>1 DEF Pending, Unspent, Unsent, Leaves
  <2>4. CASE jobs'[k].state = "uncertain"
    BY <2>4 DEF Pending
  <2>5. QED
    BY <2>1, <2>2, <2>3, <2>4
<1>2. CASE jobs'[k].state \in {"uncertain", "metadata_pending", "published", "forgotten"}
  BY <1>2 DEF Pending
<1>3. CASE jobs[k].state \in {"queued", "absent"}
  BY <1>3 DEF Pending
<1>4. QED
  BY <1>1, <1>2, <1>3

(* A worker that neither sends nor starts to requeue.                              *)
LEMMA WorkerKeepsPermits ==
    ASSUME DuplicateInv, PublisherInv', NEW w \in Owners, UNCHANGED authorised,
           \A j \in Jobs : Spent(j)' \subseteq Spent(j),
           \A v \in Owners \ {w} : pc'[v] = pc[v] /\ mem'[v] = mem[v],
           pc'[w] \in Requeuing => pc[w] \in Requeuing /\ mem'[w].job = mem[w].job,
           \A k \in Jobs : Pending(k)' => Pending(k)
    PROVE  DuplicateInv'
<1>1. \A j \in Jobs : Requeuers(j)' \subseteq Requeuers(j)
  BY DEF Requeuers
<1>2. \A j \in Jobs : authorised'[j] >= authorised[j]
  BY DEF DuplicateInv, PublisherInv, PublisherTypeOK
<1>3. ASSUME NEW j \in Jobs PROVE Permitted(j)'
  BY <1>1, <1>2, PermissionKept DEF DuplicateInv
<1>4. QED
  BY <1>3 DEF DuplicateInv

(* The same for a step that writes one row.                                      *)
LEMMA OnePends ==
    ASSUME NEW j \in Jobs, OthersSame(j), \A marker : Unspent(marker)' => Unspent(marker),
           \/ Quiet(jobs[j], jobs'[j])
           \/ jobs'[j].state \in {"uncertain", "metadata_pending", "published", "forgotten"}
           \/ jobs[j].state \in {"queued", "absent"}
    PROVE  \A k \in Jobs : Pending(k)' => Pending(k)
<1>1. \A k \in Jobs \ {j} : Quiet(jobs[k], jobs'[k])
  BY DEF OthersSame, Quiet, Still
<1>2. QED
  BY <1>1, PendsLess

(* What a worker leaves alone.                                                    *)
Elsewhere(w) == \A v \in Owners \ {w} : pc'[v] = pc[v] /\ mem'[v] = mem[v]
Requeues(w) == pc'[w] \in Requeuing => pc[w] \in Requeuing /\ mem'[w].job = mem[w].job

(* A PATCH leaves jobs and markers of all copies.                                *)
LEMMA PatchedMarkers ==
    ASSUME PublisherInv, NEW remote, Patched(remote) \/ UNCHANGED recordings
    PROVE  RemoteIds' = RemoteIds /\ \A n \in RemoteIds : /\ recordings'[n].job = recordings[n].job
                                                         /\ recordings'[n].marker = recordings[n].marker
BY PatchedCopies, CopiesUntouched DEF SameCopies

(* A worker that leaves the last step before the send, with or without a request.   *)
Departs(w) == PostSend(w) \/ (Stop(w) /\ pc[w] = "post_send")

(* All of a worker's other actions but two send nothing and begin no requeue.    *)
LEMMA WorkerFrame ==
    ASSUME PublisherInv, NEW w \in Owners, Worker(w),
           ~ PostRenew(w), ~ Departs(w), ~ SettleNotSent(w)
    PROVE  UNCHANGED authorised /\ SameMarkers /\ Stays(w) /\ Elsewhere(w) /\ Requeues(w)
<1> DEFINE Goal == UNCHANGED authorised /\ SameMarkers /\ Stays(w) /\ Elsewhere(w) /\ Requeues(w)
<1>1. pc \in [Owners -> Steps] /\ mem \in [Owners -> Memory]
  BY DEF PublisherInv, PublisherTypeOK
<1>2. ASSUME UNCHANGED <<wire, recordings, authorised>>, pc[w] # "post_send",
             NEW step \in Steps \ Requeuing, step # "post_send", NEW m,
             pc' = [pc EXCEPT ![w] = step], mem' = [mem EXCEPT ![w] = m]
      PROVE  Goal
  BY <1>1, <1>2 DEF SameMarkers, RemoteIds, Stays, Elsewhere, Requeues
<1>3. UNCHANGED publisherVars => Goal
  BY DEF publisherVars, SameMarkers, RemoteIds, Stays, Elsewhere, Requeues
<1>4. ASSUME NEW step \in Steps \ Requeuing, step # "post_send", pc[w] # "post_send",
             StoreStep(w, step)
      PROVE  Goal
  <2>1. PICK m : mem' = [mem EXCEPT ![w] = m]
    <3>1. CASE step = "idle"
      BY <1>4, <3>1 DEF StoreStep
    <3>2. CASE step # "idle"
      <4>1. mem' = [mem EXCEPT ![w] = mem[w]]
        BY <1>1, <1>4, <3>2 DEF StoreStep
      <4>2. QED
        BY <4>1
    <3>3. QED
      BY <3>1, <3>2
  <2>2. QED
    BY <1>2, <1>4, <2>1 DEF StoreStep, Goto
<1>5. ASSUME NEW j \in Jobs, NEW step \in Steps \ Requeuing, step # "post_send",
             pc[w] # "post_send", Fence(w, j, step)
      PROVE  Goal
  BY <1>2, <1>5 DEF Fence, Goto
<1> HIDE DEF Goal
<1>6. Steps \ Requeuing = {"idle", "block", "post_stage", "post_tags", "post_begin", "post_renew",
          "post_send", "post_wait", "post_settle", "reclaim", "requeue_again", "requeue_schedule",
          "reconcile", "reconcile_tags", "reconcile_accept",
          "patch_stage", "patch_send", "patch_done"}
  BY DEF Steps, Requeuing
<1>7. \A state : PhaseOf(state) \in Steps \ Requeuing /\ PhaseOf(state) # "post_send"
  BY <1>6 DEF PhaseOf
<1>8. ASSUME NEW j \in Jobs, Start(w, j) \/ StartNothing(w, j) \/ StartBlock(w, j)
      PROVE  Goal
  BY <1>3, <1>5, <1>6, <1>7, <1>8 DEF Start, StartNothing, StartBlock
<1>9. Reclaim(w) => Goal
  <2>1. Job(w) \in Jobs
    BY WorkerFacts
  <2>2. QED
    BY <1>4, <1>5, <1>6, <1>7, <2>1 DEF Reclaim
<1>10. RequeueClaim(w) => Goal
  <2>1. Job(w) \in Jobs /\ mem[w] \in Memory
    BY WorkerFacts
  <2>2. CASE pc[w] = "requeue_claim" /\ Fence(w, Job(w), "requeue_retry")
    <3>1. mem'[w].job = mem[w].job
      BY <1>1, <2>1, <2>2 DEF Fence, Fresh, Job
    <3>2. QED
      BY <1>1, <2>2, <3>1 DEF Fence, Goto, Goal, Stays, Elsewhere, Requeues, SameMarkers, RemoteIds, Requeuing
  <2>3. CASE /\ pc[w] # "post_send"
             /\ Fence(w, Job(w), "requeue_schedule") \/ StoreStep(w, "idle")
    BY <1>4, <1>5, <1>6, <2>1, <2>3
  <2>4. QED
    BY <2>2, <2>3 DEF RequeueClaim
<1>11. (BlockConfiguration(w) \/ (Stop(w) /\ pc[w] # "post_send") \/ LocalFailure(w) \/ MetadataFailure(w)
       \/ PostStage(w) \/ Accept(w) \/ SettleUnknown(w) \/ SettleRefused(w))
       => Goal
  BY <1>4, <1>6 DEF BlockConfiguration, Stop, LocalFailure, MetadataFailure, PostStage,
                    Accept, SettleUnknown, SettleRefused
<1>12. (RequeueRetry(w) \/ RequeueSchedule(w) \/ ReconcileUnavailable(w)
       \/ ReconcileNoMatch(w) \/ ReconcileTags(w) \/ ReconcileAccept(w)
       \/ PatchDone(w))
       => Goal
  BY <1>4, <1>6 DEF RequeueRetry, RequeueSchedule, ReconcileUnavailable, ReconcileNoMatch,
                    ReconcileTags, ReconcileAccept, PatchDone
<1>13. Heartbeat(w) \/ RefreshPath(w) => Goal
  BY <1>3 DEF Heartbeat, RefreshPath
<1>14. ResolveTags(w) \/ PostBegin(w) \/ UploadTimeout(w) => Goal
  <2>1. ResolveTags(w) => \E tags : mem' = [mem EXCEPT ![w] = [mem[w] EXCEPT !.tags = tags]]
    BY DEF ResolveTags
  <2>2. PostBegin(w) => mem' = [mem EXCEPT ![w] = [mem[w] EXCEPT !.marker = minted + 1, !.reply = "none"]]
    BY DEF PostBegin
  <2>3. UploadTimeout(w) => mem' = [mem EXCEPT ![w] = [mem[w] EXCEPT !.reply = "unknown"]]
    BY DEF UploadTimeout
  <2>4. QED
    BY <1>2, <1>6, <2>1, <2>2, <2>3 DEF ResolveTags, PostBegin, UploadTimeout, Goto
<1>15. Reconcile(w) \/ PatchStage(w) => Goal
  <2>1. Reconcile(w) \/ PatchStage(w) => \E remote : mem' = [mem EXCEPT ![w] = [mem[w] EXCEPT !.remote = remote]]
    BY DEF Reconcile, PatchStage
  <2>2. QED
    BY <1>2, <1>6, <2>1 DEF Reconcile, PatchStage, Goto
<1>16. PatchSend(w) \/ PatchFails(w) => Goal
  <2>1. PatchSend(w) \/ PatchFails(w) => SameMarkers
    BY PatchedMarkers DEF PatchSend, PatchFails, SameMarkers
  <2>2. PatchSend(w) \/ PatchFails(w) =>
           UNCHANGED authorised /\ Stays(w) /\ Elsewhere(w) /\ Requeues(w)
    BY <1>1 DEF PatchSend, PatchFails, Goto, Stays, Elsewhere, Requeues, Requeuing
  <2>3. QED
    BY <2>1, <2>2 DEF Goal
<1>17. Goal
  BY <1>8, <1>9, <1>10, <1>11, <1>12, <1>13, <1>14, <1>15, <1>16
     DEF Worker, Post, ReconcileOrPatch, Departs
<1>18. QED
  BY <1>17 DEF Goal

(* Hence what is spent and unspent.                                              *)
LEMMA WorkerSpends ==
    ASSUME SameMarkers, NEW w \in Owners, Stays(w), Elsewhere(w)
    PROVE  /\ \A j : Spent(j)' = Spent(j)
           /\ \A marker : Unspent(marker)' <=> Unspent(marker)
<1>1. SameLeavers
  BY DEF SameLeavers, Stays, Elsewhere
<1>2. QED
  BY <1>1, SameMarkersKeep

(* A marker its worker knows unsent, and does not hold ready to send, is unspent.  *)
LEMMA OwnUnspent ==
    ASSUME PublisherInv, NEW w \in Owners, pc[w] \in Sending, pc[w] # "post_send", KnowsUnsent(w)
    PROVE  Unspent(mem[w].marker)
<1>1. Unsent(mem[w].marker)
  BY WorkerFacts DEF Knows
<1>2. \A v \in Owners : pc[v] = "post_send" => mem[v].marker # mem[w].marker
  BY DEF PublisherInv, OwnMarkers, Sending
<1>3. QED
  BY <1>1, <1>2 DEF Unspent, Leaves

(* A row blocked or missing with the intent to POST could be posted before.        *)
LEMMA BlockPends ==
    ASSUME PublisherInv, NEW w \in Owners, NEW gen,
           Block(Job(w), w, gen) \/ MarkMissing(Job(w), w, gen),
           pc[w] \in Working, pc[w] \in Sending => KnowsUnsent(w), pc[w] # "post_send",
           \A marker : Unspent(marker)' => Unspent(marker)
    PROVE  \A k \in Jobs : Pending(k)' => Pending(k)
<1>1. PICK j \in Jobs : j = Job(w) /\ StoreInv /\ Remembers(w) /\ Knows(w)
  BY WorkerFacts
<1>2. PICK r, s : r = jobs[j] /\ s = jobs'[j]
  OBVIOUS
<1>3. PICK target \in {"blocked", "missing"} :
         Transition(j, w, gen, LiveStates, target, NoRemote, NoMarker, "none")
  BY <1>1 DEF Block, MarkMissing
<1>4. target \in LiveStates
  BY DEF LiveStates
<1>5. /\ OthersSame(j) /\ r.owner = w /\ RowOK(r) /\ s.state = target
      /\ s.intent = IntentIn(target, r.intent)
  BY <1>1, <1>2, <1>3, <1>4, TransitionEffect
<1>6. s.intent = r.intent
  BY <1>5 DEF IntentIn
<1>7. CASE pc[w] \in Sending
  <2>1. r.state = "transferring" /\ r.token = mem[w].marker
    BY <1>1, <1>2, <1>5, <1>7 DEF Remembers, Held
  <2>0. Unspent(mem[w].marker)
    BY <1>7, OwnUnspent
  <2>2. Pending(j)
    BY <1>2, <2>0, <2>1 DEF Pending
  <2>3. \A k \in Jobs \ {j} : Quiet(jobs[k], jobs'[k])
    BY <1>5 DEF OthersSame, Quiet, Still
  <2>4. QED
    BY <2>2, <2>3, PendsLess
<1>8. CASE pc[w] \notin Sending
  <2>1. r.state \in {"queued", "uncertain", "metadata_pending"}
    BY <1>1, <1>2, <1>5, <1>8 DEF Remembers, Held
  <2>2. r.state = "queued" \/ r.intent # "post"
    BY <1>5, <2>1 DEF RowOK, PhaseCoherent
  <2>3. Pending(j)' => Pending(j)
    BY <1>2, <1>5, <1>6, <2>2 DEF Pending
  <2>4. \A k \in Jobs \ {j} : Quiet(jobs[k], jobs'[k])
    BY <1>5 DEF OthersSame, Quiet, Still
  <2>5. QED
    BY <2>3, <2>4, PendsLess
<1>9. QED
  BY <1>7, <1>8

(* What a step of a worker that neither sends nor begins to requeue does to the     *)
(* permissions rows hold.                                                         *)
LEMMA WorkerPends ==
    ASSUME PublisherInv, NEW w \in Owners, Worker(w),
           ~ PostRenew(w), ~ Departs(w), ~ SettleNotSent(w), ~ RequeueRetry(w)
    PROVE  \A k \in Jobs : Pending(k)' => Pending(k)
<1> DEFINE Goal == \A k \in Jobs : Pending(k)' => Pending(k)
           j == Job(w)  gen == Gen(w)
<1>1. /\ StoreInv /\ j \in Jobs /\ Remembers(w) /\ RowsLinked
      /\ clock \in Nat /\ \A t \in 1..clock : t \in Nat
  BY WorkerFacts
<1>2. \A marker : Unspent(marker)' => Unspent(marker)
  BY WorkerFrame, WorkerSpends
<1>3. ASSUME \A k \in Jobs : Quiet(jobs[k], jobs'[k]) PROVE Goal
  BY <1>2, <1>3, PendsLess
<1>4. ASSUME NEW k \in Jobs, NEW any, NEW now \in Nat,
             ClaimJob(k, w, any, now) \/ ClaimNothing(k, any, now)
      PROVE  Goal
  <2>1. \A l \in Jobs : Quiet(jobs[l], jobs'[l])
    BY <1>1, <1>4, ClaimEffect, ClaimNothingEffect DEF Recovers, Quiet, Still
  <2>2. QED
    BY <1>3, <2>1
<1>5. ASSUME \/ Renew(j, w, gen) \/ ResolveReconciledTags(j, w, gen)
             \/ \E due : Schedule(j, w, gen, due)
      PROVE  Goal
  <2>1. OthersSame(j) /\ Quiet(jobs[j], jobs'[j])
    BY <1>1, <1>5, RenewEffect, TagsReconciledEffect, ScheduleEffect DEF Same, Quiet
  <2>2. QED
    BY <1>1, <1>2, <2>1, OnePends
<1>6. ASSUME NEW target \in {"uncertain", "metadata_pending", "published"},
             NEW sources, NEW remote, NEW requested,
             Transition(j, w, gen, sources, target, remote, NoMarker, requested)
      PROVE  Goal
  <2>1. target \in LiveStates
    BY DEF LiveStates
  <2>2. OthersSame(j) /\ jobs'[j].state = target
    BY <1>1, <1>6, <2>1, TransitionEffect
  <2>3. QED
    BY <1>1, <1>2, <2>2, OnePends
<1>7. UNCHANGED storeVars => Goal
  BY <1>3 DEF storeVars, Quiet, Still
<1>8. ASSUME Block(j, w, gen) \/ MarkMissing(j, w, gen),
             pc[w] \in Working, pc[w] \in Sending => KnowsUnsent(w), pc[w] # "post_send"
      PROVE  Goal
  BY <1>2, <1>8, BlockPends
<1> HIDE DEF Goal
<1>9. ASSUME NEW k \in Jobs, Start(w, k) \/ StartNothing(w, k) \/ StartBlock(w, k)
      PROVE  Goal
  <2>1. CASE Start(w, k) \/ StartNothing(w, k)
    <3>1. PICK now \in 1..clock : ClaimJob(k, w, FALSE, now) \/ ClaimNothing(k, FALSE, now)
      BY <2>1 DEF Start, StartNothing
    <3>2. QED
      BY <1>1, <1>4, <3>1
  <2>2. CASE StartBlock(w, k)
    <3>1. ClaimJob(k, w, TRUE, clock)
      BY <2>2 DEF StartBlock
    <3>2. QED
      BY <1>1, <1>4, <3>1
  <2>3. QED
    BY <1>9, <2>1, <2>2
<1>10. Reclaim(w) \/ RequeueClaim(w) => Goal
  BY <1>1, <1>4 DEF Reclaim, RequeueClaim
<1>11. BlockConfiguration(w) => Goal
  BY <1>8 DEF BlockConfiguration, Working, Steps, Sending
<1>12. LocalFailure(w) => Goal
  BY <1>8 DEF LocalFailure, Working, Steps, Sending, KnowsUnsent
<1>13. SettleRefused(w) => Goal
  BY <1>8 DEF SettleRefused, Working, Steps, KnowsUnsent
<1>14. ReconcileUnavailable(w) => Goal
  BY <1>5, <1>8 DEF ReconcileUnavailable, Working, Steps, Sending
<1>15. PatchFails(w) => Goal
  BY <1>5, <1>8 DEF PatchFails, Working, Steps, Sending
<1>16. Stop(w) \/ UploadTimeout(w) \/ PatchSend(w) => Goal
  BY <1>7 DEF Stop, UploadTimeout, PatchSend
<1>17. (MetadataFailure(w) \/ RequeueSchedule(w) \/ PostStage(w)
       \/ ReconcileTags(w) \/ Reconcile(w) \/ PatchStage(w) \/ Heartbeat(w))
       => Goal
  BY <1>5 DEF MetadataFailure, RequeueSchedule, PostStage, ReconcileTags, Reconcile,
              PatchStage, Heartbeat
<1>18. (SettleUnknown(w) \/ ReconcileNoMatch(w) \/ Accept(w)
       \/ ReconcileAccept(w) \/ PatchDone(w))
       => Goal
  BY <1>6 DEF SettleUnknown, ReconcileNoMatch, Accept, ReconcileAccept, PatchDone,
              MoveToUncertain, TerminalUncertain, AcceptTransfer, MarkPublished
<1>19. RefreshPath(w) => Goal
  <2> SUFFICES ASSUME RefreshPath(w) PROVE Goal
    OBVIOUS
  <2>1. PICK path : Relink(j, w, gen, path)
    BY DEF RefreshPath
  <2>2. w \in FencedClients
    BY DEF FencedClients
  <2>3. jobs[j].owner = w /\ OthersSame(j) /\ (Same(jobs[j], jobs'[j]) \/ jobs[j].state = "missing")
    BY <1>1, <2>1, <2>2, RelinkEffect
  <2>4. pc[w] \in Working
    BY DEF RefreshPath, Working, Steps
  <2>5. jobs[j].state # "missing"
    BY <1>1, <2>3, <2>4 DEF Remembers, Held
  <2>6. QED
    BY <1>1, <1>2, <2>3, <2>5, OnePends DEF Same, Quiet, Goal
<1>20. ResolveTags(w) => Goal
  <2> SUFFICES ASSUME ResolveTags(w) PROVE Goal
    OBVIOUS
  <2>1. CASE UNCHANGED storeVars
    BY <1>7, <2>1
  <2>2. CASE \E outcome, tags : UpdateTagStatus(j, w, gen, outcome, tags)
    <3>1. OthersSame(j) /\ jobs[j].state = "queued"
      BY <1>1, <2>2, TagEffect
    <3>2. QED
      BY <1>1, <1>2, <3>1, OnePends DEF Goal
  <2>3. QED
    BY <2>1, <2>2 DEF ResolveTags
<1>21. PostBegin(w) => Goal
  <2> SUFFICES ASSUME PostBegin(w) PROVE Goal
    OBVIOUS
  <2>1. BeginTransfer(j, w, gen, minted + 1) /\ "transferring" \in LiveStates
    BY DEF PostBegin, LiveStates
  <2>2. OthersSame(j) /\ jobs[j].state = "queued"
    BY <1>1, <2>1, TransitionEffect DEF BeginTransfer
  <2>3. QED
    BY <1>1, <1>2, <2>2, OnePends DEF Goal
<1>22. Goal
  BY <1>9, <1>10, <1>11, <1>12, <1>13, <1>14, <1>15, <1>16, <1>17, <1>18, <1>19, <1>20, <1>21
     DEF Worker, Post, ReconcileOrPatch, Departs
<1>23. QED
  BY <1>22 DEF Goal

(* A permission changes hands: at most one more is needed than is given back.       *)
LEMMA PermissionMoved ==
    ASSUME PublisherInv, PublisherInv', NEW j \in Jobs, Permitted(j), IsFiniteSet(Requeuers(j)'),
           NEW gained \in Int, NEW given \in Int,
           Cardinality(Spent(j)') + Cardinality(Requeuers(j)')
              <= Cardinality(Spent(j)) + Cardinality(Requeuers(j)) + gained,
           (IF Pending(j)' THEN 1 ELSE 0) <= (IF Pending(j) THEN 1 ELSE 0) + given,
           authorised'[j] >= authorised[j] + gained + given
    PROVE  Permitted(j)'
<1>1. /\ Cardinality(Spent(j)) \in Nat /\ Cardinality(Spent(j)') \in Nat
      /\ Cardinality(Requeuers(j)) \in Nat /\ Cardinality(Requeuers(j)') \in Nat
  <2>1. Cardinality(Spent(j)') \in Nat
    <3>1. IsFiniteSet(Markers)
      BY MarkerFacts, FS_Interval
    <3>2. Spent(j)' \in SUBSET Markers
      BY DEF Spent
    <3>3. QED
      BY <3>1, <3>2, FS_Subset, FS_CardinalityType
  <2>2. QED
    BY <2>1, SpentFinite, FS_CardinalityType DEF Permitted
<1>2. authorised[j] \in Nat /\ authorised'[j] \in Nat
  BY DEF PublisherInv, PublisherTypeOK
<1>3. PICK before, after \in {0, 1} : /\ before = IF Pending(j) THEN 1 ELSE 0
                                      /\ after = IF Pending(j)' THEN 1 ELSE 0
  OBVIOUS
<1>4. Cardinality(Spent(j)) + Cardinality(Requeuers(j)) + before <= 1 + authorised[j]
  BY <1>3 DEF Permitted
<1>5. Cardinality(Spent(j)') + Cardinality(Requeuers(j)') + after <= 1 + authorised'[j]
  BY <1>1, <1>2, <1>3, <1>4
<1>6. QED
  BY <1>3, <1>5 DEF Permitted

(* Every other row is as it was, or doubted: it needs no more permission.           *)
LEMMA OthersKeepPermits ==
    ASSUME DuplicateInv, PublisherInv', NEW j \in Jobs, NEW k \in Jobs, k # j, OthersSame(j),
           Spent(k)' \subseteq Spent(k), Requeuers(k)' \subseteq Requeuers(k),
           \A marker : Unspent(marker)' => Unspent(marker),
           authorised'[k] >= authorised[k]
    PROVE  Permitted(k)'
<1>1. jobs'[k] = jobs[k]
  BY DEF OthersSame
<1>2. Pending(k)' => Pending(k)
  BY <1>1, PendsLess DEF Quiet, Still
<1>3. QED
  BY <1>2, PermissionKept DEF DuplicateInv

(* An upload known not to have been sent hands its permission to the worker that    *)
(* is going to requeue it.                                                        *)
LEMMA SettlePermitted ==
    ASSUME DuplicateInv, PublisherInv', NEW w \in Owners, SettleNotSent(w)
    PROVE  DuplicateInv'
<1>1. PICK j \in Jobs : j = Job(w) /\ StoreInv /\ Remembers(w) /\ Knows(w)
  BY WorkerFacts DEF DuplicateInv
<1>2. pc \in [Owners -> Steps] /\ authorised \in [Jobs -> Nat]
  BY DEF DuplicateInv, PublisherInv, PublisherTypeOK
<1>3. /\ pc[w] = "post_settle" /\ mem[w].reply \in {"not_sent", "busy"}
      /\ pc' = [pc EXCEPT ![w] = "requeue_claim"] /\ mem' = mem
      /\ UNCHANGED <<wire, recordings, authorised>>
      /\ MoveToUncertain(j, w, Gen(w))
  BY <1>1 DEF SettleNotSent, StoreStep, Goto
<1>4. jobs[j].owner = w /\ OthersSame(j) /\ jobs'[j].state = "uncertain"
  <2>1. "uncertain" \in LiveStates
    BY DEF LiveStates
  <2>2. QED
    BY <1>1, <1>3, <2>1, TransitionEffect DEF MoveToUncertain
<1>5. Pending(j) /\ ~ Pending(j)'
  <2>1. jobs[j].state = "transferring" /\ jobs[j].token = mem[w].marker
    BY <1>1, <1>3, <1>4 DEF Remembers, Held, Sending, Working, Steps
  <2>2. Unspent(mem[w].marker)
    BY <1>3, OwnUnspent DEF DuplicateInv, KnowsUnsent, Sending
  <2>3. Pending(j)
    BY <2>1, <2>2 DEF Pending
  <2>4. QED
    BY <1>4, <2>3 DEF Pending
<1>6. SameMarkers /\ SameLeavers
  BY <1>2, <1>3 DEF SameMarkers, SameLeavers, Stays, RemoteIds
<1>7. (\A k : Spent(k)' = Spent(k)) /\ \A marker : Unspent(marker)' => Unspent(marker)
  BY <1>6, SameMarkersKeep
<1>8. /\ Requeuers(j)' = Requeuers(j) \cup {w} /\ w \notin Requeuers(j)
      /\ \A k \in Jobs : k # j => Requeuers(k)' = Requeuers(k)
  BY <1>1, <1>2, <1>3 DEF Requeuers, Requeuing, Job
<1>9. /\ IsFiniteSet(Requeuers(j)') /\ Cardinality(Requeuers(j)) \in Nat
      /\ Cardinality(Requeuers(j)') = Cardinality(Requeuers(j)) + 1
  BY <1>8, FS_AddElement, FS_CardinalityType DEF DuplicateInv, Permitted
<1>10. Permitted(j)'
  <2>1. Cardinality(Spent(j)') + Cardinality(Requeuers(j)')
           <= Cardinality(Spent(j)) + Cardinality(Requeuers(j)) + 1
    BY <1>7, <1>9, SpentFinite
  <2>2. authorised'[j] >= authorised[j] + 1 + (-1)
    BY <1>2, <1>3
  <2>3. (IF Pending(j)' THEN 1 ELSE 0) <= (IF Pending(j) THEN 1 ELSE 0) + (-1)
    BY <1>5
  <2>4. QED
    BY <1>9, <2>1, <2>2, <2>3, PermissionMoved DEF DuplicateInv
<1>11. ASSUME NEW k \in Jobs, k # j PROVE Permitted(k)'
  <2>1. authorised'[k] >= authorised[k]
    BY <1>2, <1>3
  <2>2. QED
    BY <1>4, <1>7, <1>8, <1>11, <2>1, OthersKeepPermits
<1>12. QED
  BY <1>10, <1>11 DEF DuplicateInv

(* A worker that requeues a row hands its permission to the row.                    *)
LEMMA RequeuePermitted ==
    ASSUME DuplicateInv, PublisherInv', NEW w \in Owners, RequeueRetry(w)
    PROVE  DuplicateInv'
<1>1. PICK j \in Jobs : j = Job(w) /\ StoreInv
  BY WorkerFacts DEF DuplicateInv
<1>2. pc \in [Owners -> Steps] /\ authorised \in [Jobs -> Nat]
  BY DEF DuplicateInv, PublisherInv, PublisherTypeOK
<1>3. /\ pc[w] = "requeue_retry" /\ pc' = [pc EXCEPT ![w] = "requeue_again"] /\ mem' = mem
      /\ UNCHANGED <<wire, recordings, authorised>> /\ Retry(j, w, Gen(w))
  BY <1>1 DEF RequeueRetry, StoreStep, Goto
<1>4. OthersSame(j)
  <2>1. w \in FencedClients
    BY DEF FencedClients
  <2>2. QED
    BY <1>1, <1>3, <2>1, RetryEffect
<1>5. SameMarkers /\ SameLeavers
  BY <1>2, <1>3 DEF SameMarkers, SameLeavers, Stays, RemoteIds
<1>6. (\A k : Spent(k)' = Spent(k)) /\ \A marker : Unspent(marker)' => Unspent(marker)
  BY <1>5, SameMarkersKeep
<1>7. /\ Requeuers(j)' = Requeuers(j) \ {w} /\ w \in Requeuers(j)
      /\ \A k \in Jobs : k # j => Requeuers(k)' = Requeuers(k)
  BY <1>1, <1>2, <1>3 DEF Requeuers, Requeuing, Job
<1>8. /\ IsFiniteSet(Requeuers(j)') /\ Cardinality(Requeuers(j)) \in Nat
      /\ Cardinality(Requeuers(j)') = Cardinality(Requeuers(j)) - 1
  BY <1>7, FS_RemoveElement, FS_CardinalityType DEF DuplicateInv, Permitted
<1>9. Permitted(j)'
  <2>1. Cardinality(Spent(j)') + Cardinality(Requeuers(j)')
           <= Cardinality(Spent(j)) + Cardinality(Requeuers(j)) + (-1)
    BY <1>6, <1>8, SpentFinite
  <2>2. authorised'[j] >= authorised[j] + (-1) + 1
    BY <1>2, <1>3
  <2>3. (IF Pending(j)' THEN 1 ELSE 0) <= (IF Pending(j) THEN 1 ELSE 0) + 1
    OBVIOUS
  <2>4. QED
    BY <1>8, <2>1, <2>2, <2>3, PermissionMoved DEF DuplicateInv
<1>10. ASSUME NEW k \in Jobs, k # j PROVE Permitted(k)'
  <2>1. authorised'[k] >= authorised[k]
    BY <1>2, <1>3
  <2>2. QED
    BY <1>4, <1>6, <1>7, <1>10, <2>1, OthersKeepPermits
<1>11. QED
  BY <1>9, <1>10 DEF DuplicateInv

(* The last look at the lease: the row's permission is spent on its marker.         *)
LEMMA RenewPermitted ==
    ASSUME DuplicateInv, PublisherInv', NEW w \in Owners, PostRenew(w)
    PROVE  DuplicateInv'
<1>1. PICK j \in Jobs : j = Job(w) /\ StoreInv /\ Remembers(w) /\ Knows(w) /\ mem[w] \in Memory
  BY WorkerFacts DEF DuplicateInv
<1>2. /\ pc \in [Owners -> Steps] /\ authorised \in [Jobs -> Nat]
      /\ Markers = 1..MaxMarkers /\ minted \in 0..MaxMarkers /\ MaxMarkers \in Nat
  BY MarkerFacts DEF DuplicateInv, PublisherInv, PublisherTypeOK
<1>3. /\ pc[w] = "post_renew" /\ Renew(j, w, Gen(w)) /\ pc' = [pc EXCEPT ![w] = "post_send"]
      /\ UNCHANGED <<mem, minted, wire, recordings, authorised>>
  BY <1>1 DEF PostRenew, StoreStep, Goto
<1>4. jobs[j].owner = w /\ Same(jobs[j], jobs'[j]) /\ OthersSame(j)
  BY <1>1, <1>3, RenewEffect
<1>5. RemoteIds' = RemoteIds
  BY <1>3 DEF RemoteIds
<1>6. PICK marker : marker = mem[w].marker
  OBVIOUS
<1>7. marker \in 1..minted /\ Unspent(marker) /\ mem[w].job = j
  <2>1. mem[w].marker \in 1..minted
    BY <1>1, <1>3 DEF Knows, Sending
  <2>2. Unspent(mem[w].marker)
    BY <1>3, OwnUnspent DEF DuplicateInv, KnowsUnsent, Sending
  <2>3. QED
    BY <1>1, <1>6, <2>1, <2>2 DEF Unspent, Unsent, Leaves, Job
<1>8. \A k \in Jobs : Requeuers(k)' = Requeuers(k)
  BY <1>2, <1>3 DEF Requeuers, Requeuing
<1>9. \A v \in Owners : \A own : Leaves(v, own)' <=> Leaves(v, own) \/ (v = w /\ own = marker)
  BY <1>2, <1>3, <1>6 DEF Leaves
<1>10. marker \in Markers
  BY <1>2, <1>7
<1>11. Spent(j)' = Spent(j) \cup {marker} /\ marker \notin Spent(j)
  <2>1. ASSUME NEW own \in Markers
        PROVE  own \in Spent(j)' <=> own \in Spent(j) \/ own = marker
    BY <1>3, <1>5, <1>7, <1>9, <2>1 DEF Spent
  <2>2. marker \notin Spent(j)
    BY <1>7 DEF Spent, Unspent, Unsent
  <2>3. Spent(j)' \subseteq Markers /\ Spent(j) \subseteq Markers
    BY DEF Spent
  <2>4. QED
    BY <1>10, <2>1, <2>2, <2>3
<1>12. ASSUME NEW k \in Jobs, k # j PROVE Spent(k)' = Spent(k)
  BY <1>3, <1>5, <1>7, <1>9, <1>12 DEF Spent
<1>13. \A own : Unspent(own)' => Unspent(own) /\ own # marker
  BY <1>3, <1>5, <1>9 DEF Unspent, Unsent
<1>14. /\ Cardinality(Spent(j)) \in Nat
       /\ Cardinality(Spent(j)') = Cardinality(Spent(j)) + 1
  BY <1>11, SpentFinite, FS_AddElement
<1>15. PICK r, s : r = jobs[j] /\ s = jobs'[j]
  OBVIOUS
<1>16. r.state = "transferring" /\ r.token = marker
  BY <1>1, <1>3, <1>4, <1>6, <1>15 DEF Remembers, Held, Sending, Working, Steps
<1>17. s.state = "transferring" /\ s.token = marker
  BY <1>4, <1>15, <1>16 DEF Same, Still
<1>18. Pending(j)
  BY <1>7, <1>15, <1>16 DEF Pending
<1>19. ~ Pending(j)'
  <2>1. PICK token : token = s.token
    OBVIOUS
  <2>2. ~ Unspent(token)'
    BY <1>13, <1>17, <2>1
  <2>3. QED
    BY <1>15, <1>17, <2>1, <2>2 DEF Pending, Unspent, Unsent, Leaves
<1>20. IsFiniteSet(Requeuers(j)) /\ Cardinality(Requeuers(j)) \in Nat
  BY FS_CardinalityType DEF DuplicateInv, Permitted
<1>21. Permitted(j)'
  <2>1. IsFiniteSet(Requeuers(j)')
    BY <1>8, <1>20
  <2>2. Cardinality(Spent(j)') + Cardinality(Requeuers(j)')
           <= Cardinality(Spent(j)) + Cardinality(Requeuers(j)) + 1
    BY <1>8, <1>14, <1>20
  <2>3. authorised'[j] >= authorised[j] + 1 + (-1)
    BY <1>2, <1>3
  <2>4. (IF Pending(j)' THEN 1 ELSE 0) <= (IF Pending(j) THEN 1 ELSE 0) + (-1)
    BY <1>18, <1>19
  <2>5. QED
    BY <2>1, <2>2, <2>3, <2>4, PermissionMoved DEF DuplicateInv
<1>22. ASSUME NEW k \in Jobs, k # j PROVE Permitted(k)'
  <2>1. authorised'[k] >= authorised[k]
    BY <1>2, <1>3
  <2>2. QED
    BY <1>4, <1>8, <1>12, <1>13, <1>22, <2>1, OthersKeepPermits
<1>23. QED
  BY <1>21, <1>22 DEF DuplicateInv

(* The request leaves, whatever became of its row: its marker stays spent.          *)
LEMMA SendPermitted ==
    ASSUME DuplicateInv, PublisherInv', NEW w \in Owners, PostSend(w), pc'[w] = "post_wait"
    PROVE  DuplicateInv'
<1>1. /\ pc \in [Owners -> Steps] /\ authorised \in [Jobs -> Nat]
      /\ mem[w] \in Memory
  BY DEF DuplicateInv, PublisherInv, PublisherTypeOK
<1>2. PICK q : q = [job |-> Job(w), marker |-> mem[w].marker, tags |-> mem[w].tags]
  OBVIOUS
<1>3. /\ pc[w] = "post_send" /\ pc' = [pc EXCEPT ![w] = "post_wait"]
      /\ wire' = wire \cup {q}
      /\ UNCHANGED <<jobs, mem, recordings, authorised>>
  BY <1>1, <1>2 DEF PostSend, Goto, storeVars
<1>4. q.job = mem[w].job /\ q.marker = mem[w].marker
  BY <1>2 DEF Job
<1>5. RemoteIds' = RemoteIds
  BY <1>3 DEF RemoteIds
<1>6. Leaves(w, q.marker)
  BY <1>3, <1>4 DEF Leaves
<1>7. \A v \in Owners : \A own : Leaves(v, own) => Leaves(v, own)' \/ (v = w /\ own = q.marker)
  BY <1>1, <1>3, <1>4 DEF Leaves
<1>8. \A v \in Owners : \A own : Leaves(v, own)' => Leaves(v, own)
  BY <1>1, <1>3 DEF Leaves
<1>9. ASSUME NEW j \in Jobs PROVE Spent(j)' \subseteq Spent(j)
  BY <1>3, <1>4, <1>5, <1>6, <1>8 DEF Spent
<1>10. \A own : Unspent(own)' => Unspent(own)
  BY <1>3, <1>5, <1>7 DEF Unspent, Unsent
<1>11. \A k \in Jobs : Pending(k)' => Pending(k)
  <2>1. \A k \in Jobs : Quiet(jobs[k], jobs'[k])
    BY <1>3 DEF Quiet, Still
  <2>2. QED
    BY <1>10, <2>1, PendsLess
<1>12. /\ \A v \in Owners \ {w} : pc'[v] = pc[v] /\ mem'[v] = mem[v]
       /\ pc'[w] \notin Requeuing
  BY <1>1, <1>3 DEF Requeuing
<1>13. QED
  BY <1>3, <1>9, <1>11, <1>12, WorkerKeepsPermits

(* A request that will not leave returns its permission, to the row if it is still  *)
(* transferring: the connection failed, or its sender stopped.                     *)
LEMMA StayPermitted ==
    ASSUME DuplicateInv, PublisherInv', NEW w \in Owners, Departs(w), pc'[w] # "post_wait"
    PROVE  DuplicateInv'
<1>1. /\ pc \in [Owners -> Steps] /\ mem \in [Owners -> Memory] /\ authorised \in [Jobs -> Nat]
      /\ Markers = 1..MaxMarkers /\ minted \in 0..MaxMarkers /\ MaxMarkers \in Nat
      /\ PublisherInv /\ OwnMarkers
  BY MarkerFacts DEF DuplicateInv, PublisherInv, PublisherTypeOK
<1>2. PICK j \in Jobs : j = Job(w) /\ Knows(w)
  BY WorkerFacts DEF DuplicateInv
<1>3. PICK m : m = mem[w]
  OBVIOUS
<1>4. /\ pc[w] = "post_send" /\ pc'[w] \in {"post_settle", "idle"}
      /\ \A v \in Owners \ {w} : pc'[v] = pc[v] /\ mem'[v] = mem[v]
      /\ UNCHANGED <<jobs, wire, recordings, authorised>>
  BY <1>1 DEF Departs, PostSend, Stop, StoreStep, Goto, storeVars
<1>5. RemoteIds' = RemoteIds
  BY <1>4 DEF RemoteIds
<1>6. m.job = j /\ m.marker \in 1..minted /\ Describes(m) /\ Unsent(m.marker)
  BY <1>2, <1>3, <1>4 DEF Knows, KnowsUnsent, Sending, Job
<1>7. m.marker \in Markers
  BY <1>1, <1>6
<1>8. ASSUME NEW v \in Owners, NEW own
      PROVE  Leaves(v, own)' <=> Leaves(v, own) /\ v # w
  BY <1>4 DEF Leaves
<1>9. \A v \in Owners : Leaves(v, m.marker) <=> v = w
  BY <1>1, <1>3, <1>4 DEF Leaves, OwnMarkers, Sending
<1>10. Leaves(w, m.marker) /\ \A own : Leaves(w, own) => own = m.marker
  BY <1>3, <1>4 DEF Leaves
<1>11. m.marker \in Spent(j) /\ Spent(j)' = Spent(j) \ {m.marker}
  <2>1. m.marker \in Spent(j)
    BY <1>3, <1>6, <1>7, <1>10 DEF Spent
  <2>2. m.marker \notin Spent(j)'
    BY <1>4, <1>5, <1>6, <1>8, <1>9 DEF Spent, Unsent
  <2>3. ASSUME NEW own \in Markers, own # m.marker
        PROVE  own \in Spent(j)' <=> own \in Spent(j)
    <3>1. \A v \in Owners : (mem'[v].job = j /\ Leaves(v, own)') <=> (mem[v].job = j /\ Leaves(v, own))
      BY <1>4, <1>8, <1>10, <2>3
    <3>2. QED
      BY <1>4, <1>5, <2>3, <3>1 DEF Spent
  <2>4. Spent(j)' \subseteq Markers /\ Spent(j) \subseteq Markers
    BY DEF Spent
  <2>5. QED
    BY <2>1, <2>2, <2>3, <2>4
<1>12. ASSUME NEW k \in Jobs, k # j PROVE Spent(k)' = Spent(k)
  <2>1. ASSUME NEW own, NEW v \in Owners
        PROVE  (mem'[v].job = k /\ Leaves(v, own)') <=> (mem[v].job = k /\ Leaves(v, own))
    BY <1>3, <1>4, <1>6, <1>8, <1>12, <2>1
  <2>2. QED
    BY <1>4, <1>5, <2>1 DEF Spent
<1>13. \A own : own # m.marker => (Unspent(own)' => Unspent(own))
  BY <1>4, <1>5, <1>8, <1>10 DEF Unspent, Unsent
<1>14. \A k \in Jobs : jobs[k].token = m.marker => k = j
  BY <1>6 DEF Describes
<1>15. \A k \in Jobs : Requeuers(k)' = Requeuers(k)
  BY <1>4 DEF Requeuers, Requeuing
<1>16. /\ Cardinality(Spent(j)) \in Nat
       /\ Cardinality(Spent(j)') = Cardinality(Spent(j)) - 1
  BY <1>11, SpentFinite, FS_RemoveElement
<1>17. IsFiniteSet(Requeuers(j)) /\ Cardinality(Requeuers(j)) \in Nat
  BY FS_CardinalityType DEF DuplicateInv, Permitted
<1>18. Permitted(j)'
  <2>1. IsFiniteSet(Requeuers(j)')
    BY <1>15, <1>17
  <2>2. Cardinality(Spent(j)') + Cardinality(Requeuers(j)')
           <= Cardinality(Spent(j)) + Cardinality(Requeuers(j)) + (-1)
    BY <1>15, <1>16, <1>17
  <2>3. authorised'[j] >= authorised[j] + (-1) + 1
    BY <1>1, <1>4
  <2>4. (IF Pending(j)' THEN 1 ELSE 0) <= (IF Pending(j) THEN 1 ELSE 0) + 1
    OBVIOUS
  <2>5. QED
    BY <2>1, <2>2, <2>3, <2>4, PermissionMoved DEF DuplicateInv
<1>19. ASSUME NEW k \in Jobs, k # j PROVE Permitted(k)'
  <2>1. authorised'[k] >= authorised[k]
    BY <1>1, <1>4
  <2>2. PICK token : token = jobs[k].token
    OBVIOUS
  <2>3. Unspent(token)' => Unspent(token)
    BY <1>13, <1>14, <1>19, <2>2
  <2>4. Pending(k)' => Pending(k)
    BY <1>4, <2>2, <2>3 DEF Pending, Unspent, Unsent, Leaves
  <2>5. QED
    BY <1>1, <1>12, <1>15, <1>19, <2>1, <2>4, PermissionKept DEF DuplicateInv
<1>20. QED
  BY <1>18, <1>19 DEF DuplicateInv

(* An answer reaches a sender that waits, never one about to send nor a worker that  *)
(* requeues.                                                                      *)
LEMMA AnswerRequeuers ==
    ASSUME PublisherInv, NEW q, NEW kind, NEW remote, Reply(q, kind, remote)
    PROVE  SameLeavers /\ \A j \in Jobs : Requeuers(j)' = Requeuers(j)
<1> DEFINE Waits(v) == pc[v] = "post_wait" /\ mem[v].marker = q.marker
<1>1. \A v \in Owners : mem[v] \in Memory
  BY DEF PublisherInv, PublisherTypeOK
<1>2. ASSUME NEW v \in Owners
      PROVE  /\ (pc'[v] \in Requeuing <=> pc[v] \in Requeuing) /\ mem'[v].job = mem[v].job
             /\ Stays(v)
  <2>1. CASE Waits(v)
    <3>1. pc'[v] = "post_settle" /\ mem'[v] = [mem[v] EXCEPT !.reply = kind, !.remote = remote]
      BY <2>1 DEF Reply
    <3>2. PICK m : m = mem[v] /\ m \in Memory
      BY <1>1
    <3>3. mem'[v].job = m.job
      BY <3>1, <3>2 DEF Memory
    <3>4. QED
      BY <2>1, <3>1, <3>2, <3>3 DEF Requeuing, Stays
  <2>2. CASE ~ Waits(v)
    BY <2>2 DEF Reply, Stays
  <2>3. QED
    BY <2>1, <2>2
<1>3. QED
  BY <1>2 DEF Requeuers, SameLeavers

(* A stored request stays spent.                                                  *)
LEMMA StoredPermitted ==
    ASSUME DuplicateInv, PublisherInv', NEW q \in wire, ServerStores(q)
    PROVE  DuplicateInv'
<1> DEFINE last == Len(recordings) + 1
           stored == [job |-> q.job, marker |-> q.marker, tags |-> q.tags, patched |-> FALSE]
<1>1. PublisherInv /\ recordings \in Seq(Recording) /\ q \in Request /\ authorised \in [Jobs -> Nat]
  BY DEF DuplicateInv, PublisherInv, PublisherTypeOK
<1>2. stored \in Recording /\ stored.job = q.job /\ stored.marker = q.marker
  BY <1>1 DEF Recording, Request
<1>3. /\ wire' = wire \ {q} /\ recordings' = Append(recordings, stored)
      /\ UNCHANGED <<jobs, authorised>>
  BY DEF ServerStores, storeVars
<1>4. /\ Len(recordings') = last /\ Len(recordings) \in Nat
      /\ \A n \in 1..Len(recordings) : recordings'[n] = recordings[n]
      /\ recordings'[last] = stored
      /\ recordings' \in Seq(Recording)
  BY <1>1, <1>2, <1>3, AppendProperties
<1>5. /\ RemoteIds' = RemoteIds \cup {last}
      /\ \A n \in RemoteIds : recordings'[n] = recordings[n]
      /\ recordings'[last].job = q.job /\ recordings'[last].marker = q.marker
  BY <1>1, <1>2, <1>4 DEF RemoteIds
<1> HIDE DEF stored, last
<1>6. \A p \in wire' : p \in wire
  BY <1>3
<1>9. SameLeavers /\ \A j \in Jobs : Requeuers(j)' = Requeuers(j)
  BY <1>1, AnswerRequeuers DEF ServerStores
<1>7. ASSUME NEW j \in Jobs PROVE Spent(j)' \subseteq Spent(j)
  <2>1. ASSUME NEW marker, NEW v \in Owners
        PROVE  (mem'[v].job = j /\ Leaves(v, marker)') => (mem[v].job = j /\ Leaves(v, marker))
    BY <1>9, LeaversStay
  <2>2. QED
    BY <1>5, <1>6, <2>1 DEF Spent
<1>8. ASSUME NEW marker PROVE Unspent(marker)' => Unspent(marker)
  <2>1. \A v \in Owners : Leaves(v, marker) => Leaves(v, marker)'
    BY <1>9, LeaversStay
  <2>2. Unsent(marker)' => Unsent(marker)
    BY <1>3, <1>5 DEF Unsent
  <2>3. QED
    BY <2>1, <2>2 DEF Unspent
<1>10. \A j \in Jobs : Pending(j)' => Pending(j)
  <2>1. \A j \in Jobs : Quiet(jobs[j], jobs'[j])
    BY <1>3 DEF Quiet, Still
  <2>2. QED
    BY <1>8, <2>1, PendsLess
<1>11. ASSUME NEW j \in Jobs PROVE Permitted(j)'
  <2>1. authorised'[j] >= authorised[j]
    BY <1>1, <1>3
  <2>2. QED
    BY <1>1, <1>7, <1>9, <1>10, <2>1, PermissionKept DEF DuplicateInv
<1>12. QED
  BY <1>11 DEF DuplicateInv

(* A request that came to nothing returns its permission, to the row if it is       *)
(* still transferring.                                                            *)
LEMMA RefusedPermitted ==
    ASSUME DuplicateInv, PublisherInv', NEW q \in wire, ServerRefuses(q)
    PROVE  DuplicateInv'
<1>1. /\ PublisherInv /\ q \in Request /\ SentOnce /\ RequestsDescribed
      /\ authorised \in [Jobs -> Nat]
  BY DEF DuplicateInv, PublisherInv, PublisherTypeOK
<1>2. wire' = wire \ {q} /\ UNCHANGED <<jobs, recordings, authorised>>
  BY DEF ServerRefuses, storeVars
<1>3. RemoteIds' = RemoteIds
  BY <1>2 DEF RemoteIds
<1>4. PICK j \in Jobs : j = q.job
  BY <1>1 DEF Request
<1>9. SameLeavers /\ \A k \in Jobs : Requeuers(k)' = Requeuers(k)
  BY <1>1, AnswerRequeuers DEF ServerRefuses
<1>16. \A v \in Owners : ~ Leaves(v, q.marker)
  <2>1. ASSUME NEW v \in Owners, pc[v] = "post_send" PROVE mem[v].marker # q.marker
    BY <1>1, <2>1, WorkerFacts DEF Knows, KnowsUnsent, Unsent
  <2>2. QED
    BY <2>1 DEF Leaves
<1>17. \A v \in Owners : \A marker, k :
          /\ Leaves(v, marker)' <=> Leaves(v, marker)
          /\ (mem'[v].job = k /\ Leaves(v, marker)') <=> (mem[v].job = k /\ Leaves(v, marker))
  BY <1>9, LeaversStay
<1>5. q.marker \in Spent(j) /\ Spent(j)' = Spent(j) \ {q.marker}
  <2>1. q.marker \in Spent(j)
    BY <1>1, <1>4 DEF Spent, Request
  <2>2. q.marker \notin Spent(j)'
    BY <1>1, <1>2, <1>3, <1>16, <1>17 DEF Spent, SentOnce
  <2>3. ASSUME NEW own \in Markers, own # q.marker
        PROVE  own \in Spent(j)' <=> own \in Spent(j)
    <3>1. \A v \in Owners : (mem'[v].job = j /\ Leaves(v, own)') <=> (mem[v].job = j /\ Leaves(v, own))
      BY <1>17
    <3>2. QED
      BY <1>2, <1>3, <2>3, <3>1 DEF Spent
  <2>4. Spent(j)' \subseteq Markers /\ Spent(j) \subseteq Markers
    BY DEF Spent
  <2>5. QED
    BY <2>1, <2>2, <2>3, <2>4
<1>6. ASSUME NEW k \in Jobs, k # j PROVE Spent(k)' = Spent(k)
  <2>1. ASSUME NEW own, NEW v \in Owners
        PROVE  (mem'[v].job = k /\ Leaves(v, own)') <=> (mem[v].job = k /\ Leaves(v, own))
    BY <1>17
  <2>2. QED
    BY <1>2, <1>3, <1>4, <1>6, <2>1 DEF Spent
<1>7. ASSUME NEW own, own # q.marker PROVE Unspent(own)' => Unspent(own)
  <2>1. \A v \in Owners : Leaves(v, own)' <=> Leaves(v, own)
    BY <1>17
  <2>2. Unsent(own)' => Unsent(own)
    BY <1>2, <1>3, <1>7 DEF Unsent
  <2>3. QED
    BY <2>1, <2>2 DEF Unspent
<1>8. \A k \in Jobs : jobs[k].token = q.marker => k = j
  BY <1>1, <1>4 DEF RequestsDescribed, Describes
<1>10. OthersSame(j)
  BY <1>2 DEF OthersSame
<1>11. /\ Cardinality(Spent(j)) \in Nat
       /\ Cardinality(Spent(j)') = Cardinality(Spent(j)) - 1
  BY <1>5, SpentFinite, FS_RemoveElement
<1>12. IsFiniteSet(Requeuers(j)) /\ Cardinality(Requeuers(j)) \in Nat
  BY FS_CardinalityType DEF DuplicateInv, Permitted
<1>13. Permitted(j)'
  <2>1. IsFiniteSet(Requeuers(j)')
    BY <1>9, <1>12
  <2>2. Cardinality(Spent(j)') + Cardinality(Requeuers(j)')
           <= Cardinality(Spent(j)) + Cardinality(Requeuers(j)) + (-1)
    BY <1>9, <1>11, <1>12
  <2>3. authorised'[j] >= authorised[j] + (-1) + 1
    BY <1>1, <1>2
  <2>4. (IF Pending(j)' THEN 1 ELSE 0) <= (IF Pending(j) THEN 1 ELSE 0) + 1
    OBVIOUS
  <2>5. QED
    BY <2>1, <2>2, <2>3, <2>4, PermissionMoved DEF DuplicateInv
<1>14. ASSUME NEW k \in Jobs, k # j PROVE Permitted(k)'
  <2>1. authorised'[k] >= authorised[k]
    BY <1>1, <1>2
  <2>2. PICK token : token = jobs[k].token
    OBVIOUS
  <2>3. Unspent(token)' => Unspent(token)
    BY <1>7, <1>8, <1>14, <2>2
  <2>4. Pending(k)' => Pending(k)
    BY <1>2, <2>2, <2>3 DEF Pending, Unspent, Unsent, Leaves
  <2>5. QED
    BY <1>1, <1>6, <1>9, <1>14, <2>1, <2>4, PermissionKept DEF DuplicateInv
<1>15. QED
  BY <1>13, <1>14 DEF DuplicateInv

(* What workers, wire and server do not see.                                       *)
LEMMA UnseenKeepsPermits ==
    ASSUME DuplicateInv, PublisherInv', UNCHANGED <<pc, mem, wire, recordings, authorised>>,
           \A k \in Jobs : Pending(k)' => Pending(k)
    PROVE  DuplicateInv'
<1>1. SameMarkers /\ SameLeavers
  BY DEF SameMarkers, SameLeavers, Stays, RemoteIds
<1>2. \A k : Spent(k)' = Spent(k)
  BY <1>1, SameMarkersKeep
<1>3. \A k : Requeuers(k)' = Requeuers(k)
  BY DEF Requeuers
<1>4. \A k \in Jobs : authorised'[k] >= authorised[k]
  BY DEF DuplicateInv, PublisherInv, PublisherTypeOK
<1>5. ASSUME NEW k \in Jobs PROVE Permitted(k)'
  BY <1>2, <1>3, <1>4, PermissionKept DEF DuplicateInv
<1>6. QED
  BY <1>5 DEF DuplicateInv

(* An operator's retry takes an uncertain row back to POST under a permission of    *)
(* its own; another row only where it already held one.                            *)
LEMMA RetryPermitted ==
    ASSUME DuplicateInv, PublisherInv', NEW j \in Jobs, OperatorRetry(j)
    PROVE  DuplicateInv'
<1>1. StoreInv /\ authorised \in [Jobs -> Nat] /\ NoOwner \in FencedClients
  BY DEF DuplicateInv, PublisherInv, PublisherTypeOK, FencedClients
<1>2. Retry(j, NoOwner, 0) /\ UNCHANGED <<pc, mem, minted, wire, recordings>>
  BY DEF OperatorRetry
<1>3. PICK r, s : r = jobs[j] /\ s = jobs'[j]
  OBVIOUS
<1>4. OthersSame(j) /\ Resumption(r, s, RetryTarget(r)) /\ RetryTarget(r) # "refused"
  BY <1>1, <1>2, <1>3, RetryEffect DEF Retry
<1>5. SameMarkers /\ SameLeavers
  BY <1>2 DEF SameMarkers, SameLeavers, Stays, RemoteIds
<1>6. (\A k : Spent(k)' = Spent(k)) /\ \A marker : Unspent(marker)' => Unspent(marker)
  BY <1>5, SameMarkersKeep
<1>7. \A k : Requeuers(k)' = Requeuers(k)
  BY <1>2 DEF Requeuers
<1>8. CASE r.state = "uncertain"
  <2>1. authorised' = [authorised EXCEPT ![j] = @ + 1]
    BY <1>3, <1>8 DEF OperatorRetry
  <2>2. authorised'[j] = authorised[j] + 1 /\ \A k \in Jobs \ {j} : authorised'[k] = authorised[k]
    BY <1>1, <2>1
  <2>3. IsFiniteSet(Requeuers(j)) /\ Cardinality(Requeuers(j)) \in Nat
    BY FS_CardinalityType DEF DuplicateInv, Permitted
  <2>4. Permitted(j)'
    <3>1. IsFiniteSet(Requeuers(j)')
      BY <1>7, <2>3
    <3>2. Cardinality(Spent(j)') + Cardinality(Requeuers(j)')
             <= Cardinality(Spent(j)) + Cardinality(Requeuers(j)) + 0
      BY <1>6, <1>7, <2>3, SpentFinite
    <3>3. authorised'[j] >= authorised[j] + 0 + 1
      BY <1>1, <2>2
    <3>4. (IF Pending(j)' THEN 1 ELSE 0) <= (IF Pending(j) THEN 1 ELSE 0) + 1
      OBVIOUS
    <3>5. QED
      BY <3>1, <3>2, <3>3, <3>4, PermissionMoved DEF DuplicateInv
  <2>5. ASSUME NEW k \in Jobs, k # j PROVE Permitted(k)'
    <3>1. authorised'[k] >= authorised[k]
      BY <1>1, <2>2, <2>5
    <3>2. QED
      BY <1>4, <1>6, <1>7, <2>5, <3>1, OthersKeepPermits
  <2>6. QED
    BY <2>4, <2>5 DEF DuplicateInv
<1>9. CASE r.state # "uncertain"
  <2>1. UNCHANGED authorised
    BY <1>3, <1>9 DEF OperatorRetry
  <2>2. RetryTarget(r) = "queued" =>
           r.state = "queued" \/ (r.state \in {"blocked", "missing"} /\ r.intent = "post")
    BY <1>9 DEF RetryTarget, ResumeTarget
  <2>3. Pending(j)' => Pending(j)
    BY <1>3, <1>4, <2>2 DEF Pending, Resumption
  <2>4. \A k \in Jobs : k # j => (Pending(k)' => Pending(k))
    <3>1. \A k \in Jobs : k # j => Quiet(jobs[k], jobs'[k])
      BY <1>4 DEF OthersSame, Quiet, Still
    <3>2. QED
      BY <1>6, <3>1, PendsLess
  <2>5. QED
    BY <1>2, <2>1, <2>3, <2>4, UnseenKeepsPermits
<1>10. QED
  BY <1>8, <1>9

(* No other operator command, no rename and no passage of time gives a permission.  *)
LEMMA OutsidePermitted ==
    ASSUME DuplicateInv, PublisherInv',
           \/ \E j \in Jobs : Enqueue(j) \/ OperatorRelink(j) \/ OperatorForget(j)
           \/ RenameCallback \/ Passage \/ UNCHANGED vars
    PROVE  DuplicateInv'
<1> DEFINE Goal == \A k \in Jobs : Pending(k)' => Pending(k)
<1>1. StoreInv /\ NoOwner \in FencedClients
  BY DEF DuplicateInv, PublisherInv, FencedClients
<1>2. UNCHANGED <<pc, mem, wire, recordings, authorised>>
  BY DEF Enqueue, OperatorRelink, OperatorForget, RenameCallback, Passage, vars, publisherVars
<1>3. \A marker : Unspent(marker)' => Unspent(marker)
  BY <1>2 DEF Unspent, Unsent, Leaves, RemoteIds
<1>4. ASSUME NEW j \in Jobs, OthersSame(j),
             \/ Quiet(jobs[j], jobs'[j])
             \/ jobs'[j].state = "forgotten"
             \/ jobs[j].state = "absent"
      PROVE  Goal
  BY <1>3, <1>4, OnePends
<1>5. ASSUME \A k \in Jobs : Quiet(jobs[k], jobs'[k]) PROVE Goal
  BY <1>3, <1>5, PendsLess
<1> HIDE DEF Goal
<1>6. ASSUME NEW j \in Jobs, Enqueue(j) PROVE Goal
  <2>1. PICK path, tags : Create(j, path, tags)
    BY <1>6 DEF Enqueue
  <2>2. QED
    BY <1>1, <1>4, <2>1, CreateEffect
<1>7. ASSUME NEW j \in Jobs, OperatorForget(j) PROVE Goal
  <2>1. Forget(j)
    BY <1>7 DEF OperatorForget
  <2>2. QED
    BY <1>1, <1>4, <2>1, ForgetEffect
<1>8. ASSUME NEW j \in Jobs, OperatorRelink(j) PROVE Goal
  <2>1. PICK path : Relink(j, NoOwner, 0, path)
    BY <1>8 DEF OperatorRelink
  <2>2. PICK r, s : r = jobs[j] /\ s = jobs'[j]
    OBVIOUS
  <2>3. /\ OthersSame(j)
        /\ \/ Same(r, s)
           \/ r.state = "missing" /\ Resumption(r, s, ResumeTarget(r.intent))
    BY <1>1, <2>1, <2>2, RelinkEffect
  <2>4. CASE Same(r, s)
    BY <1>4, <2>2, <2>3, <2>4 DEF Same, Quiet
  <2>5. CASE r.state = "missing" /\ Resumption(r, s, ResumeTarget(r.intent))
    <3>1. ResumeTarget(r.intent) = "queued" => r.intent = "post"
      BY DEF ResumeTarget
    <3>2. Pending(j)' => Pending(j)
      BY <2>2, <2>5, <3>1 DEF Pending, Resumption
    <3>3. \A k \in Jobs : k # j => Quiet(jobs[k], jobs'[k])
      BY <2>3 DEF OthersSame, Quiet, Still
    <3>4. \A k \in Jobs : k # j => (Pending(k)' => Pending(k))
      BY <1>3, <3>3, PendsLess
    <3>5. QED
      BY <3>2, <3>4 DEF Goal
  <2>6. QED
    BY <2>3, <2>4, <2>5
<1>9. RenameCallback => Goal
  <2> SUFFICES ASSUME RenameCallback PROVE Goal
    OBVIOUS
  <2>1. PICK old, new, identified : UpdatePath(old, new, identified)
    BY DEF RenameCallback
  <2>2. \A k \in Jobs : Same(jobs[k], jobs'[k])
    BY <1>1, <2>1, UpdatePathEffect
  <2>3. QED
    BY <1>5, <2>2 DEF Same, Quiet
<1>10. Passage \/ UNCHANGED vars => Goal
  <2> SUFFICES ASSUME Passage \/ UNCHANGED vars PROVE Goal
    OBVIOUS
  <2>1. jobs' = jobs
    BY DEF Passage, Tick, vars, storeVars
  <2>2. QED
    BY <1>5, <2>1 DEF Quiet, Still
<1>11. Goal
  BY <1>6, <1>7, <1>8, <1>9, <1>10
<1>12. QED
  BY <1>2, <1>11, UnseenKeepsPermits DEF Goal

(* Every step keeps as many permissions as it needs.                               *)
LEMMA DuplicateSteps == DuplicateInv /\ [Next]_vars => DuplicateInv'
<1> SUFFICES ASSUME DuplicateInv, [Next]_vars PROVE DuplicateInv'
  OBVIOUS
<1>1. PublisherInv /\ PublisherInv'
  BY PublisherSteps DEF DuplicateInv
<1>2. ASSUME NEW w \in Owners, Worker(w) PROVE DuplicateInv'
  <2>1. CASE PostRenew(w)
    BY <1>1, <2>1, RenewPermitted
  <2>2. CASE SettleNotSent(w)
    BY <1>1, <2>2, SettlePermitted
  <2>3. CASE RequeueRetry(w)
    BY <1>1, <2>3, RequeuePermitted
  <2>4. CASE Departs(w) /\ pc'[w] # "post_wait"
    BY <1>1, <2>4, StayPermitted
  <2>5. CASE Departs(w) /\ pc'[w] = "post_wait"
    <3>1. pc \in [Owners -> Steps]
      BY <1>1 DEF PublisherInv, PublisherTypeOK
    <3>2. PostSend(w)
      BY <2>5, <3>1 DEF Departs, Stop, StoreStep, Goto
    <3>3. QED
      BY <1>1, <2>5, <3>2, SendPermitted
  <2>6. CASE ~ PostRenew(w) /\ ~ SettleNotSent(w) /\ ~ RequeueRetry(w) /\ ~ Departs(w)
    <3>1. UNCHANGED authorised /\ SameMarkers /\ Stays(w) /\ Elsewhere(w) /\ Requeues(w)
      BY <1>1, <1>2, <2>6, WorkerFrame
    <3>2. \A k \in Jobs : Pending(k)' => Pending(k)
      BY <1>1, <1>2, <2>6, WorkerPends
    <3>3. \A j \in Jobs : Spent(j)' \subseteq Spent(j)
      BY <3>1, WorkerSpends
    <3>4. QED
      BY <1>1, <3>1, <3>2, <3>3, WorkerKeepsPermits DEF Elsewhere, Requeues
  <2>7. QED
    BY <2>1, <2>2, <2>3, <2>4, <2>5, <2>6
<1>3. ASSUME NEW q \in wire, ServerStores(q) \/ ServerRefuses(q) PROVE DuplicateInv'
  BY <1>1, <1>3, StoredPermitted, RefusedPermitted
<1>4. ASSUME NEW j \in Jobs, Operator(j) PROVE DuplicateInv'
  BY <1>1, <1>4, RetryPermitted, OutsidePermitted DEF Operator
<1>5. CASE RenameCallback \/ Passage \/ UNCHANGED vars
  BY <1>1, <1>5, OutsidePermitted
<1>6. QED
  BY <1>2, <1>3, <1>4, <1>5 DEF Next, Server

(* A job begins with its one permission unspent.                                   *)
LEMMA DuplicateStarts == Init => DuplicateInv
<1> SUFFICES ASSUME Init PROVE DuplicateInv
  OBVIOUS
<1>1. PublisherInv
  BY PublisherStarts
<1>2. pc = [w \in Owners |-> "idle"] /\ wire = {} /\ recordings = <<>>
        /\ authorised = [j \in Jobs |-> 0]
  BY DEF Init
<1>3. RemoteIds = {}
  BY <1>2 DEF RemoteIds
<1>4. ASSUME NEW j \in Jobs PROVE Permitted(j)
  <2>1. Spent(j) = {} /\ Requeuers(j) = {}
    BY <1>2, <1>3 DEF Spent, Leaves, Requeuers, Requeuing
  <2>2. Cardinality(Spent(j)) = 0 /\ Cardinality(Requeuers(j)) = 0 /\ IsFiniteSet(Requeuers(j))
    BY <2>1, FS_EmptySet
  <2>3. authorised[j] = 0
    BY <1>2
  <2>4. QED
    BY <2>2, <2>3 DEF Permitted
<1>5. QED
  BY <1>1, <1>4 DEF DuplicateInv

(* The server never holds two recordings of a job unless an operator retried it     *)
(* while its outcome was uncertain, and one more for each such retry: leases that   *)
(* expire, workers that stop or overlap, late arrivals and lost replies add none.   *)
THEOREM NoDuplicateWithoutPermission == Spec => []NoUnauthorisedDuplicate
<1>1. DuplicateInv => NoUnauthorisedDuplicate
  <2> SUFFICES ASSUME DuplicateInv, NEW j \in Jobs
               PROVE  Cardinality(Copies(j)) <= 1 + authorised[j]
    BY DEF NoUnauthorisedDuplicate
  <2>1. /\ recordings \in Seq(Recording) /\ SentOnce /\ authorised \in [Jobs -> Nat]
        /\ Permitted(j)
    BY DEF DuplicateInv, PublisherInv, PublisherTypeOK
  <2>2. \A n \in RemoteIds : recordings[n] \in Recording
    BY <2>1 DEF RemoteIds
  <2> DEFINE markerOf == [n \in Copies(j) |-> recordings[n].marker]
  <2>3. markerOf \in [Copies(j) -> Spent(j)]
    BY <2>2 DEF Copies, Spent, Recording
  <2>4. \A n, m \in Copies(j) : markerOf[n] = markerOf[m] => n = m
    BY <2>1 DEF Copies, SentOnce
  <2> HIDE DEF markerOf
  <2>5. markerOf \in Injection(Copies(j), Spent(j))
    BY <2>3, <2>4 DEF Injection, IsInjective
  <2>6. /\ IsFiniteSet(Copies(j)) /\ Cardinality(Copies(j)) <= Cardinality(Spent(j))
        /\ Cardinality(Spent(j)) \in Nat
    BY <2>5, SpentFinite, FS_Injection
  <2>7. Cardinality(Copies(j)) \in Nat /\ Cardinality(Requeuers(j)) \in Nat
    BY <2>1, <2>6, FS_CardinalityType DEF Permitted
  <2>8. Cardinality(Spent(j)) <= 1 + authorised[j]
    BY <2>1, <2>6, <2>7 DEF Permitted
  <2>9. QED
    BY <2>1, <2>6, <2>7, <2>8
<1>2. Spec => []DuplicateInv
  BY DuplicateStarts, DuplicateSteps, PTL DEF Spec
<1>3. QED
  BY <1>1, <1>2, PTL

---------------------------------------------------------------------------
(* The publisher implements the lifecycle of PublicationLifecycle, for any number of *)
(* recordings, workers, transfers and retries: every step of a worker, an operator,  *)
(* the server or the clock is a step of the lifecycle, under the mapping at the end *)
(* of SpeakrPublisher, or leaves it alone.                                         *)

(* The mapping, by recording.                                                     *)

Stage(j) == StageOf(jobs[j])
Parting(j) == Cardinality(Leaving(j))
InTransit(j) == Cardinality(Transit(j))
OnServer(j) == Cardinality(Copies(j))
Permits(j) == 1 + authorised[j] - Parting(j) - InTransit(j) - OnServer(j)
DescribedCopy(j) == \E r \in Copies(j) : recordings[r].patched

LifecycleStep == [Lifecycle!Next]_(Lifecycle!vars)

(* What leaves the counts of a recording alone, or of all.                          *)
CountsOf(j) ==
    /\ Permits(j)' = Permits(j) /\ Parting(j)' = Parting(j) /\ InTransit(j)' = InTransit(j)
    /\ OnServer(j)' = OnServer(j) /\ DescribedCopy(j)' = DescribedCopy(j)
CountsKept == \A j \in Jobs : CountsOf(j)

---------------------------------------------------------------------------
(* Steps of the lifecycle.                                                        *)

(* Nothing of the lifecycle changes.                                              *)
LEMMA Stutters ==
    ASSUME CountsKept, \A j \in Jobs : Stage(j)' = Stage(j)
    PROVE  LifecycleStep
<1>1. UNCHANGED Lifecycle!vars
  BY DEF CountsKept, CountsOf, Permits, Parting, InTransit, OnServer, DescribedCopy, Stage, Lifecycle!vars
<1>2. QED
  BY <1>1 DEF LifecycleStep

(* One recording moves from one stage to another.                                  *)
LEMMA StageMoves ==
    ASSUME CountsKept, NEW j \in Jobs, NEW from, NEW to, Stage(j) \in from, Stage(j)' = to,
           \A k \in Jobs : k # j => Stage(k)' = Stage(k)
    PROVE  Lifecycle!Enter(j, from, to) /\ Lifecycle!OnlyStage
<1>1. Lifecycle!Enter(j, from, to)
  BY DEF Stage, Lifecycle!Enter
<1>2. Lifecycle!OnlyStage
  BY DEF CountsKept, CountsOf, Permits, Parting, InTransit, OnServer, DescribedCopy, Lifecycle!OnlyStage
<1>3. QED
  BY <1>1, <1>2

(* The moves that need no permit and no copy.                                      *)
LEMMA FreeMoves ==
    ASSUME CountsKept, NEW j \in Jobs, \A k \in Jobs : k # j => Stage(k)' = Stage(k),
           \/ Stage(j) = "absent" /\ Stage(j)' = "waiting"
           \/ Stage(j) = "sending" /\ Stage(j)' = "waiting"
           \/ Stage(j) \notin {"absent", "gone"} /\ Stage(j)' = "gone"
    PROVE  LifecycleStep
<1>1. CASE Stage(j) = "absent" /\ Stage(j)' = "waiting"
  <2>1. Lifecycle!Enqueue(j)
    BY <1>1, StageMoves DEF Lifecycle!Enqueue
  <2>2. QED
    BY <2>1 DEF LifecycleStep, Lifecycle!Next
<1>2. CASE Stage(j) = "sending" /\ Stage(j)' = "waiting"
  <2>1. Lifecycle!GiveUp(j)
    BY <1>2, StageMoves DEF Lifecycle!GiveUp
  <2>2. QED
    BY <2>1 DEF LifecycleStep, Lifecycle!Next
<1>3. CASE Stage(j) \notin {"absent", "gone"} /\ Stage(j)' = "gone"
  <2>1. Stage(j) \in Lifecycle!Stages \ {"absent", "gone"}
    BY <1>3 DEF Stage, StageOf, ResumeStage, Lifecycle!Stages
  <2>2. Lifecycle!Forget(j)
    BY <1>3, <2>1, StageMoves DEF Lifecycle!Forget
  <2>3. QED
    BY <2>2 DEF LifecycleStep, Lifecycle!Next
<1>4. QED
  BY <1>1, <1>2, <1>3

(* The moves that need a permit: to begin an upload, or to return to one.           *)
LEMMA PermittedMoves ==
    ASSUME CountsKept, NEW j \in Jobs, \A k \in Jobs : k # j => Stage(k)' = Stage(k),
           Permits(j) > 0,
           \/ Stage(j) = "waiting" /\ Stage(j)' = "sending"
           \/ Stage(j) = "doubtful" /\ Stage(j)' = "waiting"
    PROVE  LifecycleStep
<1>1. CASE Stage(j) = "waiting" /\ Stage(j)' = "sending"
  <2>1. Lifecycle!Begin(j)
    BY <1>1, StageMoves DEF Lifecycle!Begin, Permits, Parting, InTransit, OnServer
  <2>2. QED
    BY <2>1 DEF LifecycleStep, Lifecycle!Next
<1>2. CASE Stage(j) = "doubtful" /\ Stage(j)' = "waiting"
  <2>1. Lifecycle!Again(j)
    BY <1>2, StageMoves DEF Lifecycle!Again, Permits, Parting, InTransit, OnServer
  <2>2. QED
    BY <2>1 DEF LifecycleStep, Lifecycle!Next
<1>3. QED
  BY <1>1, <1>2

(* The moves that need a copy, or a described one.                                 *)
LEMMA KnownMoves ==
    ASSUME CountsKept, NEW j \in Jobs, \A k \in Jobs : k # j => Stage(k)' = Stage(k),
           \/ Stage(j) \in {"sending", "doubtful"} /\ Stage(j)' = "uploaded" /\ OnServer(j) > 0
           \/ Stage(j) = "uploaded" /\ Stage(j)' = "published" /\ DescribedCopy(j)
    PROVE  LifecycleStep
<1>1. CASE Stage(j) \in {"sending", "doubtful"} /\ Stage(j)' = "uploaded" /\ OnServer(j) > 0
  <2>1. Lifecycle!Learn(j)
    BY <1>1, StageMoves DEF Lifecycle!Learn, OnServer
  <2>2. QED
    BY <2>1 DEF LifecycleStep, Lifecycle!Next
<1>2. CASE Stage(j) = "uploaded" /\ Stage(j)' = "published" /\ DescribedCopy(j)
  <2>1. Lifecycle!Publish(j)
    BY <1>2, StageMoves DEF Lifecycle!Publish, DescribedCopy
  <2>2. QED
    BY <2>1 DEF LifecycleStep, Lifecycle!Next
<1>3. QED
  BY <1>1, <1>2

(* Uploads become doubtful: one, or all whose lease ran out.                        *)
LEMMA Doubts ==
    ASSUME CountsKept,
           \A j \in Jobs : \/ Stage(j)' = Stage(j)
                           \/ Stage(j) = "sending" /\ Stage(j)' = "doubtful"
    PROVE  LifecycleStep
<1>1. PICK S \in SUBSET Jobs : S = {j \in Jobs : Stage(j)' # Stage(j)}
  OBVIOUS
<1>2. CASE S = {}
  BY <1>1, <1>2, Stutters
<1>3. CASE S # {}
  <2>1. \A j \in S : Stage(j) = "sending"
    BY <1>1
  <2>2. \A j \in Jobs : Stage(j)' = IF j \in S THEN "doubtful" ELSE Stage(j)
    BY <1>1
  <2>3. Lifecycle!OnlyStage
    BY DEF CountsKept, CountsOf, Permits, Parting, InTransit, OnServer, DescribedCopy, Lifecycle!OnlyStage
  <2>4. Lifecycle!Doubt(S)
    BY <1>1, <1>3, <2>1, <2>2, <2>3 DEF Lifecycle!Doubt, Stage
  <2>5. QED
    BY <2>4 DEF LifecycleStep, Lifecycle!Next
<1>4. QED
  BY <1>2, <1>3

(* An upload sets out.                                                            *)
LEMMA SetsOut ==
    ASSUME NEW j \in Jobs, \A k \in Jobs : Stage(k)' = Stage(k),
           \A k \in Jobs : k # j => CountsOf(k),
           Stage(j) = "sending", Permits(j) > 0, authorised \in [Jobs -> Nat],
           Parting(j) \in Nat, InTransit(j) \in Nat, OnServer(j) \in Nat,
           authorised' = authorised, Parting(j)' = Parting(j) + 1,
           InTransit(j)' = InTransit(j), OnServer(j)' = OnServer(j),
           DescribedCopy(j)' = DescribedCopy(j)
    PROVE  LifecycleStep
<1>1. Permits(j)' = Permits(j) - 1
  BY DEF Permits
<1>2. Lifecycle!SetOut(j)
  BY <1>1 DEF CountsOf, Permits, Parting, InTransit, OnServer, DescribedCopy, Stage, Lifecycle!SetOut
<1>3. QED
  BY <1>2 DEF LifecycleStep, Lifecycle!Next

(* Its request leaves, or stays behind.                                            *)
LEMMA Parts ==
    ASSUME NEW j \in Jobs, \A k \in Jobs : Stage(k)' = Stage(k),
           \A k \in Jobs : k # j => CountsOf(k), authorised \in [Jobs -> Nat],
           Parting(j) \in Nat, InTransit(j) \in Nat, OnServer(j) \in Nat,
           authorised' = authorised, Parting(j) > 0, Parting(j)' = Parting(j) - 1,
           InTransit(j)' = InTransit(j) + 1 \/ InTransit(j)' = InTransit(j),
           OnServer(j)' = OnServer(j), DescribedCopy(j)' = DescribedCopy(j)
    PROVE  LifecycleStep
<1>1. CASE InTransit(j)' = InTransit(j) + 1
  <2>1. Permits(j)' = Permits(j)
    BY <1>1 DEF Permits
  <2>2. Lifecycle!Send(j)
    BY <1>1, <2>1
       DEF CountsOf, Permits, Parting, InTransit, OnServer, DescribedCopy, Stage, Lifecycle!Send
  <2>3. QED
    BY <2>2 DEF LifecycleStep, Lifecycle!Next
<1>2. CASE InTransit(j)' = InTransit(j)
  <2>1. Permits(j)' = Permits(j) + 1
    BY <1>2 DEF Permits
  <2>2. Lifecycle!StayBehind(j)
    BY <1>2, <2>1
       DEF CountsOf, Permits, Parting, InTransit, OnServer, DescribedCopy, Stage, Lifecycle!StayBehind
  <2>3. QED
    BY <2>2 DEF LifecycleStep, Lifecycle!Next
<1>3. QED
  BY <1>1, <1>2

(* A request arrives and is stored.                                               *)
LEMMA Arrives ==
    ASSUME NEW j \in Jobs, \A k \in Jobs : Stage(k)' = Stage(k),
           \A k \in Jobs : k # j => CountsOf(k),
           authorised \in [Jobs -> Nat], Parting(j) \in Nat, InTransit(j) \in Nat,
           OnServer(j) \in Nat, authorised' = authorised, Parting(j)' = Parting(j), InTransit(j) > 0,
           InTransit(j)' = InTransit(j) - 1, OnServer(j)' = OnServer(j) + 1,
           DescribedCopy(j)' = DescribedCopy(j)
    PROVE  LifecycleStep
<1>1. Permits(j)' = Permits(j)
  BY DEF Permits
<1>2. Lifecycle!Arrive(j)
  BY <1>1 DEF CountsOf, Permits, Parting, InTransit, OnServer, DescribedCopy, Stage, Lifecycle!Arrive
<1>3. QED
  BY <1>2 DEF LifecycleStep, Lifecycle!Next

(* A request comes to nothing, and returns its permit.                             *)
LEMMA Vanishes ==
    ASSUME NEW j \in Jobs, \A k \in Jobs : Stage(k)' = Stage(k),
           \A k \in Jobs : k # j => CountsOf(k),
           authorised \in [Jobs -> Nat], Parting(j) \in Nat, InTransit(j) \in Nat,
           OnServer(j) \in Nat, authorised' = authorised, Parting(j)' = Parting(j), InTransit(j) > 0,
           InTransit(j)' = InTransit(j) - 1, OnServer(j)' = OnServer(j),
           DescribedCopy(j)' = DescribedCopy(j)
    PROVE  LifecycleStep
<1>1. Permits(j)' = Permits(j) + 1
  BY DEF Permits
<1>2. Lifecycle!Vanish(j)
  BY <1>1 DEF CountsOf, Permits, Parting, InTransit, OnServer, DescribedCopy, Stage, Lifecycle!Vanish
<1>3. QED
  BY <1>2 DEF LifecycleStep, Lifecycle!Next

(* An operator permits another upload of a doubtful one.                           *)
LEMMA Authorises ==
    ASSUME NEW j \in Jobs, \A k \in Jobs : k # j => Stage(k)' = Stage(k),
           \A k \in Jobs : k # j => CountsOf(k),
           Stage(j) = "doubtful", Stage(j)' = "waiting",
           authorised \in [Jobs -> Nat], Parting(j) \in Nat, InTransit(j) \in Nat,
           OnServer(j) \in Nat, authorised'[j] = authorised[j] + 1,
           Parting(j)' = Parting(j), InTransit(j)' = InTransit(j), OnServer(j)' = OnServer(j),
           DescribedCopy(j)' = DescribedCopy(j)
    PROVE  LifecycleStep
<1>1. Permits(j)' = Permits(j) + 1
  BY DEF Permits
<1>2. Lifecycle!Enter(j, {"doubtful"}, "waiting")
  BY DEF Stage, Lifecycle!Enter
<1>3. Lifecycle!Authorise(j)
  BY <1>1, <1>2 DEF CountsOf, Permits, Parting, InTransit, OnServer, DescribedCopy, Lifecycle!Authorise
<1>4. QED
  BY <1>3 DEF LifecycleStep, Lifecycle!Next

(* The metadata of a copy arrives, for the first time or again.                     *)
LEMMA Describings ==
    ASSUME NEW j \in Jobs, \A k \in Jobs : Stage(k)' = Stage(k),
           \A k \in Jobs : k # j => CountsOf(k),
           Permits(j)' = Permits(j), Parting(j)' = Parting(j), InTransit(j)' = InTransit(j),
           OnServer(j)' = OnServer(j), OnServer(j) > 0, DescribedCopy(j)' = TRUE
    PROVE  LifecycleStep
<1>1. Lifecycle!Describe(j)
  BY DEF CountsOf, Permits, Parting, InTransit, OnServer, DescribedCopy, Stage, Lifecycle!Describe
<1>2. QED
  BY <1>1 DEF LifecycleStep, Lifecycle!Next

---------------------------------------------------------------------------
(* The numbers.                                                                   *)

(* Sets whose elements are told apart by their markers are as large.                *)
LEMMA Counted ==
    ASSUME NEW S, NEW T, IsFiniteSet(T), NEW f \in [S -> T],
           \A x, y \in S : f[x] = f[y] => x = y, \A t \in T : \E x \in S : f[x] = t
    PROVE  IsFiniteSet(S) /\ Cardinality(S) \in Nat /\ Cardinality(T) = Cardinality(S)
<1>1. f \in Bijection(S, T)
  BY DEF Bijection, Injection, Surjection, IsInjective
<1>2. f \in Injection(S, T)
  BY <1>1 DEF Bijection
<1>3. IsFiniteSet(S)
  BY <1>2, FS_Injection
<1>4. ExistsBijection(S, T)
  BY <1>1 DEF ExistsBijection
<1>5. Cardinality(T) = Cardinality(S)
  BY <1>3, <1>4, FS_Bijection
<1>6. QED
  BY <1>3, <1>5, FS_CardinalityType

LEMMA DisjointUnion ==
    ASSUME NEW S, NEW T, IsFiniteSet(S), IsFiniteSet(T), S \cap T = {}
    PROVE  IsFiniteSet(S \cup T) /\ Cardinality(S \cup T) = Cardinality(S) + Cardinality(T)
<1>1. Cardinality(S \cap T) = 0
  BY FS_EmptySet
<1>2. PICK m, n \in Nat : m = Cardinality(S) /\ n = Cardinality(T)
  BY FS_CardinalityType
<1>3. IsFiniteSet(S \cup T) /\ Cardinality(S \cup T) = Cardinality(S) + Cardinality(T) - 0
  BY <1>1, FS_Union
<1>4. Cardinality(S \cup T) = m + n
  BY <1>2, <1>3
<1>5. QED
  BY <1>2, <1>3, <1>4

(* Requests leaving, requests on their way and copies are as many as the            *)
(* permissions spent.                                                             *)
LEMMA Numbers ==
    ASSUME PublisherInv, NEW j \in Jobs
    PROVE  /\ IsFiniteSet(Leaving(j)) /\ IsFiniteSet(Transit(j)) /\ IsFiniteSet(Copies(j))
           /\ Parting(j) \in Nat /\ InTransit(j) \in Nat /\ OnServer(j) \in Nat
           /\ Cardinality(Spent(j)) = Parting(j) + InTransit(j) + OnServer(j)
<1> DEFINE left == {n \in Markers : \E v \in Leaving(j) : mem[v].marker = n}
           sent == {n \in Markers : \E q \in Transit(j) : q.marker = n}
           stored == {n \in Markers : \E r \in Copies(j) : recordings[r].marker = n}
           markerLeft == [v \in Leaving(j) |-> mem[v].marker]
           markerSent == [q \in Transit(j) |-> q.marker]
           markerStored == [r \in Copies(j) |-> recordings[r].marker]
<1>1. /\ SentOnce /\ OwnMarkers /\ wire \subseteq Request
      /\ \A r \in RemoteIds : recordings[r] \in Recording
      /\ minted \in 0..MaxMarkers /\ Markers = 1..MaxMarkers /\ MaxMarkers \in Nat
  BY MarkerFacts DEF PublisherInv, PublisherTypeOK, RemoteIds
<1>2. ASSUME NEW v \in Leaving(j)
      PROVE  v \in Owners /\ pc[v] = "post_send" /\ mem[v].marker \in Markers /\ Unsent(mem[v].marker)
  <2>1. v \in Owners /\ pc[v] = "post_send"
    BY DEF Leaving
  <2>2. mem[v].marker \in 1..minted /\ Unsent(mem[v].marker)
    BY <2>1, WorkerFacts DEF Knows, KnowsUnsent, Sending
  <2>3. QED
    BY <1>1, <2>1, <2>2
<1>3. sent \cap stored = {} /\ left \cap (sent \cup stored) = {}
  BY <1>1, <1>2 DEF Transit, Copies, SentOnce, Unsent
<1>4. left \cup (sent \cup stored) = Spent(j)
  BY <1>1 DEF Leaving, Transit, Copies, Spent, Leaves, Job
<1>5. IsFiniteSet(Markers)
  BY MarkerFacts, FS_Interval
<1>6. /\ markerLeft \in [Leaving(j) -> left] /\ markerSent \in [Transit(j) -> sent]
      /\ markerStored \in [Copies(j) -> stored]
  BY <1>1, <1>2 DEF Transit, Copies, Request, Recording
<1>7. /\ \A v, w \in Leaving(j) : markerLeft[v] = markerLeft[w] => v = w
      /\ \A q, p \in Transit(j) : markerSent[q] = markerSent[p] => q = p
      /\ \A r, n \in Copies(j) : markerStored[r] = markerStored[n] => r = n
  BY <1>1, <1>2 DEF Transit, Copies, SentOnce, OwnMarkers, Sending
<1>8. /\ \A n \in left : \E v \in Leaving(j) : markerLeft[v] = n
      /\ \A n \in sent : \E q \in Transit(j) : markerSent[q] = n
      /\ \A n \in stored : \E r \in Copies(j) : markerStored[r] = n
  OBVIOUS
<1>9. left \subseteq Markers /\ sent \subseteq Markers /\ stored \subseteq Markers
  OBVIOUS
<1> HIDE DEF left, sent, stored, markerLeft, markerSent, markerStored
<1>10. IsFiniteSet(left) /\ IsFiniteSet(sent) /\ IsFiniteSet(stored)
  BY <1>5, <1>9, FS_Subset
<1>11. IsFiniteSet(Leaving(j)) /\ Parting(j) \in Nat /\ Cardinality(left) = Parting(j)
  BY <1>6, <1>7, <1>8, <1>10, Counted DEF Parting
<1>12. IsFiniteSet(Transit(j)) /\ InTransit(j) \in Nat /\ Cardinality(sent) = InTransit(j)
  BY <1>6, <1>7, <1>8, <1>10, Counted DEF InTransit
<1>13. IsFiniteSet(Copies(j)) /\ OnServer(j) \in Nat /\ Cardinality(stored) = OnServer(j)
  BY <1>6, <1>7, <1>8, <1>10, Counted DEF OnServer
<1>14. IsFiniteSet(sent \cup stored) /\ Cardinality(sent \cup stored) = InTransit(j) + OnServer(j)
  BY <1>3, <1>10, <1>12, <1>13, DisjointUnion
<1>15. Cardinality(Spent(j)) = Parting(j) + (InTransit(j) + OnServer(j))
  <2>1. Cardinality(left \cup (sent \cup stored)) = Cardinality(left) + Cardinality(sent \cup stored)
    BY <1>3, <1>10, <1>14, DisjointUnion
  <2>2. QED
    BY <1>4, <1>11, <1>14, <2>1
<1>16. QED
  BY <1>11, <1>12, <1>13, <1>15

(* Whoever may still upload, or is about to requeue, finds a permit.               *)
LEMMA PermitsLeft ==
    ASSUME DuplicateInv, NEW j \in Jobs,
           Pending(j) \/ \E w \in Owners : pc[w] \in Requeuing /\ mem[w].job = j
    PROVE  Permits(j) > 0
<1>1. /\ Parting(j) \in Nat /\ InTransit(j) \in Nat /\ OnServer(j) \in Nat
      /\ Cardinality(Spent(j)) = Parting(j) + InTransit(j) + OnServer(j)
  BY Numbers DEF DuplicateInv
<1>2. authorised[j] \in Nat
  BY DEF DuplicateInv, PublisherInv, PublisherTypeOK
<1>3. IsFiniteSet(Requeuers(j)) /\ Cardinality(Requeuers(j)) \in Nat
  BY FS_CardinalityType DEF DuplicateInv, Permitted
<1>4. Cardinality(Spent(j)) + Cardinality(Requeuers(j)) + (IF Pending(j) THEN 1 ELSE 0)
         <= 1 + authorised[j]
  BY DEF DuplicateInv, Permitted
<1>5. CASE Pending(j)
  BY <1>1, <1>2, <1>3, <1>4, <1>5 DEF Permits
<1>6. CASE \E w \in Owners : pc[w] \in Requeuing /\ mem[w].job = j
  <2>1. Requeuers(j) # {}
    BY <1>6 DEF Requeuers
  <2>2. Cardinality(Requeuers(j)) # 0
    BY <1>3, <2>1, FS_EmptySet
  <2>3. PICK l, t, c, n, a \in Nat : /\ l = Parting(j) /\ t = InTransit(j) /\ c = OnServer(j)
                                  /\ n = Cardinality(Requeuers(j)) /\ a = authorised[j]
    BY <1>1, <1>2, <1>3
  <2>4. l + t + c + n + (IF Pending(j) THEN 1 ELSE 0) <= 1 + a /\ n # 0
    BY <1>1, <1>4, <2>2, <2>3
  <2>5. 1 + a - l - t - c > 0
    BY <2>4
  <2>6. QED
    BY <2>3, <2>5 DEF Permits
<1>7. QED
  BY <1>5, <1>6

(* A row that knows its copy has one on the server.                                *)
LEMMA CopyCounts ==
    ASSUME PublisherInv, NEW j \in Jobs, NEW n \in RemoteIds, recordings[n].job = j
    PROVE  /\ OnServer(j) > 0
           /\ recordings[n].patched => DescribedCopy(j)
<1>1. n \in Copies(j)
  BY DEF Copies
<1>2. IsFiniteSet(Copies(j)) /\ OnServer(j) \in Nat
  BY Numbers
<1>3. OnServer(j) # 0
  BY <1>1, <1>2, FS_EmptySet DEF OnServer
<1>4. QED
  BY <1>1, <1>2, <1>3 DEF DescribedCopy

---------------------------------------------------------------------------
(* Steps that neither send, store nor describe.                                    *)

(* Those about to leave stay so.                                                  *)
LEMMA SameParting ==
    ASSUME SameLeavers
    PROVE  \A j \in Jobs : Leaving(j)' = Leaving(j) /\ Parting(j)' = Parting(j)
<1>1. ASSUME NEW j \in Jobs PROVE Leaving(j)' = Leaving(j)
  BY DEF Leaving, SameLeavers, Stays, Job
<1>2. QED
  BY <1>1 DEF Parting

(* Where senders, requests, copies and permissions stay, all numbers stay.          *)
LEMMA SameCounts ==
    ASSUME UNCHANGED <<wire, recordings>>, SameLeavers
    PROVE  \A j \in Jobs : /\ Parting(j)' = Parting(j) /\ InTransit(j)' = InTransit(j)
                           /\ OnServer(j)' = OnServer(j)
                           /\ DescribedCopy(j)' = DescribedCopy(j)
                           /\ authorised'[j] = authorised[j] => CountsOf(j)
<1>1. \A j \in Jobs : Transit(j)' = Transit(j) /\ Copies(j)' = Copies(j)
  BY DEF Transit, Copies, RemoteIds
<1>2. \A j \in Jobs : InTransit(j)' = InTransit(j) /\ OnServer(j)' = OnServer(j)
  BY <1>1 DEF InTransit, OnServer
<1>3. \A j \in Jobs : DescribedCopy(j)' = DescribedCopy(j)
  BY <1>1 DEF DescribedCopy
<1>4. \A j \in Jobs : Parting(j)' = Parting(j)
  BY SameParting
<1>5. QED
  BY <1>2, <1>3, <1>4 DEF CountsOf, Permits

(* Where a valid row stands in the lifecycle.                                      *)
LEMMA StageOfRow ==
    ASSUME NEW r, RowOK(r)
    PROVE  /\ r.state = "queued" => StageOf(r) = "waiting"
           /\ r.state = "transferring" => StageOf(r) = "sending" /\ r.intent = "post"
           /\ r.state = "uncertain" => StageOf(r) = "doubtful" /\ r.intent = "reconcile"
           /\ r.state = "metadata_pending" => StageOf(r) = "uploaded" /\ r.intent = "patch"
           /\ r.state = "published" => StageOf(r) = "published"
<1>1. PhaseCoherent(r)
  BY DEF RowOK
<1>2. r.state = "queued" => StageOf(r) = "waiting"
  <2>1. r.state = "queued" => r.intent = "post"
    BY <1>1 DEF PhaseCoherent
  <2>2. QED
    BY <2>1 DEF StageOf, ResumeStage
<1>3. r.state = "transferring" => StageOf(r) = "sending" /\ r.intent = "post"
  <2>1. r.state = "transferring" => r.intent = "post"
    BY <1>1 DEF PhaseCoherent
  <2>2. QED
    BY <2>1 DEF StageOf, ResumeStage
<1>4. r.state = "uncertain" => StageOf(r) = "doubtful" /\ r.intent = "reconcile"
  <2>1. r.state = "uncertain" => r.intent = "reconcile"
    BY <1>1 DEF PhaseCoherent
  <2>2. QED
    BY <2>1 DEF StageOf, ResumeStage
<1>5. r.state = "metadata_pending" => StageOf(r) = "uploaded" /\ r.intent = "patch"
  <2>1. r.state = "metadata_pending" => r.intent = "patch"
    BY <1>1 DEF PhaseCoherent
  <2>2. QED
    BY <2>1 DEF StageOf, ResumeStage
<1>6. r.state = "published" => StageOf(r) = "published"
  BY DEF StageOf, ResumeStage
<1>7. QED
  BY <1>2, <1>3, <1>4, <1>5, <1>6

(* A row that is blocked or missing stands where its resume intent would take it.   *)
LEMMA StageOfStopped ==
    ASSUME NEW r, r.state \in {"blocked", "missing"}
    PROVE  /\ r.intent = "post" => StageOf(r) = "waiting"
           /\ r.intent = "reconcile" => StageOf(r) = "doubtful"
           /\ r.intent \notin {"post", "reconcile"} => StageOf(r) = "uploaded"
<1>1. r.state \notin {"absent", "forgotten", "transferring", "published", "local_removed"}
  OBVIOUS
<1>2. r.intent = "post" => StageOf(r) = "waiting"
  BY <1>1 DEF StageOf, ResumeStage
<1>3. r.intent = "reconcile" => StageOf(r) = "doubtful"
  BY <1>1 DEF StageOf, ResumeStage
<1>4. r.intent \notin {"post", "reconcile"} => StageOf(r) = "uploaded"
  BY <1>1 DEF StageOf, ResumeStage
<1>5. QED
  BY <1>2, <1>3, <1>4

(* A row that is left alone keeps its stage; one that is doubted becomes doubtful.  *)
LEMMA StageOfQuiet ==
    ASSUME NEW r, NEW s, Quiet(r, s)
    PROVE  StageOf(s) = StageOf(r) \/ (StageOf(r) = "sending" /\ StageOf(s) = "doubtful")
<1>1. CASE Still(r, s)
  <2>1. s.state = r.state /\ s.intent = r.intent
    BY <1>1 DEF Still
  <2>2. StageOf(s) = StageOf(r)
    BY <2>1, Zenon DEF StageOf, ResumeStage
  <2>3. QED
    BY <2>2
<1>2. CASE Doubted(r, s)
  <2>1. r.state = "transferring" /\ s.state = "uncertain" /\ s.intent = "reconcile"
    BY <1>2 DEF Doubted
  <2>2. StageOf(r) = "sending"
    BY <2>1 DEF StageOf, ResumeStage
  <2>3. StageOf(s) = "doubtful"
    BY <2>1 DEF StageOf, ResumeStage
  <2>4. QED
    BY <2>2, <2>3
<1>3. QED
  BY <1>1, <1>2 DEF Quiet

(* Rows are valid before and after a step.                                         *)
LEMMA RowsOK ==
    ASSUME PublisherInv, PublisherInv', NEW j \in Jobs
    PROVE  /\ jobs[j].state \in LiveStates => RowOK(jobs[j])
           /\ jobs'[j].state \in LiveStates => RowOK(jobs'[j])
<1>1. (\A k \in Jobs : Exists(k) => RowOK(jobs[k]))'
  BY DEF PublisherInv, StoreInv, RowsValid
<1>2. \A k \in Jobs : Exists(k) => RowOK(jobs[k])
  BY DEF PublisherInv, StoreInv, RowsValid
<1>3. QED
  BY <1>1, <1>2 DEF Exists

(* What a transaction on one row leaves of the others.                              *)
LEMMA OthersStay ==
    ASSUME NEW j \in Jobs, OthersSame(j)
    PROVE  \A k \in Jobs : k # j => Stage(k)' = Stage(k)
BY DEF OthersSame, Stage

(* Rows that are left alone or doubted.                                            *)
LEMMA QuietStep ==
    ASSUME CountsKept, \A j \in Jobs : Quiet(jobs[j], jobs'[j]) \/ Stage(j)' = Stage(j)
    PROVE  LifecycleStep
<1>1. ASSUME NEW j \in Jobs
      PROVE  Stage(j)' = Stage(j) \/ (Stage(j) = "sending" /\ Stage(j)' = "doubtful")
  BY StageOfQuiet DEF Stage
<1>2. QED
  BY <1>1, Doubts

(* The same for a transaction on one row.                                          *)
LEMMA QuietRow ==
    ASSUME CountsKept, NEW j \in Jobs, OthersSame(j),
           Quiet(jobs[j], jobs'[j]) \/ Stage(j)' = Stage(j)
    PROVE  LifecycleStep
BY QuietStep, OthersStay

(* A worker gives its row up, blocked or missing: an upload it still held was       *)
(* never sent or came to nothing, and may be tried again.                          *)
LEMMA GivenUp ==
    ASSUME PublisherInv, PublisherInv', CountsKept, NEW w \in Owners, pc[w] \in Working, NEW gen,
           Block(Job(w), w, gen) \/ MarkMissing(Job(w), w, gen)
    PROVE  LifecycleStep
<1>1. PICK j \in Jobs : j = Job(w) /\ StoreInv /\ Remembers(w)
  BY WorkerFacts
<1>2. PICK r, s : r = jobs[j] /\ s = jobs'[j]
  OBVIOUS
<1>3. PICK target \in {"blocked", "missing"} :
         Transition(j, w, gen, LiveStates, target, NoRemote, NoMarker, "none")
  BY <1>1 DEF Block, MarkMissing
<1>4. target \in LiveStates
  BY DEF LiveStates
<1>5. /\ OthersSame(j) /\ r.owner = w /\ RowOK(r) /\ s.state = target
      /\ s.intent = IntentIn(target, r.intent)
  BY <1>1, <1>2, <1>3, <1>4, TransitionEffect
<1>6. s.intent = r.intent
  BY <1>5 DEF IntentIn
<1>7. r.state \in {"transferring", "queued", "uncertain", "metadata_pending"}
  BY <1>1, <1>2, <1>5 DEF Remembers, Held
<1>8. CASE r.state = "transferring"
  <2>1. StageOf(r) = "sending" /\ StageOf(s) = "waiting"
    BY <1>5, <1>6, <1>8, StageOfRow, StageOfStopped
  <2>2. Stage(j) = "sending" /\ Stage(j)' = "waiting"
    BY <1>2, <2>1 DEF Stage
  <2>3. QED
    BY <1>5, <2>2, OthersStay, FreeMoves
<1>9. CASE r.state # "transferring"
  <2>1. r.state = "queued" => r.intent = "post"
    BY <1>5 DEF RowOK, PhaseCoherent
  <2>2. StageOf(s) = StageOf(r)
    BY <1>5, <1>6, <1>7, <1>9, <2>1, StageOfRow, StageOfStopped
  <2>3. Stage(j)' = Stage(j)
    BY <1>2, <2>2 DEF Stage
  <2>4. QED
    BY <1>5, <2>3, QuietRow
<1>10. QED
  BY <1>8, <1>9

(* An upload begins: its row is waiting and holds a permit.                         *)
LEMMA Begun ==
    ASSUME DuplicateInv, PublisherInv', CountsKept, NEW w \in Owners, PostBegin(w)
    PROVE  LifecycleStep
<1>1. PICK j \in Jobs : j = Job(w) /\ StoreInv
  BY WorkerFacts DEF DuplicateInv
<1>2. PICK r, s : r = jobs[j] /\ s = jobs'[j]
  OBVIOUS
<1>3. BeginTransfer(j, w, Gen(w), minted + 1) /\ "transferring" \in LiveStates
  BY <1>1 DEF PostBegin, LiveStates
<1>4. OthersSame(j) /\ RowOK(r) /\ RowOK(s) /\ r.state = "queued" /\ s.state = "transferring"
  BY <1>1, <1>2, <1>3, TransitionEffect DEF BeginTransfer
<1>5. StageOf(r) = "waiting" /\ StageOf(s) = "sending"
  BY <1>4, StageOfRow
<1>6. Stage(j) = "waiting" /\ Stage(j)' = "sending"
  BY <1>2, <1>5 DEF Stage
<1>7. Pending(j)
  BY <1>2, <1>4 DEF Pending
<1>8. Permits(j) > 0
  BY <1>7, PermitsLeft
<1>9. QED
  BY <1>4, <1>6, <1>8, OthersStay, PermittedMoves

(* A remote ID is accepted: the server holds a copy.                               *)
LEMMA Learnt ==
    ASSUME PublisherInv, PublisherInv', CountsKept, NEW w \in Owners, Accept(w) \/ ReconcileAccept(w)
    PROVE  LifecycleStep
<1>1. PICK j \in Jobs : j = Job(w) /\ StoreInv /\ Remembers(w) /\ Knows(w)
  BY WorkerFacts
<1>2. PICK r, s : r = jobs[j] /\ s = jobs'[j]
  OBVIOUS
<1>3. PICK source \in {"transferring", "uncertain"} : AcceptTransfer(j, w, Gen(w), source, mem[w].remote)
  BY <1>1 DEF Accept, ReconcileAccept
<1>4. "metadata_pending" \in LiveStates
  BY DEF LiveStates
<1>5. /\ OthersSame(j) /\ RowOK(r) /\ RowOK(s) /\ r.owner = w
      /\ r.state = source /\ s.state = "metadata_pending"
  BY <1>1, <1>2, <1>3, <1>4, TransitionEffect DEF AcceptTransfer
<1>6. StageOf(r) \in {"sending", "doubtful"} /\ StageOf(s) = "uploaded"
  BY <1>5, StageOfRow
<1>7. HasCopy(mem[w].remote, r.token)
  <2>1. CASE Accept(w)
    BY <1>1, <1>2, <1>5, <2>1 DEF Accept, Knows, Remembers, Held, Sending
  <2>2. CASE ReconcileAccept(w)
    BY <1>1, <1>2, <1>5, <2>2 DEF ReconcileAccept, Knows, Remembers, Held
  <2>3. QED
    BY <2>1, <2>2
<1>8. PICK n \in RemoteIds : recordings[n].marker = r.token
  BY <1>7 DEF HasCopy
<1>9. recordings[n].job = j
  BY <1>2, <1>8 DEF PublisherInv, RequestsDescribed, Describes
<1>10. OnServer(j) > 0
  BY <1>8, <1>9, CopyCounts
<1>11. Stage(j) \in {"sending", "doubtful"} /\ Stage(j)' = "uploaded"
  BY <1>2, <1>6 DEF Stage
<1>12. QED
  BY <1>5, <1>10, <1>11, OthersStay, KnownMoves

(* A row is published: the copy it names is described.                             *)
LEMMA Published ==
    ASSUME PublisherInv, PublisherInv', CountsKept, NEW w \in Owners, PatchDone(w)
    PROVE  LifecycleStep
<1>1. PICK j \in Jobs : j = Job(w) /\ StoreInv /\ Remembers(w)
  BY WorkerFacts
<1>2. PICK r, s : r = jobs[j] /\ s = jobs'[j]
  OBVIOUS
<1>3. pc[w] = "patch_done" /\ MarkPublished(j, w, Gen(w)) /\ "published" \in LiveStates
  BY <1>1 DEF PatchDone, LiveStates
<1>4. /\ OthersSame(j) /\ RowOK(r) /\ RowOK(s) /\ r.owner = w
      /\ s.state = "published" /\ s.remote = r.remote
  BY <1>1, <1>2, <1>3, TransitionEffect DEF MarkPublished
<1>5. r.state \in {"queued", "uncertain", "metadata_pending"}
  BY <1>1, <1>2, <1>3, <1>4 DEF Remembers, Held, Working, Steps, Sending
<1>6. r.remote # NoRemote
  BY <1>4 DEF RowOK, PhaseCoherent
<1>7. r.state = "metadata_pending"
  BY <1>4, <1>5, <1>6 DEF RowOK, PhaseCoherent
<1>8. StageOf(r) = "uploaded" /\ StageOf(s) = "published"
  BY <1>4, <1>7, StageOfRow
<1>9. IsDescribed(r.remote) /\ HasCopy(r.remote, r.token)
  BY <1>1, <1>2, <1>3, <1>4, <1>6 DEF Remembers, Held, PublisherInv, RowsLinked
<1>10. PICK n \in RemoteIds : recordings[n].marker = r.token /\ recordings[n].patched
  BY <1>9 DEF HasCopy, IsDescribed
<1>11. recordings[n].job = j
  BY <1>2, <1>10 DEF PublisherInv, RequestsDescribed, Describes
<1>12. DescribedCopy(j)
  BY <1>10, <1>11, CopyCounts
<1>13. Stage(j) = "uploaded" /\ Stage(j)' = "published"
  BY <1>2, <1>8 DEF Stage
<1>14. QED
  BY <1>4, <1>12, <1>13, OthersStay, KnownMoves

(* A requeue takes a doubtful row back to POST under the permit its worker holds.   *)
LEMMA Requeued ==
    ASSUME DuplicateInv, PublisherInv', CountsKept, NEW w \in Owners, RequeueRetry(w)
    PROVE  LifecycleStep
<1>1. PICK j \in Jobs : j = Job(w) /\ StoreInv /\ Remembers(w)
  BY WorkerFacts DEF DuplicateInv
<1>2. PICK r, s : r = jobs[j] /\ s = jobs'[j]
  OBVIOUS
<1>3. pc[w] = "requeue_retry" /\ Retry(j, w, Gen(w)) /\ w \in FencedClients
  BY <1>1 DEF RequeueRetry, FencedClients
<1>4. r.owner = w /\ OthersSame(j) /\ Resumption(r, s, RetryTarget(r))
  BY <1>1, <1>2, <1>3, RetryEffect
<1>5. r.state \in {"queued", "uncertain", "metadata_pending"}
  BY <1>1, <1>2, <1>3, <1>4 DEF Remembers, Held, Working, Steps, Sending
<1>6. s.state = IF r.state = "uncertain" THEN "queued" ELSE r.state
  BY <1>4, <1>5 DEF Resumption, RetryTarget
<1>7. RowOK(r) /\ RowOK(s)
  BY <1>2, <1>5, <1>6, RowsOK DEF DuplicateInv, LiveStates
<1>8. CASE r.state = "uncertain"
  <2>1. StageOf(r) = "doubtful" /\ StageOf(s) = "waiting"
    BY <1>6, <1>7, <1>8, StageOfRow
  <2>2. Stage(j) = "doubtful" /\ Stage(j)' = "waiting"
    BY <1>2, <2>1 DEF Stage
  <2>3. pc[w] \in Requeuing /\ mem[w].job = j
    BY <1>1, <1>3 DEF Requeuing, Job
  <2>4. Permits(j) > 0
    BY <2>3, PermitsLeft
  <2>5. QED
    BY <1>4, <2>2, <2>4, OthersStay, PermittedMoves
<1>9. CASE r.state # "uncertain"
  <2>1. StageOf(s) = StageOf(r)
    BY <1>5, <1>6, <1>7, <1>9, StageOfRow
  <2>2. Stage(j)' = Stage(j)
    BY <1>2, <2>1 DEF Stage
  <2>3. QED
    BY <1>4, <2>2, QuietRow
<1>10. QED
  BY <1>8, <1>9

(* Only the last look at the lease brings a sender about to leave, and only its next *)
(* step takes it away.                                                             *)
LEMMA LeaversSame ==
    ASSUME PublisherInv, NEW w \in Owners, Worker(w), ~ PostRenew(w), ~ Departs(w)
    PROVE  SameLeavers
<1>1. CASE SettleNotSent(w)
  <2>1. pc \in [Owners -> Steps]
    BY DEF PublisherInv, PublisherTypeOK
  <2>2. pc[w] = "post_settle" /\ mem' = mem /\ pc' = [pc EXCEPT ![w] = "requeue_claim"]
    BY <1>1 DEF SettleNotSent, StoreStep, Goto
  <2>3. QED
    BY <2>1, <2>2 DEF SameLeavers, Stays
<1>2. CASE ~ SettleNotSent(w)
  <2>1. Stays(w) /\ Elsewhere(w)
    BY <1>2, WorkerFrame
  <2>2. QED
    BY <2>1 DEF SameLeavers, Stays, Elsewhere
<1>3. QED
  BY <1>1, <1>2

(* A worker that neither sends nor patches leaves requests and copies alone.        *)
LEMMA WorkerLeaves ==
    ASSUME NEW w \in Owners, Worker(w), ~ PostRenew(w), ~ PostSend(w), ~ PatchSend(w), ~ PatchFails(w)
    PROVE  UNCHANGED <<wire, recordings, authorised>>
<1> DEFINE Goal == UNCHANGED <<wire, recordings, authorised>>
<1>1. \A step : StoreStep(w, step) => Goal
  BY DEF StoreStep
<1>2. \A j, step : Fence(w, j, step) => Goal
  BY DEF Fence
<1>3. UNCHANGED publisherVars => Goal
  BY DEF publisherVars
<1> HIDE DEF Goal
<1>4. ASSUME NEW j \in Jobs, Start(w, j) \/ StartNothing(w, j) \/ StartBlock(w, j)
      PROVE  Goal
  BY <1>2, <1>3, <1>4 DEF Start, StartNothing, StartBlock
<1>5. Reclaim(w) \/ RequeueClaim(w) => Goal
  BY <1>1, <1>2 DEF Reclaim, RequeueClaim
<1>6. (BlockConfiguration(w) \/ Stop(w) \/ LocalFailure(w) \/ MetadataFailure(w)
       \/ PostStage(w) \/ Accept(w) \/ SettleUnknown(w) \/ SettleRefused(w) \/ SettleNotSent(w))
       => Goal
  BY <1>1 DEF BlockConfiguration, Stop, LocalFailure, MetadataFailure, PostStage,
              Accept, SettleUnknown, SettleRefused, SettleNotSent
<1>7. (RequeueRetry(w) \/ RequeueSchedule(w) \/ ReconcileUnavailable(w)
       \/ ReconcileNoMatch(w) \/ ReconcileTags(w) \/ ReconcileAccept(w) \/ PatchDone(w))
       => Goal
  BY <1>1 DEF RequeueRetry, RequeueSchedule, ReconcileUnavailable, ReconcileNoMatch,
              ReconcileTags, ReconcileAccept, PatchDone
<1>8. Heartbeat(w) \/ RefreshPath(w) => Goal
  BY <1>3 DEF Heartbeat, RefreshPath
<1>9. ResolveTags(w) \/ PostBegin(w) \/ UploadTimeout(w) \/ Reconcile(w) \/ PatchStage(w) => Goal
  BY DEF Goal, ResolveTags, PostBegin, UploadTimeout, Reconcile, PatchStage
<1>10. Goal
  BY <1>4, <1>5, <1>6, <1>7, <1>8, <1>9 DEF Worker, Post, ReconcileOrPatch
<1>11. QED
  BY <1>10 DEF Goal

(* A row written to uncertain was sending, or doubtful already.                     *)
LEMMA Uncertain ==
    ASSUME PublisherInv, PublisherInv', CountsKept, NEW w \in Owners,
           MoveToUncertain(Job(w), w, Gen(w)) \/ TerminalUncertain(Job(w), w, Gen(w))
    PROVE  LifecycleStep
<1>1. PICK j \in Jobs : j = Job(w) /\ StoreInv
  BY WorkerFacts
<1>2. PICK r, s : r = jobs[j] /\ s = jobs'[j]
  OBVIOUS
<1>3. PICK source \in {"transferring", "uncertain"}, requested \in {"none", "reconcile"} :
         Transition(j, w, Gen(w), {source}, "uncertain", NoRemote, NoMarker, requested)
  BY <1>1 DEF MoveToUncertain, TerminalUncertain
<1>4. "uncertain" \in LiveStates
  BY DEF LiveStates
<1>5. OthersSame(j) /\ RowOK(r) /\ RowOK(s) /\ r.state = source /\ s.state = "uncertain"
  BY <1>1, <1>2, <1>3, <1>4, TransitionEffect
<1>6. StageOf(r) \in {"sending", "doubtful"} /\ StageOf(s) = "doubtful"
  BY <1>5, StageOfRow
<1>7. Stage(j) \in {"sending", "doubtful"} /\ Stage(j)' = "doubtful"
  BY <1>2, <1>6 DEF Stage
<1>8. QED
  BY <1>5, <1>7, OthersStay, Doubts

(* The steps of a worker, but for sending and patching.                            *)
LEMMA WorkerImplements ==
    ASSUME DuplicateInv, PublisherInv', NEW w \in Owners, Worker(w),
           ~ PostRenew(w), ~ Departs(w), ~ PatchSend(w), ~ PatchFails(w)
    PROVE  LifecycleStep
<1> DEFINE Goal == LifecycleStep
           j == Job(w)  gen == Gen(w)
<1>1. /\ PublisherInv /\ StoreInv /\ j \in Jobs /\ Remembers(w)
      /\ clock \in Nat /\ \A t \in 1..clock : t \in Nat
  BY WorkerFacts DEF DuplicateInv
<1>2. CountsKept
  <2>1. SameLeavers
    BY LeaversSame DEF DuplicateInv
  <2>2. ~ PostSend(w)
    BY DEF Departs
  <2>3. QED
    BY <2>1, <2>2, WorkerLeaves, SameCounts DEF CountsKept
<1>3. ASSUME \A k \in Jobs : Quiet(jobs[k], jobs'[k]) PROVE Goal
  BY <1>2, <1>3, QuietStep
<1>4. ASSUME NEW k \in Jobs, NEW any, NEW now \in Nat,
             ClaimJob(k, w, any, now) \/ ClaimNothing(k, any, now)
      PROVE  Goal
  <2>1. \A l \in Jobs : Quiet(jobs[l], jobs'[l])
    BY <1>1, <1>4, ClaimEffect, ClaimNothingEffect DEF Recovers, Quiet, Still
  <2>2. QED
    BY <1>3, <2>1
<1>5. ASSUME \/ Renew(j, w, gen) \/ ResolveReconciledTags(j, w, gen)
             \/ \E due : Schedule(j, w, gen, due)
      PROVE  Goal
  <2>1. OthersSame(j) /\ Quiet(jobs[j], jobs'[j])
    BY <1>1, <1>5, RenewEffect, TagsReconciledEffect, ScheduleEffect DEF Same, Quiet
  <2>2. QED
    BY <1>1, <1>2, <2>1, QuietRow
<1>6. UNCHANGED storeVars => Goal
  BY <1>3 DEF storeVars, Quiet, Still
<1>7. ASSUME Block(j, w, gen) \/ MarkMissing(j, w, gen), pc[w] \in Working
      PROVE  Goal
  BY <1>1, <1>2, <1>7, GivenUp
<1>8. MoveToUncertain(j, w, gen) \/ TerminalUncertain(j, w, gen) => Goal
  BY <1>1, <1>2, Uncertain
<1>9. PostBegin(w) => Goal
  BY <1>2, Begun
<1>10. Accept(w) \/ ReconcileAccept(w) => Goal
  BY <1>1, <1>2, Learnt
<1>11. PatchDone(w) => Goal
  BY <1>1, <1>2, Published
<1>12. RequeueRetry(w) => Goal
  BY <1>2, Requeued
<1> HIDE DEF Goal
<1>13. ASSUME NEW k \in Jobs, Start(w, k) \/ StartNothing(w, k) \/ StartBlock(w, k)
      PROVE  Goal
  <2>1. CASE Start(w, k) \/ StartNothing(w, k)
    <3>1. PICK now \in 1..clock : ClaimJob(k, w, FALSE, now) \/ ClaimNothing(k, FALSE, now)
      BY <2>1 DEF Start, StartNothing
    <3>2. QED
      BY <1>1, <1>4, <3>1
  <2>2. CASE StartBlock(w, k)
    <3>1. ClaimJob(k, w, TRUE, clock)
      BY <2>2 DEF StartBlock
    <3>2. QED
      BY <1>1, <1>4, <3>1
  <2>3. QED
    BY <1>13, <2>1, <2>2
<1>14. Reclaim(w) \/ RequeueClaim(w) => Goal
  BY <1>1, <1>4 DEF Reclaim, RequeueClaim
<1>15. BlockConfiguration(w) \/ LocalFailure(w) \/ SettleRefused(w) => Goal
  BY <1>7 DEF BlockConfiguration, LocalFailure, SettleRefused, Working, Steps
<1>16. ReconcileUnavailable(w) => Goal
  BY <1>5, <1>7 DEF ReconcileUnavailable, Working, Steps
<1>17. Stop(w) \/ UploadTimeout(w) => Goal
  BY <1>6 DEF Stop, UploadTimeout
<1>18. (MetadataFailure(w) \/ RequeueSchedule(w) \/ PostStage(w)
       \/ ReconcileTags(w) \/ Reconcile(w) \/ PatchStage(w) \/ Heartbeat(w))
       => Goal
  BY <1>5 DEF MetadataFailure, RequeueSchedule, PostStage, ReconcileTags, Reconcile,
              PatchStage, Heartbeat
<1>19. SettleUnknown(w) \/ SettleNotSent(w) \/ ReconcileNoMatch(w) => Goal
  BY <1>8 DEF SettleUnknown, SettleNotSent, ReconcileNoMatch
<1>20. RefreshPath(w) => Goal
  <2> SUFFICES ASSUME RefreshPath(w) PROVE Goal
    OBVIOUS
  <2>1. PICK path : Relink(j, w, gen, path)
    BY DEF RefreshPath
  <2>2. w \in FencedClients
    BY DEF FencedClients
  <2>3. jobs[j].owner = w /\ OthersSame(j) /\ (Same(jobs[j], jobs'[j]) \/ jobs[j].state = "missing")
    BY <1>1, <2>1, <2>2, RelinkEffect
  <2>4. pc[w] \in Working
    BY DEF RefreshPath, Working, Steps
  <2>5. jobs[j].state # "missing"
    BY <1>1, <2>3, <2>4 DEF Remembers, Held
  <2>6. QED
    BY <1>1, <1>2, <2>3, <2>5, QuietRow DEF Same, Quiet, Goal
<1>21. ResolveTags(w) => Goal
  <2> SUFFICES ASSUME ResolveTags(w) PROVE Goal
    OBVIOUS
  <2>1. CASE UNCHANGED storeVars
    BY <1>6, <2>1
  <2>2. CASE \E outcome, tags : UpdateTagStatus(j, w, gen, outcome, tags)
    <3>1. PICK k \in Jobs : k = j
      BY <1>1
    <3>2. PICK r, s : r = jobs[k] /\ s = jobs'[k]
      OBVIOUS
    <3>3. OthersSame(k) /\ s.state = "queued" /\ r.state = "queued" /\ s.intent = r.intent
      BY <1>1, <2>2, <3>1, <3>2, TagEffect
    <3>4. StageOf(s) = StageOf(r)
      BY <3>3 DEF StageOf
    <3>5. Stage(k)' = Stage(k)
      BY <3>2, <3>4 DEF Stage
    <3>6. QED
      BY <1>2, <3>3, <3>5, QuietRow DEF Goal
  <2>3. QED
    BY <2>1, <2>2 DEF ResolveTags
<1>22. Goal
  BY <1>9, <1>10, <1>11, <1>12, <1>13, <1>14, <1>15, <1>16, <1>17, <1>18, <1>19, <1>20, <1>21
     DEF Worker, Post, ReconcileOrPatch, Departs
<1>23. QED
  BY <1>22 DEF Goal

---------------------------------------------------------------------------
(* Steps that send, store or describe.                                            *)

(* A recording whose requests, copies and permissions stay.                        *)
LEMMA SameCountsOf ==
    ASSUME NEW k \in Jobs, Leaving(k)' = Leaving(k), Transit(k)' = Transit(k), Copies(k)' = Copies(k),
           \A n \in Copies(k) : recordings'[n].patched = recordings[n].patched,
           authorised'[k] = authorised[k]
    PROVE  CountsOf(k)
<1>1. Parting(k)' = Parting(k) /\ InTransit(k)' = InTransit(k) /\ OnServer(k)' = OnServer(k)
  BY DEF Parting, InTransit, OnServer
<1>2. DescribedCopy(k)' = DescribedCopy(k)
  BY DEF DescribedCopy
<1>3. QED
  BY <1>1, <1>2 DEF CountsOf, Permits

(* A row that is left alone keeps its stage.                                       *)
LEMMA StillStage ==
    ASSUME NEW j \in Jobs, OthersSame(j), Still(jobs[j], jobs'[j])
    PROVE  \A k \in Jobs : Stage(k)' = Stage(k)
<1>1. PICK r, s : r = jobs[j] /\ s = jobs'[j]
  OBVIOUS
<1>2. s.state = r.state /\ s.intent = r.intent
  BY <1>1 DEF Still
<1>3. StageOf(s) = StageOf(r)
  BY <1>2, Zenon DEF StageOf
<1>4. Stage(j)' = Stage(j)
  BY <1>1, <1>3 DEF Stage
<1>5. QED
  BY <1>4, OthersStay

(* A PATCH describes the copy it names, if there is one.                           *)
LEMMA PatchDescribes ==
    ASSUME PublisherInv, NEW remote, Patched(remote), UNCHANGED <<wire, authorised>>, SameLeavers,
           \A k \in Jobs : Stage(k)' = Stage(k)
    PROVE  LifecycleStep
<1>1. /\ RemoteIds' = RemoteIds
      /\ \A n \in RemoteIds : recordings'[n].job = recordings[n].job
      /\ remote \in RemoteIds => recordings'[remote].patched
  BY PatchedCopies DEF SameCopies
<1>2. \A n \in RemoteIds : n # remote => recordings'[n] = recordings[n]
  BY DEF Patched, RemoteIds
<1>3. \A k \in Jobs : Leaving(k)' = Leaving(k) /\ Transit(k)' = Transit(k) /\ Copies(k)' = Copies(k)
  BY <1>1, SameParting DEF Transit, Copies
<1>4. ASSUME NEW k \in Jobs, remote \notin Copies(k)
      PROVE  CountsOf(k)
  <2>1. \A n \in Copies(k) : recordings'[n].patched = recordings[n].patched
    BY <1>2, <1>4 DEF Copies
  <2>2. QED
    BY <1>3, <2>1, SameCountsOf
<1>5. CASE remote \in RemoteIds
  <2>1. recordings[remote] \in Recording
    BY <1>5 DEF PublisherInv, PublisherTypeOK, RemoteIds
  <2>2. PICK j \in Jobs : recordings[remote].job = j
    BY <2>1 DEF Recording
  <2>3. \A k \in Jobs : k # j => CountsOf(k)
    BY <1>4, <2>2 DEF Copies
  <2>4. /\ Parting(j)' = Parting(j) /\ InTransit(j)' = InTransit(j) /\ OnServer(j)' = OnServer(j)
    BY <1>3 DEF Parting, InTransit, OnServer
  <2>5. Permits(j)' = Permits(j)
    BY <2>4 DEF Permits
  <2>6. OnServer(j) > 0
    BY <1>5, <2>2, CopyCounts
  <2>7. remote \in Copies(j)' /\ recordings'[remote].patched
    BY <1>1, <1>3, <1>5, <2>2 DEF Copies
  <2>8. DescribedCopy(j)'
    BY <2>7 DEF DescribedCopy
  <2>9. DescribedCopy(j)' = TRUE
    BY <2>8 DEF DescribedCopy
  <2>10. QED
    BY <2>3, <2>4, <2>5, <2>6, <2>9, Describings
<1>6. CASE remote \notin RemoteIds
  <2>1. \A k \in Jobs : CountsOf(k)
    BY <1>4, <1>6 DEF Copies
  <2>2. QED
    BY <2>1, Stutters DEF CountsKept
<1>7. QED
  BY <1>5, <1>6

(* A PATCH that succeeds, fails, or fails after it was applied.                     *)
LEMMA PatchImplements ==
    ASSUME PublisherInv, PublisherInv', NEW w \in Owners, PatchSend(w) \/ PatchFails(w)
    PROVE  LifecycleStep
<1>1. PICK j \in Jobs : j = Job(w) /\ StoreInv /\ Remembers(w)
  BY WorkerFacts
<1>2. UNCHANGED <<wire, authorised>> /\ pc[w] = "patch_send" /\ SameLeavers
  <2>1. UNCHANGED <<wire, authorised>> /\ pc[w] = "patch_send"
    BY DEF PatchSend, PatchFails
  <2>2. ~ PostRenew(w) /\ ~ Departs(w) /\ Worker(w)
    BY <2>1 DEF PostRenew, Departs, PostSend, Worker, ReconcileOrPatch
  <2>3. QED
    BY <2>1, <2>2, LeaversSame
<1>3. UNCHANGED recordings => CountsKept
  BY <1>2, SameCounts DEF CountsKept
<1>4. CASE PatchSend(w)
  <2>1. Patched(mem[w].remote) /\ UNCHANGED jobs
    BY <1>4 DEF PatchSend, storeVars
  <2>2. \A k \in Jobs : Stage(k)' = Stage(k)
    BY <2>1 DEF Stage
  <2>3. QED
    BY <1>2, <2>1, <2>2, PatchDescribes
<1>5. CASE \E due : Schedule(j, w, Gen(w), due) /\ (UNCHANGED recordings \/ Patched(mem[w].remote))
  <2>1. jobs[j].owner = w /\ OthersSame(j) /\ Quiet(jobs[j], jobs'[j])
    BY <1>1, <1>5, ScheduleEffect
  <2>2. jobs[j].state # "transferring"
    BY <1>1, <1>2, <2>1 DEF Remembers, Held, Working, Steps, Sending
  <2>3. Still(jobs[j], jobs'[j])
    BY <2>1, <2>2 DEF Quiet, Doubted
  <2>4. \A k \in Jobs : Stage(k)' = Stage(k)
    BY <2>1, <2>3, StillStage
  <2>5. CASE UNCHANGED recordings
    BY <1>3, <2>4, <2>5, Stutters
  <2>6. CASE Patched(mem[w].remote)
    BY <1>2, <2>4, <2>6, PatchDescribes
  <2>7. QED
    BY <1>5, <2>5, <2>6
<1>6. CASE Block(Job(w), w, Gen(w)) /\ UNCHANGED recordings
  <2>1. pc[w] \in Working
    BY <1>2 DEF Working, Steps
  <2>2. QED
    BY <1>3, <1>6, <2>1, GivenUp
<1>7. QED
  BY <1>1, <1>4, <1>5, <1>6 DEF PatchFails

(* A worker that passed its last look at the lease sets its upload out: its row is  *)
(* sending and holds a permit.                                                    *)
LEMMA RenewImplements ==
    ASSUME DuplicateInv, PublisherInv', NEW w \in Owners, PostRenew(w)
    PROVE  LifecycleStep
<1>1. PICK j \in Jobs : j = Job(w) /\ StoreInv /\ Remembers(w)
  BY WorkerFacts DEF DuplicateInv
<1>2. /\ pc[w] = "post_renew" /\ pc' = [pc EXCEPT ![w] = "post_send"] /\ Renew(j, w, Gen(w))
      /\ UNCHANGED <<mem, wire, recordings, authorised>>
  BY <1>1 DEF PostRenew, StoreStep, Goto
<1>3. jobs[j].owner = w /\ Same(jobs[j], jobs'[j]) /\ OthersSame(j)
  BY <1>1, <1>2, RenewEffect
<1>4. \A k \in Jobs : Stage(k)' = Stage(k)
  BY <1>3, StillStage DEF Same
<1>5. /\ pc \in [Owners -> Steps] /\ authorised \in [Jobs -> Nat] /\ authorised' = authorised
  BY <1>2 DEF DuplicateInv, PublisherInv, PublisherTypeOK
<1>6. \A k \in Jobs : Transit(k)' = Transit(k) /\ Copies(k)' = Copies(k)
  BY <1>2 DEF Transit, Copies, RemoteIds
<1>7. Leaving(j)' = Leaving(j) \cup {w} /\ w \notin Leaving(j)
  BY <1>1, <1>2, <1>5 DEF Leaving, Job
<1>8. \A k \in Jobs : k # j => Leaving(k)' = Leaving(k)
  BY <1>1, <1>2, <1>5 DEF Leaving, Job
<1>9. \A k \in Jobs : k # j => CountsOf(k)
  BY <1>2, <1>6, <1>8, SameCountsOf
<1>10. PICK r : r = jobs[j]
  OBVIOUS
<1>11. r.state = "transferring" /\ r.token = mem[w].marker
  BY <1>1, <1>2, <1>3, <1>10 DEF Remembers, Held, Sending, Working, Steps
<1>12. Permits(j) > 0
  <2>1. Unspent(mem[w].marker)
    BY <1>2, OwnUnspent DEF DuplicateInv, KnowsUnsent, Sending
  <2>2. Pending(j)
    BY <1>10, <1>11, <2>1 DEF Pending
  <2>3. QED
    BY <2>2, PermitsLeft
<1>13. Stage(j) = "sending"
  <2>1. StageOf(r) = "sending"
    BY <1>11 DEF StageOf
  <2>2. QED
    BY <1>10, <2>1 DEF Stage
<1>14. /\ IsFiniteSet(Leaving(j))
       /\ Parting(j) \in Nat /\ InTransit(j) \in Nat /\ OnServer(j) \in Nat
  BY Numbers DEF DuplicateInv
<1>15. Parting(j)' = Parting(j) + 1
  BY <1>7, <1>14, FS_AddElement DEF Parting
<1>16. InTransit(j)' = InTransit(j) /\ OnServer(j)' = OnServer(j)
  BY <1>6 DEF InTransit, OnServer
<1>17. DescribedCopy(j)' = DescribedCopy(j)
  BY <1>2, <1>6 DEF DescribedCopy
<1>18. QED
  BY <1>4, <1>5, <1>9, <1>12, <1>13, <1>14, <1>15, <1>16, <1>17, SetsOut

(* Its request leaves, whatever became of the row, or the connection fails before   *)
(* it does, or its sender stops.                                                  *)
LEMMA DepartImplements ==
    ASSUME PublisherInv, NEW w \in Owners, Departs(w)
    PROVE  LifecycleStep
<1>1. PICK j \in Jobs : j = Job(w) /\ Knows(w)
  BY WorkerFacts
<1>2. PICK q : q = [job |-> Job(w), marker |-> mem[w].marker, tags |-> mem[w].tags]
  OBVIOUS
<1>3. pc \in [Owners -> Steps] /\ mem \in [Owners -> Memory] /\ authorised \in [Jobs -> Nat]
  BY DEF PublisherInv, PublisherTypeOK
<1>4. /\ pc[w] = "post_send" /\ pc'[w] # "post_send"
      /\ \A v \in Owners \ {w} : pc'[v] = pc[v] /\ mem'[v] = mem[v]
      /\ UNCHANGED <<jobs, recordings, authorised>>
      /\ wire' = wire \/ wire' = wire \cup {q}
  BY <1>2, <1>3 DEF Departs, PostSend, Stop, StoreStep, Goto, storeVars
<1>5. q.job = j /\ q.marker = mem[w].marker
  BY <1>1, <1>2
<1>6. Unsent(q.marker)
  BY <1>1, <1>4, <1>5 DEF Knows, KnowsUnsent
<1>7. \A k \in Jobs : Stage(k)' = Stage(k)
  BY <1>4 DEF Stage
<1>8. \A k \in Jobs : Copies(k)' = Copies(k)
  BY <1>4 DEF Copies, RemoteIds
<1>9. Leaving(j)' = Leaving(j) \ {w} /\ w \in Leaving(j)
  BY <1>1, <1>4 DEF Leaving, Job
<1>10. \A k \in Jobs : k # j => Leaving(k)' = Leaving(k)
  BY <1>1, <1>4 DEF Leaving, Job
<1>11. \A k \in Jobs : k # j => Transit(k)' = Transit(k)
  BY <1>4, <1>5 DEF Transit
<1>12. \A k \in Jobs : k # j => CountsOf(k)
  BY <1>4, <1>8, <1>10, <1>11, SameCountsOf
<1>13. /\ IsFiniteSet(Leaving(j)) /\ IsFiniteSet(Transit(j))
       /\ Parting(j) \in Nat /\ InTransit(j) \in Nat /\ OnServer(j) \in Nat
  BY Numbers
<1>14. Parting(j)' = Parting(j) - 1
  BY <1>9, <1>13, FS_RemoveElement DEF Parting
<1>15. Parting(j) > 0
  <2>1. Parting(j) # 0
    BY <1>9, <1>13, FS_EmptySet DEF Parting
  <2>2. QED
    BY <1>13, <2>1
<1>16. InTransit(j)' = InTransit(j) + 1 \/ InTransit(j)' = InTransit(j)
  <2>1. CASE wire' = wire
    <3>1. Transit(j)' = Transit(j)
      BY <2>1 DEF Transit
    <3>2. QED
      BY <3>1 DEF InTransit
  <2>2. CASE wire' = wire \cup {q}
    <3>1. Transit(j)' = Transit(j) \cup {q} /\ q \notin Transit(j)
      BY <1>5, <1>6, <2>2 DEF Transit, Unsent
    <3>2. QED
      BY <1>13, <3>1, FS_AddElement DEF InTransit
  <2>3. QED
    BY <1>4, <2>1, <2>2
<1>17. OnServer(j)' = OnServer(j)
  BY <1>8 DEF OnServer
<1>18. DescribedCopy(j)' = DescribedCopy(j)
  BY <1>4, <1>8 DEF DescribedCopy
<1>19. authorised' = authorised
  BY <1>4
<1>20. QED
  BY <1>3, <1>7, <1>12, <1>13, <1>14, <1>15, <1>16, <1>17, <1>18, <1>19, Parts

(* The server stores a request, or it comes to nothing.                            *)
LEMMA ServerImplements ==
    ASSUME PublisherInv, NEW q \in wire, ServerStores(q) \/ ServerRefuses(q)
    PROVE  LifecycleStep
<1> DEFINE last == Len(recordings) + 1
           stored == [job |-> q.job, marker |-> q.marker, tags |-> q.tags, patched |-> FALSE]
<1>1. /\ recordings \in Seq(Recording) /\ q \in Request /\ authorised \in [Jobs -> Nat]
  BY DEF PublisherInv, PublisherTypeOK
<1>2. PICK j \in Jobs : q.job = j
  BY <1>1 DEF Request
<1>3. wire' = wire \ {q} /\ UNCHANGED <<jobs, authorised>>
  BY DEF ServerStores, ServerRefuses, storeVars
<1>4. \A k \in Jobs : Stage(k)' = Stage(k)
  BY <1>3 DEF Stage
<1>5. Transit(j)' = Transit(j) \ {q} /\ q \in Transit(j)
  BY <1>2, <1>3 DEF Transit
<1>6. \A k \in Jobs : k # j => Transit(k)' = Transit(k)
  BY <1>2, <1>3 DEF Transit
<1>7. /\ IsFiniteSet(Transit(j)) /\ IsFiniteSet(Copies(j))
      /\ Parting(j) \in Nat /\ InTransit(j) \in Nat /\ OnServer(j) \in Nat
  BY Numbers
<1>13. \A k \in Jobs : Leaving(k)' = Leaving(k) /\ Parting(k)' = Parting(k)
  <2>1. SameLeavers
    BY AnswerRequeuers DEF ServerStores, ServerRefuses
  <2>2. QED
    BY <2>1, SameParting
<1>8. InTransit(j)' = InTransit(j) - 1
  BY <1>5, <1>7, FS_RemoveElement DEF InTransit
<1>9. InTransit(j) > 0
  <2>1. InTransit(j) # 0
    BY <1>5, <1>7, FS_EmptySet DEF InTransit
  <2>2. QED
    BY <1>7, <2>1
<1>10. CASE ServerRefuses(q)
  <2>1. UNCHANGED recordings
    BY <1>10 DEF ServerRefuses
  <2>2. \A k \in Jobs : Copies(k)' = Copies(k)
    BY <2>1 DEF Copies, RemoteIds
  <2>3. \A k \in Jobs : k # j => CountsOf(k)
    BY <1>3, <1>6, <1>13, <2>1, <2>2, SameCountsOf
  <2>4. OnServer(j)' = OnServer(j)
    BY <2>2 DEF OnServer
  <2>5. DescribedCopy(j)' = DescribedCopy(j)
    BY <2>1, <2>2 DEF DescribedCopy
  <2>6. QED
    BY <1>1, <1>3, <1>4, <1>7, <1>8, <1>9, <1>13, <2>3, <2>4, <2>5, Vanishes
<1>11. CASE ServerStores(q)
  <2>1. recordings' = Append(recordings, stored)
    BY <1>11 DEF ServerStores
  <2>2. stored \in Recording /\ stored.job = j /\ ~ stored.patched
    BY <1>1, <1>2 DEF Recording, Request
  <2>3. /\ Len(recordings') = last /\ Len(recordings) \in Nat
        /\ \A n \in 1..Len(recordings) : recordings'[n] = recordings[n]
        /\ recordings'[last] = stored
        /\ recordings' \in Seq(Recording)
    BY <1>1, <2>1, <2>2, AppendProperties
  <2>4. /\ RemoteIds' = RemoteIds \cup {last} /\ last \notin RemoteIds
        /\ \A n \in RemoteIds : recordings'[n] = recordings[n]
        /\ recordings'[last].job = j /\ ~ recordings'[last].patched
    BY <1>1, <2>2, <2>3 DEF RemoteIds
  <2> HIDE DEF stored, last
  <2>5. Copies(j)' = Copies(j) \cup {last} /\ last \notin Copies(j)
    BY <2>4 DEF Copies
  <2>6. \A k \in Jobs : k # j => Copies(k)' = Copies(k)
    BY <2>4 DEF Copies
  <2>7. \A k \in Jobs : k # j => CountsOf(k)
    <3>1. \A k \in Jobs : \A n \in Copies(k) : recordings'[n].patched = recordings[n].patched
      BY <2>4 DEF Copies
    <3>2. QED
      BY <1>3, <1>6, <1>13, <2>6, <3>1, SameCountsOf
  <2>8. OnServer(j)' = OnServer(j) + 1
    BY <1>7, <2>5, FS_AddElement DEF OnServer
  <2>9. DescribedCopy(j)' = DescribedCopy(j)
    <3>1. \A n \in Copies(j) : recordings'[n] = recordings[n]
      BY <2>4 DEF Copies
    <3>2. QED
      BY <2>4, <2>5, <3>1 DEF DescribedCopy
  <2>10. QED
    BY <1>1, <1>3, <1>4, <1>7, <1>8, <1>9, <1>13, <2>7, <2>8, <2>9, Arrives
<1>12. QED
  BY <1>10, <1>11

---------------------------------------------------------------------------
(* Operator commands, renames and the passage of time.                             *)

(* A stopped row resumes where it stands.                                          *)
LEMMA ResumedStage ==
    ASSUME NEW r, NEW s, r.state \in {"blocked", "missing"}, RowOK(s),
           s.state = ResumeTarget(r.intent), s.state \in {"queued", "uncertain", "metadata_pending"}
    PROVE  StageOf(s) = StageOf(r)
<1>1. CASE r.intent = "post"
  <2>1. s.state = "queued"
    BY <1>1 DEF ResumeTarget
  <2>2. QED
    BY <1>1, <2>1, StageOfRow, StageOfStopped
<1>2. CASE r.intent = "reconcile"
  <2>1. s.state = "uncertain"
    BY <1>2 DEF ResumeTarget
  <2>2. QED
    BY <1>2, <2>1, StageOfRow, StageOfStopped
<1>3. CASE r.intent \notin {"post", "reconcile"}
  <2>1. s.state = "metadata_pending"
    BY <1>3 DEF ResumeTarget
  <2>2. QED
    BY <1>3, <2>1, StageOfRow, StageOfStopped
<1>4. QED
  BY <1>1, <1>2, <1>3

(* A retry gives a doubtful upload another permit; any other row keeps its stage.   *)
LEMMA RetryImplements ==
    ASSUME PublisherInv, PublisherInv', NEW j \in Jobs, OperatorRetry(j)
    PROVE  LifecycleStep
<1>1. StoreInv /\ authorised \in [Jobs -> Nat] /\ NoOwner \in FencedClients
  BY DEF PublisherInv, PublisherTypeOK, FencedClients
<1>2. Retry(j, NoOwner, 0) /\ UNCHANGED <<wire, recordings>> /\ SameLeavers
  BY DEF OperatorRetry, SameLeavers, Stays
<1>3. PICK r, s : r = jobs[j] /\ s = jobs'[j]
  OBVIOUS
<1>4. OthersSame(j) /\ Resumption(r, s, RetryTarget(r)) /\ Exists(j)
  BY <1>1, <1>2, <1>3, RetryEffect DEF Retry
<1>5. s.state = RetryTarget(r) /\ s.state \in {"queued", "uncertain", "metadata_pending"}
  BY <1>4 DEF Resumption
<1>6. RowOK(r) /\ RowOK(s)
  <2>1. r.state \in LiveStates /\ s.state \in LiveStates
    BY <1>3, <1>4, <1>5 DEF Exists, LiveStates
  <2>2. QED
    BY <1>3, <2>1, RowsOK
<1>7. CASE r.state = "uncertain"
  <2>1. s.state = "queued"
    BY <1>5, <1>7 DEF RetryTarget
  <2>2. StageOf(r) = "doubtful" /\ StageOf(s) = "waiting"
    BY <1>6, <1>7, <2>1, StageOfRow
  <2>3. Stage(j) = "doubtful" /\ Stage(j)' = "waiting"
    BY <1>3, <2>2 DEF Stage
  <2>4. authorised' = [authorised EXCEPT ![j] = @ + 1]
    BY <1>3, <1>7 DEF OperatorRetry
  <2>5. authorised'[j] = authorised[j] + 1 /\ \A k \in Jobs : k # j => authorised'[k] = authorised[k]
    BY <1>1, <2>4
  <2>6. \A k \in Jobs : k # j => CountsOf(k)
    BY <1>2, <2>5, SameCounts
  <2>7. /\ Parting(j)' = Parting(j) /\ InTransit(j)' = InTransit(j) /\ OnServer(j)' = OnServer(j)
        /\ DescribedCopy(j)' = DescribedCopy(j)
    BY <1>2, SameCounts
  <2>8. Parting(j) \in Nat /\ InTransit(j) \in Nat /\ OnServer(j) \in Nat
    BY Numbers
  <2>9. QED
    BY <1>1, <1>4, <2>3, <2>5, <2>6, <2>7, <2>8, OthersStay, Authorises
<1>8. CASE r.state # "uncertain"
  <2>1. UNCHANGED authorised
    BY <1>3, <1>8 DEF OperatorRetry
  <2>2. CountsKept
    BY <1>2, <2>1, SameCounts DEF CountsKept
  <2>3. \/ r.state \in {"blocked", "missing"} /\ s.state = ResumeTarget(r.intent)
        \/ r.state \in {"queued", "metadata_pending"} /\ s.state = r.state
    BY <1>5, <1>8 DEF RetryTarget
  <2>4. StageOf(s) = StageOf(r)
    <3>1. CASE r.state \in {"blocked", "missing"} /\ s.state = ResumeTarget(r.intent)
      BY <1>5, <1>6, <3>1, ResumedStage
    <3>2. CASE r.state \in {"queued", "metadata_pending"} /\ s.state = r.state
      BY <1>6, <3>2, StageOfRow
    <3>3. QED
      BY <2>3, <3>1, <3>2
  <2>5. Stage(j)' = Stage(j)
    BY <1>3, <2>4 DEF Stage
  <2>6. QED
    BY <1>4, <2>2, <2>5, QuietRow
<1>9. QED
  BY <1>7, <1>8

(* The other commands, the rename callback and the clock.                          *)
LEMMA OutsideImplements ==
    ASSUME PublisherInv, PublisherInv',
           \/ \E j \in Jobs : Enqueue(j) \/ OperatorRelink(j) \/ OperatorForget(j)
           \/ RenameCallback \/ Passage \/ UNCHANGED vars
    PROVE  LifecycleStep
<1> DEFINE Goal == LifecycleStep
<1>1. StoreInv /\ NoOwner \in FencedClients
  BY DEF PublisherInv, FencedClients
<1>2. UNCHANGED <<wire, recordings, authorised>> /\ SameLeavers
  <2>1. UNCHANGED <<pc, mem, wire, recordings, authorised>>
    BY DEF Enqueue, OperatorRelink, OperatorForget, RenameCallback, Passage, vars, publisherVars
  <2>2. QED
    BY <2>1 DEF SameLeavers, Stays
<1>3. CountsKept
  BY <1>2, SameCounts DEF CountsKept
<1>4. ASSUME NEW j \in Jobs, Enqueue(j) PROVE Goal
  <2>1. PICK path, tags : Create(j, path, tags)
    BY <1>4 DEF Enqueue
  <2>2. PICK r, s : r = jobs[j] /\ s = jobs'[j]
    OBVIOUS
  <2>3. OthersSame(j) /\ r.state = "absent" /\ s.state = "queued"
    BY <1>1, <2>1, <2>2, CreateEffect
  <2>4. RowOK(s)
    BY <2>2, <2>3, RowsOK DEF LiveStates
  <2>5. StageOf(r) = "absent"
    BY <2>3 DEF StageOf
  <2>6. StageOf(s) = "waiting"
    BY <2>3, <2>4, StageOfRow
  <2>7. Stage(j) = "absent" /\ Stage(j)' = "waiting"
    BY <2>2, <2>5, <2>6 DEF Stage
  <2>8. QED
    BY <1>3, <2>3, <2>7, OthersStay, FreeMoves
<1>5. ASSUME NEW j \in Jobs, OperatorForget(j) PROVE Goal
  <2>1. Forget(j)
    BY <1>5 DEF OperatorForget
  <2>2. PICK r, s : r = jobs[j] /\ s = jobs'[j]
    OBVIOUS
  <2>3. OthersSame(j) /\ r.state \in LiveStates /\ s.state = "forgotten"
    BY <1>1, <2>1, <2>2, ForgetEffect DEF Forget, Exists
  <2>4. StageOf(r) \notin {"absent", "gone"}
    BY <2>3 DEF StageOf, ResumeStage, LiveStates
  <2>5. StageOf(s) = "gone"
    BY <2>3 DEF StageOf
  <2>6. Stage(j) \notin {"absent", "gone"} /\ Stage(j)' = "gone"
    BY <2>2, <2>4, <2>5 DEF Stage
  <2>7. QED
    BY <1>3, <2>3, <2>6, OthersStay, FreeMoves
<1>6. ASSUME NEW j \in Jobs, OperatorRelink(j) PROVE Goal
  <2>1. PICK path : Relink(j, NoOwner, 0, path)
    BY <1>6 DEF OperatorRelink
  <2>2. PICK r, s : r = jobs[j] /\ s = jobs'[j]
    OBVIOUS
  <2>3. /\ OthersSame(j)
        /\ \/ Same(r, s)
           \/ r.state = "missing" /\ Resumption(r, s, ResumeTarget(r.intent))
    BY <1>1, <2>1, <2>2, RelinkEffect
  <2>4. CASE Same(r, s)
    BY <1>3, <2>2, <2>3, <2>4, QuietRow DEF Same, Quiet
  <2>5. CASE r.state = "missing" /\ Resumption(r, s, ResumeTarget(r.intent))
    <3>1. s.state = ResumeTarget(r.intent) /\ s.state \in {"queued", "uncertain", "metadata_pending"}
      BY <2>5 DEF Resumption
    <3>2. RowOK(s)
      BY <2>2, <3>1, RowsOK DEF LiveStates
    <3>3. StageOf(s) = StageOf(r)
      BY <2>5, <3>1, <3>2, ResumedStage
    <3>4. Stage(j)' = Stage(j)
      BY <2>2, <3>3 DEF Stage
    <3>5. QED
      BY <1>3, <2>3, <3>4, QuietRow
  <2>6. QED
    BY <2>3, <2>4, <2>5
<1>7. RenameCallback => Goal
  <2> SUFFICES ASSUME RenameCallback PROVE Goal
    OBVIOUS
  <2>1. PICK old, new, identified : UpdatePath(old, new, identified)
    BY DEF RenameCallback
  <2>2. \A k \in Jobs : Same(jobs[k], jobs'[k])
    BY <1>1, <2>1, UpdatePathEffect
  <2>3. QED
    BY <1>3, <2>2, QuietStep DEF Same, Quiet
<1>8. Passage \/ UNCHANGED vars => Goal
  <2> SUFFICES ASSUME Passage \/ UNCHANGED vars PROVE Goal
    OBVIOUS
  <2>1. jobs' = jobs
    BY DEF Passage, Tick, vars, storeVars
  <2>2. QED
    BY <1>3, <2>1, Stutters DEF Stage
<1>9. QED
  BY <1>4, <1>5, <1>6, <1>7, <1>8

---------------------------------------------------------------------------
(* Every step of the publisher is one of the lifecycle, or leaves it alone.         *)
LEMMA StepsImplement == DuplicateInv /\ [Next]_vars => LifecycleStep
<1> SUFFICES ASSUME DuplicateInv, [Next]_vars PROVE LifecycleStep
  OBVIOUS
<1>1. PublisherInv /\ PublisherInv'
  BY PublisherSteps DEF DuplicateInv
<1>2. ASSUME NEW w \in Owners, Worker(w) PROVE LifecycleStep
  <2>1. CASE PostRenew(w)
    BY <1>1, <2>1, RenewImplements
  <2>2. CASE PatchSend(w) \/ PatchFails(w)
    BY <1>1, <2>2, PatchImplements
  <2>3. CASE Departs(w)
    BY <1>1, <2>3, DepartImplements
  <2>4. CASE ~ PostRenew(w) /\ ~ Departs(w) /\ ~ PatchSend(w) /\ ~ PatchFails(w)
    BY <1>1, <1>2, <2>4, WorkerImplements
  <2>5. QED
    BY <2>1, <2>2, <2>3, <2>4
<1>3. ASSUME NEW q \in wire, ServerStores(q) \/ ServerRefuses(q) PROVE LifecycleStep
  BY <1>1, <1>3, ServerImplements
<1>4. ASSUME NEW j \in Jobs, Operator(j) PROVE LifecycleStep
  BY <1>1, <1>4, RetryImplements, OutsideImplements DEF Operator
<1>5. CASE RenameCallback \/ Passage \/ UNCHANGED vars
  BY <1>1, <1>5, OutsideImplements
<1>6. QED
  BY <1>2, <1>3, <1>4, <1>5 DEF Next, Server

(* Before any row exists, the lifecycle is at its beginning.                        *)
LEMMA StartsImplement == Init => Lifecycle!Init
<1> SUFFICES ASSUME Init PROVE Lifecycle!Init
  OBVIOUS
<1>1. /\ jobs = [j \in Jobs |-> NoRow] /\ wire = {} /\ recordings = <<>>
      /\ pc = [w \in Owners |-> "idle"] /\ authorised = [j \in Jobs |-> 0]
  BY DEF Init, StoreInit
<1>2. \A j \in Jobs : StageOf(jobs[j]) = "absent"
  <2>1. StageOf(NoRow) = "absent"
    BY DEF StageOf, NoRow
  <2>2. QED
    BY <1>1, <2>1
<1>3. \A j \in Jobs : Leaving(j) = {} /\ Transit(j) = {} /\ Copies(j) = {}
  BY <1>1 DEF Leaving, Transit, Copies, RemoteIds
<1>4. Cardinality({}) = 0
  BY FS_EmptySet
<1>5. ASSUME NEW j \in Jobs
      PROVE  /\ Cardinality(Leaving(j)) = 0 /\ Cardinality(Transit(j)) = 0 /\ Cardinality(Copies(j)) = 0
             /\ 1 + authorised[j] - Cardinality(Leaving(j)) - Cardinality(Transit(j))
                   - Cardinality(Copies(j)) = 1
             /\ (\E r \in Copies(j) : recordings[r].patched) = FALSE
  <2>1. Cardinality(Leaving(j)) = 0 /\ Cardinality(Transit(j)) = 0 /\ Cardinality(Copies(j)) = 0
    BY <1>3, <1>4
  <2>2. authorised[j] = 0
    BY <1>1
  <2>3. 1 + authorised[j] - Cardinality(Leaving(j)) - Cardinality(Transit(j))
           - Cardinality(Copies(j)) = 1
    BY <2>1, <2>2
  <2>4. ~ \E r \in Copies(j) : recordings[r].patched
    BY <1>3
  <2>5. QED
    BY <2>1, <2>3, <2>4
<1>6. QED
  BY <1>2, <1>5 DEF Lifecycle!Init

(* The publisher keeps the promise of the lifecycle, with any number of recordings, *)
(* workers, transfers and retries, whatever expires, stops, overlaps or comes late: *)
(* an upload sets out only under a permit, nothing counts as uploaded or published    *)
(* that the server does not hold or has no metadata for, and neither is taken back. *)
THEOREM PublisherImplementsLifecycle == Spec => ImplementsLifecycle
<1>1. Spec => []DuplicateInv
  BY DuplicateStarts, DuplicateSteps, PTL DEF Spec
<1>2. DuplicateInv /\ [Next]_vars => [Lifecycle!Next]_(Lifecycle!vars)
  BY StepsImplement DEF LifecycleStep
<1>3. QED
  BY <1>1, <1>2, StartsImplement, PTL DEF Spec, ImplementsLifecycle, Lifecycle!Spec

---------------------------------------------------------------------------
(* No other copy is described: only a copy that its row names is ever patched, and  *)
(* a row that names a copy names it until it is forgotten.                         *)

Sealed(n) ==
    LET j == recordings[n].job IN jobs[j].remote = n \/ jobs[j].state = "forgotten"

(* What a worker about to PATCH may have remembered, with or without the lease.     *)
Named(remote) == remote = NoRemote \/ (remote \in RemoteIds /\ Sealed(remote))
Targets(w) == Named(mem[w].remote)

PatchedInv ==
    /\ PublisherInv
    /\ \A n \in RemoteIds : recordings[n].patched => Sealed(n)
    /\ \A w \in Owners : pc[w] = "patch_send" => Targets(w)

(* What a step does to the copies: none is lost, and one that is described was so   *)
(* before, or a worker was about to PATCH it.                                      *)
ToPatch(n) == \E w \in Owners : pc[w] = "patch_send" /\ mem[w].remote = n
CopiesStay ==
    /\ \A n \in RemoteIds : n \in RemoteIds' /\ recordings'[n].job = recordings[n].job
    /\ \A n \in RemoteIds' : recordings'[n].patched =>
          n \in RemoteIds /\ (recordings[n].patched \/ ToPatch(n))

(* No remote ID is no ID of the server's.                                          *)
LEMMA NoRemoteId == PublisherInv => NoRemote \notin RemoteIds
BY MarkerFacts DEF PublisherInv, PublisherTypeOK

(* A copy once named stays so: a row drops a known remote ID only when forgotten.   *)
LEMMA SealedStays ==
    ASSUME PublisherInv, [Next]_vars, CopiesStay, NEW n \in RemoteIds, Sealed(n)
    PROVE  Sealed(n)'
<1>1. n # NoRemote /\ n \in RemoteIds' /\ recordings'[n].job = recordings[n].job
  BY NoRemoteId DEF CopiesStay
<1>2. PICK j \in Jobs : j = recordings[n].job
  <2>1. recordings[n] \in Recording
    BY DEF PublisherInv, PublisherTypeOK, RemoteIds
  <2>2. QED
    BY <2>1 DEF Recording
<1>3. StoreInv /\ [StoreNext]_storeVars
  BY StepCallsStore DEF PublisherInv
<1>4. CASE jobs[j].state = "forgotten"
  <2>1. jobs'[j] = jobs[j]
    BY <1>3, <1>4, ForgottenIsFinal
  <2>2. QED
    BY <1>1, <1>2, <1>4, <2>1 DEF Sealed
<1>5. CASE jobs[j].remote = n
  <2>1. Kept(j)
    BY <1>3, StoreSteps
  <2>2. jobs'[j].remote = n \/ jobs'[j].state = "forgotten"
    BY <1>1, <1>5, <2>1 DEF Kept
  <2>3. QED
    BY <1>1, <1>2, <2>2 DEF Sealed
<1>6. QED
  BY <1>2, <1>4, <1>5 DEF Sealed

(* A PATCH describes the copy its sender remembered.                               *)
LEMMA PatchKeepsCopies ==
    ASSUME PublisherInv, NEW w \in Owners, pc[w] = "patch_send", Patched(mem[w].remote)
    PROVE  CopiesStay
<1>1. RemoteIds' = RemoteIds /\ \A n \in RemoteIds : recordings'[n].job = recordings[n].job
  BY PatchedCopies DEF SameCopies
<1>2. \A n \in RemoteIds : n # mem[w].remote => recordings'[n] = recordings[n]
  BY DEF Patched, RemoteIds
<1>3. QED
  BY <1>1, <1>2 DEF CopiesStay, ToPatch

(* A copy is stored without metadata.                                             *)
LEMMA StoreKeepsCopies ==
    ASSUME PublisherInv, NEW q \in wire, ServerStores(q)
    PROVE  CopiesStay
<1> DEFINE last == Len(recordings) + 1
           stored == [job |-> q.job, marker |-> q.marker, tags |-> q.tags, patched |-> FALSE]
<1>1. recordings \in Seq(Recording) /\ q \in Request
  BY DEF PublisherInv, PublisherTypeOK
<1>2. stored \in Recording /\ stored.patched = FALSE
  BY <1>1 DEF Recording, Request
<1>3. recordings' = Append(recordings, stored)
  BY DEF ServerStores
<1>4. /\ Len(recordings') = last /\ Len(recordings) \in Nat
      /\ \A n \in 1..Len(recordings) : recordings'[n] = recordings[n]
      /\ recordings'[last] = stored
      /\ recordings' \in Seq(Recording)
  BY <1>1, <1>2, <1>3, AppendProperties
<1>5. /\ RemoteIds' = RemoteIds \cup {last}
      /\ \A n \in RemoteIds : recordings'[n] = recordings[n]
      /\ recordings'[last].patched = FALSE
  BY <1>1, <1>2, <1>4 DEF RemoteIds
<1> HIDE DEF stored, last
<1>6. QED
  BY <1>5 DEF CopiesStay

(* Every step of the system treats the copies so.                                  *)
LEMMA StepKeepsCopies ==
    ASSUME PublisherInv, [Next]_vars
    PROVE  CopiesStay
<1>1. UNCHANGED recordings => CopiesStay
  BY DEF CopiesStay, RemoteIds
<1>2. ASSUME NEW w \in Owners, Worker(w) PROVE CopiesStay
  <2>1. CASE PatchSend(w) \/ PatchFails(w)
    BY <1>1, <2>1, PatchKeepsCopies DEF PatchSend, PatchFails
  <2>2. CASE PostRenew(w) \/ PostSend(w)
    BY <1>1, <2>2 DEF PostRenew, PostSend, StoreStep
  <2>3. CASE ~ PostRenew(w) /\ ~ PostSend(w) /\ ~ PatchSend(w) /\ ~ PatchFails(w)
    BY <1>1, <1>2, <2>3, WorkerLeaves
  <2>4. QED
    BY <2>1, <2>2, <2>3
<1>3. ASSUME NEW q \in wire, ServerStores(q) \/ ServerRefuses(q) PROVE CopiesStay
  BY <1>1, <1>3, StoreKeepsCopies DEF ServerRefuses
<1>4. (\E j \in Jobs : Operator(j)) \/ RenameCallback \/ Passage \/ UNCHANGED vars => CopiesStay
  BY <1>1 DEF Operator, Enqueue, OperatorRetry, OperatorRelink, OperatorForget, RenameCallback,
              Passage, vars, publisherVars
<1>5. QED
  BY <1>2, <1>3, <1>4 DEF Next, Server

(* A worker begins a PATCH in one way only.                                        *)
Patching(w) == pc'[w] = "patch_send" => pc[w] = "patch_send" /\ mem'[w] = mem[w]

(* No action of a worker but the look at the lease before a PATCH begins one.        *)
LEMMA OthersDoNotPatch ==
    ASSUME PublisherInv, NEW w \in Owners, Worker(w), ~ PatchStage(w)
    PROVE  \A v \in Owners : Patching(v)
<1> DEFINE Goal == \A v \in Owners : Patching(v)
<1>1. pc \in [Owners -> Steps] /\ mem \in [Owners -> Memory]
  BY DEF PublisherInv, PublisherTypeOK
<1>2. ASSUME NEW step \in Steps, step # "patch_send", NEW m,
             pc' = [pc EXCEPT ![w] = step], mem' = [mem EXCEPT ![w] = m]
      PROVE  Goal
  BY <1>1, <1>2 DEF Patching
<1>3. UNCHANGED publisherVars => Goal
  BY DEF publisherVars, Patching
<1>4. ASSUME NEW step \in Steps, step # "patch_send", StoreStep(w, step)
      PROVE  Goal
  <2>1. PICK m : mem' = [mem EXCEPT ![w] = m]
    <3>1. CASE step = "idle"
      BY <1>4, <3>1 DEF StoreStep
    <3>2. CASE step # "idle"
      <4>1. mem' = [mem EXCEPT ![w] = mem[w]]
        BY <1>1, <1>4, <3>2 DEF StoreStep
      <4>2. QED
        BY <4>1
    <3>3. QED
      BY <3>1, <3>2
  <2>2. QED
    BY <1>2, <1>4, <2>1 DEF StoreStep, Goto
<1>5. ASSUME NEW j \in Jobs, NEW step \in Steps, step # "patch_send", Fence(w, j, step)
      PROVE  Goal
  BY <1>2, <1>5 DEF Fence, Goto
<1> HIDE DEF Goal
<1>6. \A state : PhaseOf(state) \in Steps /\ PhaseOf(state) # "patch_send"
  BY DEF PhaseOf, Steps
<1>7. ASSUME NEW j \in Jobs, Start(w, j) \/ StartNothing(w, j) \/ StartBlock(w, j)
      PROVE  Goal
  BY <1>3, <1>5, <1>6, <1>7 DEF Start, StartNothing, StartBlock, Steps
<1>8. Reclaim(w) \/ RequeueClaim(w) => Goal
  <2>1. Job(w) \in Jobs
    BY WorkerFacts
  <2>2. QED
    BY <1>4, <1>5, <1>6, <2>1 DEF Reclaim, RequeueClaim, Steps
<1>9. (BlockConfiguration(w) \/ Stop(w) \/ LocalFailure(w) \/ MetadataFailure(w)
       \/ PostStage(w) \/ PostRenew(w) \/ Accept(w) \/ SettleUnknown(w) \/ SettleRefused(w)
       \/ SettleNotSent(w))
       => Goal
  BY <1>4 DEF BlockConfiguration, Stop, LocalFailure, MetadataFailure, PostStage, PostRenew,
              Accept, SettleUnknown, SettleRefused, SettleNotSent, Steps
<1>10. (RequeueRetry(w) \/ RequeueSchedule(w) \/ ReconcileUnavailable(w)
       \/ ReconcileNoMatch(w) \/ ReconcileTags(w) \/ ReconcileAccept(w) \/ PatchDone(w))
       => Goal
  BY <1>4 DEF RequeueRetry, RequeueSchedule, ReconcileUnavailable, ReconcileNoMatch,
              ReconcileTags, ReconcileAccept, PatchDone, Steps
<1>11. Heartbeat(w) \/ RefreshPath(w) => Goal
  BY <1>3 DEF Heartbeat, RefreshPath
<1>12. ResolveTags(w) \/ PostBegin(w) \/ UploadTimeout(w) \/ Reconcile(w) => Goal
  <2>1. ResolveTags(w) => \E tags : mem' = [mem EXCEPT ![w] = [mem[w] EXCEPT !.tags = tags]]
    BY DEF ResolveTags
  <2>2. PostBegin(w) => mem' = [mem EXCEPT ![w] = [mem[w] EXCEPT !.marker = minted + 1, !.reply = "none"]]
    BY DEF PostBegin
  <2>3. UploadTimeout(w) => mem' = [mem EXCEPT ![w] = [mem[w] EXCEPT !.reply = "unknown"]]
    BY DEF UploadTimeout
  <2>4. Reconcile(w) => \E remote : mem' = [mem EXCEPT ![w] = [mem[w] EXCEPT !.remote = remote]]
    BY DEF Reconcile
  <2>5. QED
    BY <1>2, <2>1, <2>2, <2>3, <2>4 DEF ResolveTags, PostBegin, UploadTimeout, Reconcile, Goto, Steps
<1>13. PostSend(w) => Goal
  BY <1>1 DEF PostSend, Goto, Goal, Patching
<1>14. PatchSend(w) \/ PatchFails(w) => Goal
  BY <1>1 DEF PatchSend, PatchFails, Goto, Goal, Patching
<1>15. Goal
  BY <1>7, <1>8, <1>9, <1>10, <1>11, <1>12, <1>13, <1>14 DEF Worker, Post, ReconcileOrPatch
<1>16. QED
  BY <1>15 DEF Goal

(* The remote ID read at the look at the lease before the PATCH names the row's own *)
(* copy.                                                                          *)
LEMMA PatchersRead ==
    ASSUME PublisherInv, NEW w \in Owners, PatchStage(w)
    PROVE  /\ \A v \in Owners \ {w} : pc'[v] = pc[v] /\ mem'[v] = mem[v]
           /\ Targets(w)'
<1>1. PICK j \in Jobs : j = Job(w) /\ StoreInv /\ mem[w] \in Memory
  BY WorkerFacts
<1>2. PICK remote : remote = jobs[j].remote
  OBVIOUS
<1>3. Same(jobs[j], jobs'[j])
  BY <1>1, RenewEffect DEF PatchStage
<1>4. jobs'[j].remote = remote
  BY <1>2, <1>3 DEF Same, Still
<1>5. /\ pc \in [Owners -> Steps] /\ mem \in [Owners -> Memory]
      /\ mem' = [mem EXCEPT ![w] = [mem[w] EXCEPT !.remote = remote]]
      /\ pc' = [pc EXCEPT ![w] = "patch_send"] /\ UNCHANGED recordings
  BY <1>1, <1>2 DEF PatchStage, Goto, PublisherInv, PublisherTypeOK
<1>6. mem'[w].remote = remote /\ \A v \in Owners \ {w} : pc'[v] = pc[v] /\ mem'[v] = mem[v]
  BY <1>1, <1>5 DEF Memory
<1>7. CASE remote # NoRemote
  <2>1. HasCopy(remote, jobs[j].token)
    BY <1>2, <1>7 DEF PublisherInv, RowsLinked
  <2>2. remote \in RemoteIds /\ Describes(recordings[remote])
    BY <2>1 DEF PublisherInv, RequestsDescribed, HasCopy
  <2>3. recordings[remote].job = j
    BY <2>1, <2>2 DEF Describes, HasCopy
  <2>4. remote \in RemoteIds' /\ recordings'[remote].job = j
    BY <1>5, <2>2, <2>3 DEF RemoteIds
  <2>5. QED
    BY <1>4, <1>6, <2>4 DEF Targets, Named, Sealed
<1>8. QED
  BY <1>6, <1>7 DEF Targets, Named

(* A server, an operator, a rename and the clock leave the workers' PATCHes alone.  *)
LEMMA UnseenDoNotPatch ==
    ASSUME PublisherInv, [Next]_vars, \A w \in Owners : ~ Worker(w)
    PROVE  \A v \in Owners : Patching(v)
<1>1. pc' = pc /\ mem' = mem => \A v \in Owners : Patching(v)
  BY DEF Patching
<1>2. ASSUME NEW q \in wire, ServerStores(q) \/ ServerRefuses(q)
      PROVE  \A v \in Owners : Patching(v)
  <2>1. PICK kind, remote : Reply(q, kind, remote)
    BY <1>2 DEF ServerStores, ServerRefuses
  <2>2. QED
    BY <2>1 DEF Reply, Patching
<1>3. (\E j \in Jobs : Operator(j)) \/ RenameCallback \/ Passage \/ UNCHANGED vars
        => pc' = pc /\ mem' = mem
  BY DEF Operator, Enqueue, OperatorRetry, OperatorRelink, OperatorForget, RenameCallback,
         Passage, vars, publisherVars
<1>4. QED
  BY <1>1, <1>2, <1>3 DEF Next, Server

(* Every step keeps the invariant.                                                *)
LEMMA PatchedSteps == PatchedInv /\ [Next]_vars => PatchedInv'
<1> SUFFICES ASSUME PatchedInv, [Next]_vars PROVE PatchedInv'
  OBVIOUS
<1>1. PublisherInv /\ PublisherInv' /\ CopiesStay
  BY PublisherSteps, StepKeepsCopies DEF PatchedInv
<1>2. \A n \in RemoteIds : Sealed(n) => Sealed(n)'
  BY <1>1, SealedStays
<1>3. ASSUME NEW n \in RemoteIds', recordings'[n].patched PROVE Sealed(n)'
  <2>1. n \in RemoteIds /\ (recordings[n].patched \/ ToPatch(n))
    BY <1>1, <1>3 DEF CopiesStay
  <2>2. Sealed(n)
    BY <1>1, <2>1, NoRemoteId DEF PatchedInv, ToPatch, Targets, Named
  <2>3. QED
    BY <1>2, <2>1, <2>2
<1>4. ASSUME NEW remote, Named(remote) PROVE Named(remote)'
  BY <1>1, <1>2, <1>4 DEF Named, CopiesStay
<1>5. ASSUME NEW v \in Owners, Patching(v), pc'[v] = "patch_send" PROVE Targets(v)'
  <2>1. pc[v] = "patch_send" /\ mem'[v] = mem[v] /\ Named(mem[v].remote)
    BY <1>5 DEF Patching, PatchedInv, Targets
  <2>2. PICK remote : remote = mem[v].remote
    OBVIOUS
  <2>3. Named(remote)' /\ mem'[v].remote = remote
    BY <1>4, <2>1, <2>2
  <2>4. QED
    BY <2>3 DEF Targets
<1>6. ASSUME NEW v \in Owners, pc'[v] = "patch_send" PROVE Targets(v)'
  <2>1. CASE \A w \in Owners : ~ Worker(w)
    BY <1>1, <1>5, <1>6, <2>1, UnseenDoNotPatch
  <2>2. ASSUME NEW w \in Owners, Worker(w), ~ PatchStage(w) PROVE Targets(v)'
    BY <1>1, <1>5, <1>6, <2>2, OthersDoNotPatch
  <2>3. ASSUME NEW w \in Owners, PatchStage(w) PROVE Targets(v)'
    <3>1. CASE v = w
      BY <1>1, <2>3, <3>1, PatchersRead
    <3>2. CASE v # w
      BY <1>1, <1>5, <1>6, <2>3, <3>2, PatchersRead DEF Patching
    <3>3. QED
      BY <3>1, <3>2
  <2>4. QED
    BY <2>1, <2>2, <2>3
<1>7. QED
  BY <1>1, <1>3, <1>6 DEF PatchedInv

(* Every initial state satisfies it.                                              *)
LEMMA PatchedStarts == Init => PatchedInv
<1> SUFFICES ASSUME Init PROVE PatchedInv
  OBVIOUS
<1>1. PublisherInv
  BY PublisherStarts
<1>2. recordings = <<>> /\ pc = [w \in Owners |-> "idle"]
  BY DEF Init
<1>3. RemoteIds = {} /\ \A w \in Owners : pc[w] # "patch_send"
  BY <1>2 DEF RemoteIds
<1>4. QED
  BY <1>1, <1>3 DEF PatchedInv

(* A row that knows a remote ID names the copy of its own media that its last       *)
(* transfer stored, with the tags it reports, and described once published; no      *)
(* other copy of the media is ever described.                                      *)
THEOREM RowsNameTheirCopies == Spec => []RemoteIsOwnCopy
<1>1. PatchedInv => RemoteIsOwnCopy
  <2> SUFFICES ASSUME PatchedInv, NEW j \in Jobs, Exists(j), jobs[j].remote # NoRemote
               PROVE  LET r == jobs[j].remote IN
                      /\ r \in RemoteIds
                      /\ recordings[r].job = j /\ recordings[r].marker = jobs[j].token
                      /\ jobs[j].outcome = "known" => recordings[r].tags = jobs[j].effective
                      /\ jobs[j].outcome # "known" => recordings[r].tags = jobs[j].frozen
                      /\ jobs[j].state = "published" => recordings[r].patched
                      /\ \A other \in Copies(j) \ {r} : ~ recordings[other].patched
    BY DEF RemoteIsOwnCopy
  <2>1. HasCopy(jobs[j].remote, jobs[j].token)
          /\ (jobs[j].state = "published" => IsDescribed(jobs[j].remote))
    BY DEF PatchedInv, PublisherInv, RowsLinked
  <2>2. Describes(recordings[jobs[j].remote])
    BY <2>1 DEF PatchedInv, PublisherInv, RequestsDescribed, HasCopy
  <2>3. jobs[j].state # "forgotten"
    BY DEF Exists, LiveStates
  <2>4. ASSUME NEW other \in Copies(j) \ {jobs[j].remote} PROVE ~ recordings[other].patched
    BY <2>3 DEF Copies, PatchedInv, Sealed
  <2>5. QED
    BY <2>1, <2>2, <2>4 DEF HasCopy, IsDescribed, Describes, TagsOf
<1>2. Spec => []PatchedInv
  BY PatchedStarts, PatchedSteps, PTL DEF Spec
<1>3. QED
  BY <1>1, <1>2, PTL

============================================================================
