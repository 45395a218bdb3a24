----------------------- MODULE CalendarRefresh_proofs -----------------------
(* Theorems about the Calendar credential and its snapshots, for any number of     *)
(* calendars, accounts, attempts and pages.                                        *)
EXTENDS CalendarRefresh, TLAPS

Steps == {"idle", "asleep", "dead", "next", "page", "pause", "fetched", "gate", "check",
          "store", "lock", "clear", "save", "secret", "cache", "report"}

Jobs == [calendar : Nat, page : Nat, attempt : Nat, renewed : BOOLEAN, with : Nat]

CalendarTypeOK ==
    /\ token \in Nat /\ cache \in [Calendars -> Nat]
    /\ lock \in Processes \cup {"free"} /\ pc \in [Processes -> Steps]
    /\ job \in [Refreshers -> Jobs]
    /\ cancel \in BOOLEAN /\ gate \in BOOLEAN /\ settled \in BOOLEAN
    /\ stopper \in {"ready", "gate", "join"}
    /\ grants \in Nat /\ mine \in Nat /\ failed \in BOOLEAN

(* Whoever is inside an operation on the credential or the cache holds the lock.    *)
Exclusive ==
    \A p \in Processes : pc[p] \notin {"idle", "asleep", "dead", "lock"} => lock = p

(* A refresh works with the credential that is stored now.                         *)
JobsCurrent ==
    \A r \in Refreshers :
        pc[r] \in {"page", "pause", "fetched", "gate", "check", "store"} =>
            token # None /\ job[r].with = token

(* A connect has emptied the cache before it stores the credential, a disconnect    *)
(* that goes on without an error has no token any more.                           *)
CommandsOrdered ==
    /\ pc["connect"] = "save" => cache = Empty
    /\ pc["disconnect"] \in {"cache", "report"} /\ ~failed => token = None

(* The gate is held between the last look at the cancellation and the commit, and   *)
(* a refresh reported as settled is not about to commit.                           *)
GateGuards ==
    /\ gate <=> pc["daemon"] \in {"check", "store"}
    /\ stopper # "ready" => cancel
    /\ settled => cancel /\ pc["daemon"] # "store"

CalendarInv ==
    /\ CalendarTypeOK /\ Exclusive /\ JobsCurrent /\ CommandsOrdered /\ GateGuards
    /\ CacheIsOwn /\ DisconnectedIsClean

(* All of it but the types, which every step keeps for a reason of its own.         *)
Rest == Exclusive /\ JobsCurrent /\ CommandsOrdered /\ GateGuards
          /\ CacheIsOwn /\ DisconnectedIsClean

(* Without a credential and a snapshot everything holds.                           *)
LEMMA CalendarStarts == Init => CalendarInv
<1> SUFFICES ASSUME Init PROVE CalendarInv
  OBVIOUS
<1> USE DEF Init, None, Processes, Refreshers
<1>1. CalendarTypeOK
  BY DEF CalendarTypeOK, Empty, NoJob, Jobs, Steps, Calendars
<1>2. CacheIsOwn /\ DisconnectedIsClean
  BY DEF CacheIsOwn, DisconnectedIsClean, At, Empty
<1>3. Exclusive /\ JobsCurrent /\ CommandsOrdered /\ GateGuards
  BY DEF Exclusive, JobsCurrent, CommandsOrdered, GateGuards
<1>4. QED
  BY <1>1, <1>2, <1>3 DEF CalendarInv

(* What a refresh writes down of its progress is of the type of a job.             *)
LEMMA JobUpdates ==
    ASSUME NEW j \in Jobs, NEW n \in Nat, NEW t \in Nat
    PROVE  /\ [NoJob EXCEPT !.calendar = n] \in Jobs
           /\ [j EXCEPT !.with = t] \in Jobs
           /\ [j EXCEPT !.attempt = n] \in Jobs
           /\ [j EXCEPT !.page = n, !.attempt = 0] \in Jobs
           /\ [j EXCEPT !.attempt = n, !.renewed = TRUE, !.with = t] \in Jobs
<1>1. [NoJob EXCEPT !.calendar = n] \in Jobs
  BY DEF Jobs, NoJob, None
<1>2. [j EXCEPT !.with = t] \in Jobs
  BY DEF Jobs
<1>3. [j EXCEPT !.attempt = n] \in Jobs
  BY DEF Jobs
<1>4. [j EXCEPT !.page = n, !.attempt = 0] \in Jobs
  BY DEF Jobs
<1>5. [j EXCEPT !.attempt = n, !.renewed = TRUE, !.with = t] \in Jobs
  BY DEF Jobs
<1>6. QED
  BY <1>1, <1>2, <1>3, <1>4, <1>5

(* Every step keeps the types.                                                    *)
LEMMA TypeSteps == CalendarTypeOK /\ [Next]_vars => CalendarTypeOK'
<1> SUFFICES ASSUME CalendarTypeOK, [Next]_vars PROVE CalendarTypeOK'
  OBVIOUS
<1> USE DEF CalendarTypeOK, Processes, Refreshers, Steps, At, Goto
<1>1. NoJob \in Jobs /\ None \in Nat
  BY DEF NoJob, Jobs, None
<1>2. ASSUME NEW r \in Refreshers, Refresh(r) PROVE CalendarTypeOK'
  <2> USE <1>2
  <2>1. job[r] \in Jobs
    OBVIOUS
  <2>2. /\ [NoJob EXCEPT !.calendar = job[r].calendar + 1] \in Jobs
        /\ [job[r] EXCEPT !.with = token] \in Jobs
        /\ [job[r] EXCEPT !.attempt = job[r].attempt + 1] \in Jobs
        /\ [job[r] EXCEPT !.page = job[r].page + 1, !.attempt = 0] \in Jobs
        /\ [job[r] EXCEPT !.attempt = job[r].attempt + 1, !.renewed = TRUE, !.with = token]
              \in Jobs
    <3>1. /\ job[r].calendar + 1 \in Nat
          /\ job[r].attempt + 1 \in Nat /\ job[r].page + 1 \in Nat
      BY <2>1 DEF Jobs
    <3>2. QED
      BY <2>1, <3>1, JobUpdates, Zenon
  <2>3. CASE Begin(r)
    BY <2>3 DEF Begin, Acquire, RefreshLeaves, stored, stopVars, commandVars
  <2>4. CASE NextOf(r)
    BY <1>1, <2>2, <2>4
       DEF NextOf, Over, Release, RefreshLeaves, stored, stopVars, commandVars
  <2>5. CASE Page(r)
    <3>2. pc' \in [Processes -> Steps] /\ lock' \in Processes \cup {"free"}
      <4>1. \/ pc' = [pc EXCEPT ![r] = IF r = "daemon" THEN "asleep" ELSE "idle"]
            \/ pc' = pc \/ pc' = [pc EXCEPT ![r] = "fetched"]
            \/ pc' = [pc EXCEPT ![r] = "next"] \/ pc' = [pc EXCEPT ![r] = "pause"]
        BY <2>5, Zenon DEF Page, NextCalendar, Over, Release
      <4>2. lock' = lock \/ lock' = "free"
        BY <2>5, Zenon DEF Page, NextCalendar, Over, Release
      <4>3. QED
        BY <4>1, <4>2
    <3>3. job' \in [Refreshers -> Jobs]
      <4>1. \/ job' = job
            \/ job' = [job EXCEPT ![r] = NoJob]
            \/ job' = [job EXCEPT ![r] = [NoJob EXCEPT !.calendar = job[r].calendar + 1]]
            \/ job' = [job EXCEPT ![r] =
                          [job[r] EXCEPT !.page = job[r].page + 1, !.attempt = 0]]
            \/ job' = [job EXCEPT ![r] =
                          [job[r] EXCEPT !.attempt = job[r].attempt + 1, !.renewed = TRUE,
                                         !.with = token]]
        BY <2>5, Zenon DEF Page, NextCalendar, Over, Release
      <4>2. QED
        BY <1>1, <2>2, <4>1
    <3>4. QED
      BY <2>5, <3>2, <3>3 DEF Page, RefreshLeaves, stored, stopVars, commandVars
  <2>6. CASE Pause(r)
    <3>1. \/ job' = [job EXCEPT ![r] = NoJob]
          \/ job' = [job EXCEPT ![r] = [job[r] EXCEPT !.attempt = job[r].attempt + 1]]
      BY <2>6 DEF Pause, Over
    <3>2. QED
      BY <1>1, <2>2, <2>6, <3>1
         DEF Pause, Over, Release, RefreshLeaves, stored, stopVars, commandVars
  <2>7. CASE Fetched(r) \/ TakeGate(r) \/ Check(r)
    <3>1. CASE Fetched(r)
      BY <1>1, <3>1 DEF Fetched, Over, Release, RefreshLeaves, stored, stopVars, commandVars
    <3>2. CASE TakeGate(r)
      BY <3>2 DEF TakeGate, stored, stopVars, commandVars
    <3>3. CASE Check(r)
      BY <1>1, <3>3 DEF Check, Over, Release, stored, stopVars, commandVars
    <3>4. QED
      BY <2>7, <3>1, <3>2, <3>3
  <2>8. CASE Store(r)
    <3>1. cache' \in [Calendars -> Nat]
      BY <2>1, <2>8 DEF Store, Jobs
    <3>2. QED
      BY <2>2, <2>8, <3>1 DEF Store, NextCalendar, stopVars, commandVars
  <2>9. QED
    BY <2>3, <2>4, <2>5, <2>6, <2>7, <2>8 DEF Refresh
<1>3. CASE Wakes \/ WorkerEnds \/ Stop \/ RequestCancel
  BY <1>3 DEF Wakes, WorkerEnds, Stop, RequestCancel, stored, stopVars, commandVars
<1>4. CASE Connect \/ ConnectLocks \/ ConnectSaves
  BY <1>4 DEF Connect, ConnectLocks, ConnectSaves, Acquire, Release, CommandLeaves,
              stored, stopVars, commandVars
<1>5. ASSUME ClearCache \/ ClearFails PROVE cache' \in [Calendars -> Nat]
  BY <1>1, <1>5 DEF ClearCache, ClearFails, Empty
<1>6. CASE ConnectClears
  BY <1>5, <1>6 DEF ConnectClears, Release, CommandLeaves, stopVars, commandVars
<1>7. CASE Disconnect \/ DisconnectClears \/ DisconnectEnds
  BY <1>1, <1>7 DEF Disconnect, DisconnectClears, DisconnectEnds, Acquire, Release,
                    CommandLeaves, stored, stopVars, commandVars
<1>8. CASE DisconnectEmpties
  BY <1>5, <1>8 DEF DisconnectEmpties, CommandLeaves, stopVars
<1>9. ASSUME NEW p \in Processes, Dies(p) PROVE CalendarTypeOK'
  BY <1>1, <1>9 DEF Dies, stored, stopVars, commandVars
<1>10. CASE UNCHANGED vars
  BY <1>10 DEF vars, stored, stopVars, commandVars
<1>11. QED
  BY <1>2, <1>3, <1>4, <1>6, <1>7, <1>8, <1>9, <1>10 DEF Next, Daemon

(* A step of refresh r moves r alone, begins with the lock free or holding it, and  *)
(* stops holding it only when it is over.                                          *)
LEMMA RefreshLocks ==
    ASSUME NEW r \in Refreshers, CalendarTypeOK, Refresh(r)
    PROVE  /\ \A p \in Processes \ {r} : pc'[p] = pc[p]
           /\ pc'[r] \in {"idle", "asleep"} \/ lock' = r \/ (lock' = lock /\ pc[r] # "idle")
           /\ pc[r] \notin {"asleep", "dead", "lock"}
           /\ lock' # lock => lock \in {"free", r} \/ pc[r] # "idle"
<1> USE DEF At, Goto
<1>0. pc \in [Processes -> Steps] /\ r \in Processes
  BY DEF CalendarTypeOK, Processes
<1>1. CASE Begin(r)
  <2>1. /\ pc[r] = "idle"
        /\ \/ pc' = [pc EXCEPT ![r] = "asleep"] /\ lock' = lock
           \/ pc' = [pc EXCEPT ![r] = "next"] /\ lock' = r /\ lock = "free"
    BY <1>1 DEF Begin, Acquire
  <2>2. QED
    BY <1>0, <2>1
<1>2. CASE NextOf(r)
  BY <1>0, <1>2 DEF NextOf, Over, Release
<1>3. CASE Page(r)
  <2>1. /\ pc[r] = "page"
        /\ \/ pc' = [pc EXCEPT ![r] = IF r = "daemon" THEN "asleep" ELSE "idle"]
           \/ /\ lock' = lock
              /\ \/ pc' = pc \/ pc' = [pc EXCEPT ![r] = "fetched"]
                 \/ pc' = [pc EXCEPT ![r] = "next"] \/ pc' = [pc EXCEPT ![r] = "pause"]
    BY <1>3, Zenon DEF Page, NextCalendar, Over, Release
  <2>2. QED
    BY <1>0, <2>1
<1>4. CASE Pause(r)
  BY <1>0, <1>4 DEF Pause, Over, Release
<1>5. CASE Fetched(r)
  BY <1>0, <1>5 DEF Fetched, Over, Release
<1>6. CASE TakeGate(r)
  BY <1>0, <1>6 DEF TakeGate
<1>7. CASE Check(r)
  BY <1>0, <1>7 DEF Check, Over, Release
<1>8. CASE Store(r)
  BY <1>0, <1>8 DEF Store, NextCalendar
<1>9. QED
  BY <1>1, <1>2, <1>3, <1>4, <1>5, <1>6, <1>7, <1>8 DEF Refresh

UsingToken == {"page", "pause", "fetched", "gate", "check", "store"}

(* A step of refresh r leaves the token and the other refresh's job alone, and works *)
(* on only with the token that is stored.                                          *)
LEMMA RefreshTokens ==
    ASSUME NEW r \in Refreshers, CalendarTypeOK, JobsCurrent, Refresh(r)
    PROVE  /\ token' = token
           /\ \A q \in Refreshers \ {r} : job'[q] = job[q]
           /\ pc'[r] \in UsingToken => token # None /\ job'[r].with = token
<1> USE DEF At, Goto, UsingToken
<1>0. /\ pc \in [Processes -> Steps] /\ r \in Processes
      /\ job \in [Refreshers -> Jobs] /\ job[r] \in Jobs
      /\ pc[r] \in UsingToken => token # None /\ job[r].with = token
  BY DEF CalendarTypeOK, Processes, JobsCurrent
<1>1. CASE Begin(r)
  BY <1>0, <1>1 DEF Begin, Acquire, RefreshLeaves, stored
<1>2. CASE NextOf(r)
  BY <1>0, <1>2 DEF NextOf, Over, Release, RefreshLeaves, stored, Jobs
<1>3. CASE Page(r)
  <2>1. /\ token' = token /\ pc[r] = "page"
        /\ \/ pc' = [pc EXCEPT ![r] = IF r = "daemon" THEN "asleep" ELSE "idle"]
              /\ job' = [job EXCEPT ![r] = NoJob]
           \/ /\ pc' = [pc EXCEPT ![r] = "next"]
              /\ job' = [job EXCEPT ![r] = [NoJob EXCEPT !.calendar = job[r].calendar + 1]]
           \/ pc' = [pc EXCEPT ![r] = "fetched"] /\ job' = job
           \/ pc' = [pc EXCEPT ![r] = "pause"] /\ job' = job
           \/ pc' = pc /\ job' = [job EXCEPT ![r] =
                                    [job[r] EXCEPT !.page = job[r].page + 1, !.attempt = 0]]
           \/ /\ pc' = pc
              /\ job' = [job EXCEPT ![r] = [job[r] EXCEPT !.attempt = job[r].attempt + 1,
                                              !.renewed = TRUE, !.with = token]]
    BY <1>3, Zenon DEF Page, NextCalendar, Over, Release, RefreshLeaves, stored
  <2>2. /\ [job[r] EXCEPT !.page = job[r].page + 1, !.attempt = 0].with = job[r].with
        /\ [job[r] EXCEPT !.attempt = job[r].attempt + 1, !.renewed = TRUE,
                          !.with = token].with = token
    BY <1>0 DEF Jobs
  <2>3. QED
    BY <1>0, <2>1, <2>2
<1>4. CASE Pause(r)
  BY <1>0, <1>4 DEF Pause, Over, Release, RefreshLeaves, stored, Jobs
<1>5. CASE Fetched(r)
  BY <1>0, <1>5 DEF Fetched, Over, Release, RefreshLeaves, stored
<1>6. CASE TakeGate(r)
  BY <1>0, <1>6 DEF TakeGate, stored
<1>7. CASE Check(r)
  BY <1>0, <1>7 DEF Check, Over, Release, stored
<1>8. CASE Store(r)
  BY <1>0, <1>8 DEF Store, NextCalendar
<1>9. QED
  BY <1>1, <1>2, <1>3, <1>4, <1>5, <1>6, <1>7, <1>8 DEF Refresh

(* The gate is taken before the last look at the cancellation and kept until the    *)
(* commit is over; only then can a snapshot have been replaced.                    *)
LEMMA RefreshCommits ==
    ASSUME NEW r \in Refreshers, CalendarTypeOK, GateGuards, Refresh(r)
    PROVE  /\ UNCHANGED <<stopVars, commandVars>>
           /\ GateGuards'
           /\ \/ cache' = cache
              \/ /\ pc[r] = "store"
                 /\ cache' = [cache EXCEPT ![job[r].calendar] = job[r].with]
<1> USE DEF At, Goto, GateGuards, stopVars, commandVars
<1>0. /\ pc \in [Processes -> Steps] /\ r \in Processes /\ "daemon" \in Processes
      /\ gate \in BOOLEAN
  BY DEF CalendarTypeOK, Processes, Refreshers
<1>1. CASE Begin(r)
  BY <1>0, <1>1 DEF Begin, Acquire, RefreshLeaves, stored
<1>2. CASE NextOf(r)
  BY <1>0, <1>2 DEF NextOf, Over, Release, RefreshLeaves, stored
<1>3. CASE Page(r)
  <2>1. /\ UNCHANGED <<token, cache, gate, stopVars, commandVars>> /\ pc[r] = "page"
        /\ \E step \in {"asleep", "idle", "next", "fetched", "pause", "page"} :
              pc' = [pc EXCEPT ![r] = step]
    <3>1. /\ UNCHANGED <<token, cache, gate, stopVars, commandVars>> /\ pc[r] = "page"
          /\ \/ pc' = [pc EXCEPT ![r] = IF r = "daemon" THEN "asleep" ELSE "idle"]
             \/ pc' = [pc EXCEPT ![r] = "next"] \/ pc' = [pc EXCEPT ![r] = "fetched"]
             \/ pc' = [pc EXCEPT ![r] = "pause"] \/ pc' = pc
      BY <1>3, Zenon DEF Page, NextCalendar, Over, Release, RefreshLeaves, stored
    <3>2. pc = [pc EXCEPT ![r] = "page"] \/ pc[r] # "page"
      BY <1>0
    <3>3. QED
      BY <3>1, <3>2
  <2>2. QED
    BY <1>0, <2>1
<1>4. CASE Pause(r)
  BY <1>0, <1>4 DEF Pause, Over, Release, RefreshLeaves, stored
<1>5. CASE Fetched(r)
  BY <1>0, <1>5 DEF Fetched, Over, Release, RefreshLeaves, stored
<1>6. CASE TakeGate(r)
  BY <1>0, <1>6 DEF TakeGate, stored
<1>7. CASE Check(r)
  BY <1>0, <1>7 DEF Check, Over, Release, stored, Cancelled
<1>8. CASE Store(r)
  BY <1>0, <1>8 DEF Store, NextCalendar
<1>9. QED
  BY <1>1, <1>2, <1>3, <1>4, <1>5, <1>6, <1>7, <1>8 DEF Refresh

(* A refresh keeps the invariant: it holds the lock, so neither command is inside,   *)
(* and what it commits was fetched with the token that is stored.                  *)
LEMMA RefreshSteps ==
    ASSUME NEW r \in Refreshers, CalendarInv, Refresh(r)
    PROVE  Rest'
<1> USE DEF CalendarInv
<1>0. /\ pc \in [Processes -> Steps] /\ r \in Processes
      /\ "connect" \in Processes \ {r} /\ "disconnect" \in Processes \ {r}
      /\ Refreshers \subseteq Processes
  BY DEF CalendarTypeOK, Processes, Refreshers
<1>1. /\ \A p \in Processes \ {r} : pc'[p] = pc[p]
      /\ pc'[r] \in {"idle", "asleep"} \/ lock' = r \/ (lock' = lock /\ pc[r] # "idle")
      /\ pc[r] \notin {"asleep", "dead", "lock"}
      /\ lock' # lock => lock \in {"free", r} \/ pc[r] # "idle"
  BY RefreshLocks
<1>2. /\ token' = token
      /\ \A q \in Refreshers \ {r} : job'[q] = job[q]
      /\ pc'[r] \in UsingToken => token # None /\ job'[r].with = token
  BY RefreshTokens
<1>3. /\ UNCHANGED <<stopVars, commandVars>> /\ GateGuards'
      /\ cache' = cache \/ (/\ pc[r] = "store"
                           /\ cache' = [cache EXCEPT ![job[r].calendar] = job[r].with])
  BY RefreshCommits
<1>4. Exclusive'
  <2>1. lock' # lock => lock \in {"free", r}
    BY <1>0, <1>1 DEF Exclusive
  <2>2. \A p \in Processes \ {r} : lock = p => p # "free"
    BY DEF Processes, Refreshers
  <2>3. ASSUME NEW p \in Processes, pc'[p] \notin {"idle", "asleep", "dead", "lock"}
        PROVE  lock' = p
    <3>1. CASE p = r
      BY <1>0, <1>1, <2>3, <3>1 DEF Exclusive
    <3>2. CASE p # r
      BY <1>1, <2>1, <2>2, <2>3, <3>2 DEF Exclusive
    <3>3. QED
      BY <3>1, <3>2
  <2>4. QED
    BY <2>3 DEF Exclusive
<1>5. JobsCurrent'
  BY <1>0, <1>1, <1>2 DEF JobsCurrent, UsingToken
<1>6. pc[r] = "store" => token # None /\ job[r].with = token
                         /\ lock = r /\ pc["connect"] # "save" /\ pc["disconnect"] # "report"
  BY <1>0 DEF JobsCurrent, Exclusive
<1>7. CommandsOrdered'
  BY <1>0, <1>1, <1>2, <1>3, <1>6 DEF CommandsOrdered, commandVars
<1>8. CacheIsOwn'
  BY <1>2, <1>3, <1>6 DEF CacheIsOwn, CalendarTypeOK
<1>9. DisconnectedIsClean'
  BY <1>0, <1>1, <1>2, <1>3, <1>6 DEF DisconnectedIsClean, At, commandVars
<1>10. QED
  BY <1>3, <1>4, <1>5, <1>7, <1>8, <1>9 DEF Rest

(* The steps of stop() and of the worker outside a refresh touch neither.           *)
LEMMA StopSteps ==
    ASSUME CalendarInv, Wakes \/ WorkerEnds \/ Stop \/ RequestCancel
    PROVE  Rest'
<1> USE DEF CalendarInv, At, Goto, stored, stopVars, commandVars
<1>0. /\ pc \in [Processes -> Steps] /\ "daemon" \in Processes
      /\ "connect" \in Processes /\ "disconnect" \in Processes
      /\ Refreshers \subseteq Processes
      /\ gate \in BOOLEAN /\ cancel \in BOOLEAN /\ settled \in BOOLEAN
  BY DEF CalendarTypeOK, Processes, Refreshers
<1>1. /\ UNCHANGED <<token, cache, lock, job, gate, grants, mine, failed>>
      /\ \/ pc' = pc
         \/ pc[ "daemon" ] \in {"idle", "asleep"}
              /\ pc' \in {[pc EXCEPT !["daemon"] = "dead"], [pc EXCEPT !["daemon"] = "idle"]}
  BY DEF Wakes, WorkerEnds, Stop, RequestCancel
<1>2. Exclusive'
  BY <1>0, <1>1 DEF Exclusive
<1>3. JobsCurrent'
  BY <1>0, <1>1 DEF JobsCurrent
<1>4. CommandsOrdered' /\ CacheIsOwn' /\ DisconnectedIsClean'
  BY <1>0, <1>1 DEF CommandsOrdered, CacheIsOwn, DisconnectedIsClean
<1>5. GateGuards'
  BY <1>0 DEF GateGuards, Wakes, WorkerEnds, Stop, RequestCancel
<1>6. QED
  BY <1>2, <1>3, <1>4, <1>5 DEF Rest

(* A connect replaces the token only inside the lock and after the cache is empty.   *)
LEMMA ConnectSteps ==
    ASSUME CalendarInv, Connect \/ ConnectLocks \/ ConnectClears \/ ConnectSaves
    PROVE  Rest'
<1> USE DEF CalendarInv, At, Goto, stored, stopVars, CommandLeaves
<1>0. /\ pc \in [Processes -> Steps]
      /\ "daemon" \in Processes /\ "refresh" \in Processes
      /\ "connect" \in Processes /\ "disconnect" \in Processes
      /\ Refreshers = {"daemon", "refresh"}
      /\ Processes = {"daemon", "refresh", "connect", "disconnect"}
  BY DEF CalendarTypeOK, Processes, Refreshers
<1>1. /\ \A p \in Processes \ {"connect"} : pc'[p] = pc[p]
      /\ UNCHANGED <<job, gate, cancel, stopper, settled, failed>>
  BY <1>0 DEF Connect, ConnectLocks, ConnectClears, ConnectSaves, Acquire, Release, commandVars
<1>2. Exclusive'
  <2>1. CASE Connect
    BY <1>0, <2>1 DEF Exclusive, Connect
  <2>2. CASE ConnectLocks
    BY <1>0, <2>2 DEF Exclusive, ConnectLocks, Acquire
  <2>3. CASE ConnectClears
    BY <1>0, <2>3 DEF Exclusive, ConnectClears, Release
  <2>4. CASE ConnectSaves
    BY <1>0, <2>4 DEF Exclusive, ConnectSaves, Release
  <2>5. QED
    BY <2>1, <2>2, <2>3, <2>4
<1>3. GateGuards'
  BY <1>0, <1>1 DEF GateGuards
<1>4. /\ cache' = cache \/ pc["connect"] = "clear"
      /\ token' = token \/ (pc["connect"] = "save" /\ cache' = cache)
      /\ pc'["connect"] = "save" => cache' = Empty
      /\ \A c \in Calendars : cache'[c] \in {cache[c], None}
  BY <1>0 DEF Connect, ConnectLocks, ConnectClears, ConnectSaves, Acquire, Release,
              ClearCache, ClearFails, Empty, CommandsOrdered
<1>5. pc["connect"] \in {"clear", "save"} =>
          /\ \A r \in Refreshers : pc[r] \in {"idle", "asleep", "dead", "lock"}
          /\ pc["disconnect"] \in {"idle", "asleep", "dead", "lock"}
  BY <1>0 DEF Exclusive
<1>6. JobsCurrent'
  BY <1>0, <1>1, <1>4, <1>5 DEF JobsCurrent
<1>7. CommandsOrdered' /\ DisconnectedIsClean'
  BY <1>0, <1>1, <1>4, <1>5 DEF CommandsOrdered, DisconnectedIsClean
<1>8. CacheIsOwn'
  <2>1. CASE token' = token
    BY <1>4, <2>1 DEF CacheIsOwn
  <2>2. CASE pc["connect"] = "save" /\ cache' = cache
    BY <2>2 DEF CacheIsOwn, CommandsOrdered, Empty
  <2>3. QED
    BY <1>4, <2>1, <2>2
<1>9. QED
  BY <1>2, <1>3, <1>6, <1>7, <1>8 DEF Rest

(* A disconnect only takes away, inside the lock, and reports what it could not.     *)
LEMMA DisconnectSteps ==
    ASSUME CalendarInv,
           Disconnect \/ DisconnectClears \/ DisconnectEmpties \/ DisconnectEnds
    PROVE  Rest'
<1> USE DEF CalendarInv, At, Goto, stored, stopVars, CommandLeaves
<1>0. /\ pc \in [Processes -> Steps]
      /\ "daemon" \in Processes /\ "refresh" \in Processes
      /\ "connect" \in Processes /\ "disconnect" \in Processes
      /\ Refreshers = {"daemon", "refresh"}
      /\ Processes = {"daemon", "refresh", "connect", "disconnect"}
      /\ failed \in BOOLEAN
  BY DEF CalendarTypeOK, Processes, Refreshers
<1>1. /\ \A p \in Processes \ {"disconnect"} : pc'[p] = pc[p]
      /\ UNCHANGED <<job, gate, cancel, stopper, settled>>
  BY <1>0 DEF Disconnect, DisconnectClears, DisconnectEmpties, DisconnectEnds, Acquire, Release
<1>2. Exclusive'
  <2>1. CASE Disconnect
    BY <1>0, <2>1 DEF Exclusive, Disconnect, Acquire
  <2>2. CASE DisconnectClears
    BY <1>0, <2>2 DEF Exclusive, DisconnectClears
  <2>3. CASE DisconnectEmpties
    BY <1>0, <2>3 DEF Exclusive, DisconnectEmpties
  <2>4. CASE DisconnectEnds
    BY <1>0, <2>4 DEF Exclusive, DisconnectEnds, Release
  <2>5. QED
    BY <2>1, <2>2, <2>3, <2>4
<1>3. GateGuards'
  BY <1>0, <1>1 DEF GateGuards
<1>4. /\ (token' = token /\ cache' = cache) \/ pc["disconnect"] \in {"secret", "cache"}
      /\ token' \in {token, None}
      /\ \A c \in Calendars : cache'[c] \in {cache[c], None}
  BY <1>0 DEF Disconnect, DisconnectClears, DisconnectEmpties, DisconnectEnds, ClearCache,
              ClearFails, Empty
<1>5. pc["disconnect"] \in {"secret", "cache"} =>
          /\ \A r \in Refreshers : pc[r] \in {"idle", "asleep", "dead", "lock"}
          /\ pc["connect"] \in {"idle", "asleep", "dead", "lock"}
  BY <1>0 DEF Exclusive
<1>6. JobsCurrent'
  BY <1>0, <1>1, <1>4, <1>5 DEF JobsCurrent
<1>7. CommandsOrdered' /\ DisconnectedIsClean'
  <2>1. CASE Disconnect
    BY <1>0, <2>1 DEF CommandsOrdered, DisconnectedIsClean, Disconnect, Acquire
  <2>2. CASE DisconnectClears
    BY <1>0, <1>5, <2>2 DEF CommandsOrdered, DisconnectedIsClean, DisconnectClears
  <2>3. CASE DisconnectEmpties
    BY <1>0, <1>5, <2>3
       DEF CommandsOrdered, DisconnectedIsClean, DisconnectEmpties, ClearCache
  <2>4. CASE DisconnectEnds
    BY <1>0, <2>4
       DEF CommandsOrdered, DisconnectedIsClean, DisconnectEnds, Release, commandVars
  <2>5. QED
    BY <2>1, <2>2, <2>3, <2>4
<1>8. CacheIsOwn'
  BY <1>4 DEF CacheIsOwn
<1>9. QED
  BY <1>2, <1>3, <1>6, <1>7, <1>8 DEF Rest

(* The death of a process gives up what it held and leaves what is stored.          *)
LEMMA DeathSteps ==
    ASSUME NEW p \in Processes, CalendarInv, Dies(p)
    PROVE  Rest'
<1> USE DEF CalendarInv, At, Goto, stored, stopVars, commandVars
<1>0. /\ pc \in [Processes -> Steps] /\ gate \in BOOLEAN
      /\ "daemon" \in Processes /\ "connect" \in Processes /\ "disconnect" \in Processes
      /\ Refreshers \subseteq Processes
  BY DEF CalendarTypeOK, Processes, Refreshers
<1>1. /\ \A q \in Processes \ {p} : pc'[q] = pc[q]
      /\ pc'[p] = (IF p = "daemon" THEN "dead" ELSE "idle")
      /\ lock' = IF lock = p THEN "free" ELSE lock
      /\ gate' = (gate /\ p # "daemon")
      /\ \A r \in Refreshers \ {p} : job'[r] = job[r]
      /\ UNCHANGED <<token, cache, cancel, stopper, settled, grants, mine, failed>>
  BY <1>0 DEF Dies
<1>2. Exclusive'
  BY <1>1 DEF Exclusive
<1>3. JobsCurrent'
  BY <1>0, <1>1 DEF JobsCurrent
<1>4. CommandsOrdered' /\ CacheIsOwn' /\ DisconnectedIsClean'
  BY <1>0, <1>1 DEF CommandsOrdered, CacheIsOwn, DisconnectedIsClean
<1>5. GateGuards'
  BY <1>0, <1>1 DEF GateGuards
<1>6. QED
  BY <1>2, <1>3, <1>4, <1>5 DEF Rest

(* Every step keeps the invariant.                                                *)
LEMMA CalendarSteps == CalendarInv /\ [Next]_vars => CalendarInv'
<1> SUFFICES ASSUME CalendarInv, [Next]_vars PROVE CalendarInv'
  OBVIOUS
<1>1. CalendarTypeOK'
  BY TypeSteps DEF CalendarInv
<1>2. ASSUME NEW r \in Refreshers, Refresh(r) PROVE Rest'
  BY <1>2, RefreshSteps
<1>3. ASSUME NEW p \in Processes, Dies(p) PROVE Rest'
  BY <1>3, DeathSteps
<1>4. CASE UNCHANGED vars
  <2> USE <1>4 DEF CalendarInv, vars, stored, stopVars, commandVars
  <2>1. Exclusive' /\ JobsCurrent'
    BY DEF Exclusive, JobsCurrent
  <2>2. CommandsOrdered' /\ GateGuards'
    BY DEF CommandsOrdered, GateGuards
  <2>3. CacheIsOwn' /\ DisconnectedIsClean'
    BY DEF CacheIsOwn, DisconnectedIsClean, At
  <2>4. QED
    BY <1>1, <2>1, <2>2, <2>3
<1>5. ASSUME Next PROVE Rest'
  <2>1. CASE \E r \in Refreshers : Refresh(r)
    BY <1>2, <2>1
  <2>2. CASE Wakes \/ WorkerEnds \/ Stop \/ RequestCancel
    BY <2>2, StopSteps
  <2>3. CASE Connect \/ ConnectLocks \/ ConnectClears \/ ConnectSaves
    BY <2>3, ConnectSteps
  <2>4. CASE Disconnect \/ DisconnectClears \/ DisconnectEmpties \/ DisconnectEnds
    BY <2>4, DisconnectSteps
  <2>5. QED
    BY <1>3, <1>5, <2>1, <2>2, <2>3, <2>4 DEF Next, Daemon, Refreshers
<1>6. QED
  BY <1>1, <1>4, <1>5 DEF CalendarInv, Rest

----------------------------------------------------------------------------
(* The refreshes, the commands and stop(), interleaved in any way and dying         *)
(* anywhere, keep the lock exclusive, work with the stored token and hold the gate   *)
(* from the last look at the cancellation to the commit.                           *)
THEOREM CalendarInvariant == Spec => []CalendarInv
<1>1. Init => CalendarInv
  BY CalendarStarts
<1>2. CalendarInv /\ [Next]_vars => CalendarInv'
  BY CalendarSteps
<1>3. QED
  BY <1>1, <1>2, PTL DEF Spec

(* CalendarOAuth.connect empties the cache before it stores the credential, and a    *)
(* refresh commits only what it fetched with the credential that is stored: no      *)
(* snapshot of another account lies beside a credential.                           *)
THEOREM CacheBelongsToCredential == Spec => []CacheIsOwn
<1>1. CalendarInv => CacheIsOwn
  BY DEF CalendarInv
<1>2. QED
  BY <1>1, CalendarInvariant, PTL

(* CalendarOAuth.disconnect that reports success has removed the token and every    *)
(* snapshot, and no refresh has put one back.                                      *)
THEOREM DisconnectLeavesNothing == Spec => []DisconnectedIsClean
<1>1. CalendarInv => DisconnectedIsClean
  BY DEF CalendarInv
<1>2. QED
  BY <1>1, CalendarInvariant, PTL

(* CalendarRefreshService.request_cancel that could take the commit gate, and said   *)
(* so, is followed by no commit of the daemon's refresh.                           *)
THEOREM SettledRefreshIsOver == Spec => SettledIsFinal
<1>1. CalendarInv /\ [Next]_vars => [settled /\ At("daemon", "store") => UNCHANGED cache]_vars
  BY DEF CalendarInv, GateGuards, At
<1>2. QED
  BY <1>1, CalendarInvariant, PTL DEF Spec, SettledIsFinal

============================================================================
