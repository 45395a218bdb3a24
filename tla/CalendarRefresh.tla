-------------------------- MODULE CalendarRefresh --------------------------
(* The Calendar credential and its cached snapshots: the daemon's refresh worker   *)
(* and its stop, the `calendar refresh`, `connect` and `disconnect` commands, each  *)
(* in a process of its own, under one advisory lock that a process drops when it    *)
(* dies.  A snapshot is known by the credential it was fetched with.               *)
EXTENDS Integers, FiniteSets

CONSTANTS
    MaxCalendars,   \* selected calendars
    MaxGrants,      \* bound: refresh tokens Google issues
    MaxAttempts,    \* _MAX_ATTEMPTS
    MaxPages        \* _MAX_PAGES

ASSUME CalendarAssumption ==
    /\ MaxCalendars \in Nat /\ MaxGrants \in Nat
    /\ MaxAttempts \in Nat \ {0} /\ MaxPages \in Nat \ {0}

VARIABLES
    token,      \* the refresh token in Secret Service
    cache,      \* the snapshot of each calendar
    lock,       \* who holds calendar.lock
    pc,         \* where each process stands
    job,        \* what each refresh has done
    cancel,     \* CalendarRefreshService._stop
    gate,       \* the daemon's refresh holds its _commit_gate
    stopper,    \* where CalendarRefreshService.stop stands
    settled,    \* what its request_cancel returned
    grants,     \* refresh tokens issued
    mine,       \* the token that `connect` received
    failed      \* `disconnect` has a cleanup error to report

stored == <<token, cache>>
stopVars == <<cancel, stopper, settled>>
commandVars == <<grants, mine, failed>>
vars == <<stored, lock, pc, job, gate, stopVars, commandVars>>

None == 0
Calendars == 1..MaxCalendars
Refreshers == {"daemon", "refresh"}
Processes == Refreshers \cup {"connect", "disconnect"}

Empty == [c \in Calendars |-> None]
At(p, step) == pc[p] = step
Goto(p, step) == pc' = [pc EXCEPT ![p] = step]
Cancelled(r) == r = "daemon" /\ cancel

(* What a refresh has done: the calendar it is at, the pages read of it, the attempts *)
(* at this page, whether the access token was renewed, and the credential used.     *)
NoJob == [calendar |-> 1, page |-> 0, attempt |-> 0, renewed |-> FALSE, with |-> None]

----------------------------------------------------------------------------
(* calendar_operation_lock, and its end with that of the process.                  *)

Acquire(p, step) == lock = "free" /\ lock' = p /\ Goto(p, step)
Release(p, step) == lock' = "free" /\ Goto(p, step)

(* A process dies; what Secret Service and the cache hold stays.                   *)
Dies(p) ==
    /\ pc[p] \notin {"idle", "dead"}
    /\ Goto(p, IF p = "daemon" THEN "dead" ELSE "idle")
    /\ lock' = IF lock = p THEN "free" ELSE lock
    /\ gate' = (gate /\ p # "daemon")
    /\ job' = [r \in Refreshers |-> IF r = p THEN NoJob ELSE job[r]]
    /\ UNCHANGED <<stored, stopVars, commandVars>>

----------------------------------------------------------------------------
(* CalendarRefresher.refresh with GoogleCalendarClient.                            *)

RefreshLeaves == UNCHANGED <<stored, gate, stopVars, commandVars>>

(* Mutant: a refresh does not look at the lock.                                    *)
BeginUnlocked(r) ==
    /\ At(r, "idle") /\ ~Cancelled(r)
    /\ UNCHANGED lock /\ Goto(r, "next")
    /\ UNCHANGED job /\ RefreshLeaves

(* The daemon goes to sleep again when another operation holds the lock.            *)
Begin(r) ==
    /\ At(r, "idle") /\ ~Cancelled(r)
    /\ IF r = "daemon" /\ lock # "free" THEN Goto(r, "asleep") /\ UNCHANGED lock
       ELSE Acquire(r, "next")
    /\ UNCHANGED job /\ RefreshLeaves

Over(r) ==
    /\ Release(r, IF r = "daemon" THEN "asleep" ELSE "idle")
    /\ job' = [job EXCEPT ![r] = NoJob]

NextCalendar(r) ==
    /\ Goto(r, "next")
    /\ job' = [job EXCEPT ![r] = [NoJob EXCEPT !.calendar = job[r].calendar + 1]]

(* The next calendar: an access token is fetched with the stored credential.  An    *)
(* error of CalendarOAuth is none that the loop over the calendars handles.         *)
NextOf(r) ==
    /\ At(r, "next") /\ RefreshLeaves
    /\ \/ Over(r)
       \/ /\ job[r].calendar <= MaxCalendars /\ ~Cancelled(r) /\ token # None
          /\ Goto(r, "page") /\ job' = [job EXCEPT ![r].with = token]
          /\ UNCHANGED lock

(* A request of _get_page is over, and its answer looked at unless cancelled.       *)
Page(r) ==
    /\ At(r, "page") /\ RefreshLeaves
    /\ LET j == job[r]
           last == j.attempt + 1 = MaxAttempts
       IN
       IF Cancelled(r) THEN Over(r)
       ELSE \* the last page, another one, or one page too many
            \/ Goto(r, "fetched") /\ UNCHANGED <<lock, job>>
            \/ /\ IF j.page + 1 = MaxPages THEN NextCalendar(r)
                  ELSE /\ UNCHANGED pc
                       /\ job' = [job EXCEPT ![r] = [j EXCEPT !.page = @ + 1, !.attempt = 0]]
               /\ UNCHANGED lock
            \* a transient failure
            \/ /\ IF last THEN NextCalendar(r) ELSE Goto(r, "pause") /\ UNCHANGED job
               /\ UNCHANGED lock
            \* 401, the first time: a new access token is asked for, or cannot be had
            \/ /\ ~j.renewed
               /\ \/ Over(r)
                  \/ /\ token # None /\ UNCHANGED lock
                     /\ IF last THEN NextCalendar(r)
                        ELSE /\ UNCHANGED pc
                             /\ job' = [job EXCEPT ![r] = [j EXCEPT !.attempt = @ + 1,
                                                             !.renewed = TRUE, !.with = token]]
            \* any other failure
            \/ NextCalendar(r) /\ UNCHANGED lock

Pause(r) ==
    /\ At(r, "pause") /\ RefreshLeaves
    /\ IF Cancelled(r) THEN Over(r)
       ELSE Goto(r, "page") /\ job' = [job EXCEPT ![r].attempt = @ + 1] /\ UNCHANGED lock

Fetched(r) ==
    /\ At(r, "fetched") /\ RefreshLeaves
    /\ IF Cancelled(r) THEN Over(r) ELSE Goto(r, "gate") /\ UNCHANGED <<lock, job>>

(* Only the gate of the daemon's refresher is contended: by its stop().             *)
TakeGate(r) ==
    /\ At(r, "gate") /\ Goto(r, "check")
    /\ gate' = (gate \/ r = "daemon")
    /\ UNCHANGED <<stored, lock, job, stopVars, commandVars>>

(* Mutant: cancellation is not looked at again under the gate.                     *)
CheckNothing(r) ==
    /\ At(r, "check") /\ UNCHANGED <<stored, stopVars, commandVars>>
    /\ Goto(r, "store") /\ UNCHANGED <<lock, job, gate>>

Check(r) ==
    /\ At(r, "check") /\ UNCHANGED <<stored, stopVars, commandVars>>
    /\ IF Cancelled(r) THEN Over(r) /\ gate' = FALSE
       ELSE Goto(r, "store") /\ UNCHANGED <<lock, job, gate>>

(* CalendarCache.store replaces the snapshot, or fails before or after it did.      *)
Store(r) ==
    /\ At(r, "store")
    /\ \/ cache' = [cache EXCEPT ![job[r].calendar] = job[r].with]
       \/ UNCHANGED cache
    /\ gate' = (gate /\ r # "daemon")
    /\ NextCalendar(r)
    /\ UNCHANGED <<token, lock, stopVars, commandVars>>

(* Mutant: the event is cleared by the wait that it ended.                         *)
WakesClearing ==
    /\ At("daemon", "asleep") /\ Goto("daemon", "idle") /\ cancel' = FALSE
    /\ UNCHANGED <<stored, lock, job, gate, stopper, settled, commandVars>>

(* _run: the interval is over, or stop() has set the event.                        *)
Wakes ==
    /\ At("daemon", "asleep")
    /\ Goto("daemon", IF cancel THEN "dead" ELSE "idle")
    /\ UNCHANGED <<stored, lock, job, gate, stopVars, commandVars>>

WorkerEnds ==
    /\ At("daemon", "idle") /\ cancel
    /\ Goto("daemon", "dead")
    /\ UNCHANGED <<stored, lock, job, gate, stopVars, commandVars>>

(* stop and request_cancel: the event, then the gate, which may take too long.      *)
Stop ==
    /\ stopper = "ready" /\ stopper' = "gate" /\ cancel' = TRUE
    /\ UNCHANGED <<stored, lock, pc, job, gate, settled, commandVars>>

RequestCancel ==
    /\ stopper = "gate" /\ stopper' = "join"
    /\ \/ ~gate /\ settled' = TRUE
       \/ gate /\ UNCHANGED settled
    /\ UNCHANGED <<stored, lock, pc, job, gate, cancel, commandVars>>

----------------------------------------------------------------------------
(* CalendarOAuth.connect and disconnect.                                           *)

CommandLeaves == UNCHANGED <<job, gate, stopVars>>

(* clear_calendar_cache removes everything, or fails on the way.                   *)
ClearCache == cache' = Empty
ClearFails == \E kept \in SUBSET Calendars :
                  cache' = [c \in Calendars |-> IF c \in kept THEN cache[c] ELSE None]

(* The authorization is granted; a token without the scopes is forgotten.          *)
Connect ==
    /\ At("connect", "idle") /\ grants < MaxGrants
    /\ grants' = grants + 1
    /\ \/ mine' = grants' /\ Goto("connect", "lock")
       \/ UNCHANGED <<mine, pc>>
    /\ UNCHANGED <<stored, lock, failed>> /\ CommandLeaves

ConnectLocks ==
    /\ At("connect", "lock") /\ Acquire("connect", "clear")
    /\ UNCHANGED <<stored, commandVars>> /\ CommandLeaves

ConnectClears ==
    /\ At("connect", "clear")
    /\ \/ ClearCache /\ Goto("connect", "save") /\ UNCHANGED lock
       \/ ClearFails /\ Release("connect", "idle")
    /\ UNCHANGED <<token, commandVars>> /\ CommandLeaves

(* A store that fails may have taken place.                                        *)
ConnectSaves ==
    /\ At("connect", "save")
    /\ token' \in {token, mine}
    /\ Release("connect", "idle")
    /\ UNCHANGED <<cache, commandVars>> /\ CommandLeaves

Disconnect ==
    /\ At("disconnect", "idle") /\ Acquire("disconnect", "secret")
    /\ failed' \in BOOLEAN    \* whether the token can be loaded, to revoke it
    /\ UNCHANGED <<stored, grants, mine>> /\ CommandLeaves

(* Mutant: an error of the removal is swallowed.                                   *)
DisconnectClearsQuietly ==
    /\ At("disconnect", "secret") /\ Goto("disconnect", "cache")
    /\ token' \in {token, None}
    /\ UNCHANGED <<cache, lock, commandVars>> /\ CommandLeaves

(* Secret Service clears the token; a failure, or nothing to clear, is an error.    *)
DisconnectClears ==
    /\ At("disconnect", "secret") /\ Goto("disconnect", "cache")
    /\ \/ token # None /\ token' = None /\ UNCHANGED failed
       \/ UNCHANGED token /\ failed' = TRUE
    /\ UNCHANGED <<cache, lock, grants, mine>> /\ CommandLeaves

DisconnectEmpties ==
    /\ At("disconnect", "cache") /\ Goto("disconnect", "report")
    /\ \/ ClearCache /\ UNCHANGED failed
       \/ ClearFails /\ failed' = TRUE
    /\ UNCHANGED <<token, lock, grants, mine>> /\ CommandLeaves

DisconnectEnds ==
    /\ At("disconnect", "report") /\ Release("disconnect", "idle")
    /\ UNCHANGED <<stored, commandVars>> /\ CommandLeaves

----------------------------------------------------------------------------
Init ==
    /\ token = None /\ cache = Empty /\ lock = "free"
    /\ pc = [p \in Processes |-> "idle"]
    /\ job = [r \in Refreshers |-> NoJob]
    /\ cancel = FALSE /\ gate = FALSE /\ stopper = "ready" /\ settled = FALSE
    /\ grants = 0 /\ mine = None /\ failed = FALSE

Refresh(r) == Begin(r) \/ NextOf(r) \/ Page(r) \/ Pause(r) \/ Fetched(r)
                 \/ TakeGate(r) \/ Check(r) \/ Store(r)
Daemon == Refresh("daemon") \/ Wakes \/ WorkerEnds

Next ==
    \/ Daemon \/ Stop \/ RequestCancel
    \/ Refresh("refresh")
    \/ Connect \/ ConnectLocks \/ ConnectClears \/ ConnectSaves
    \/ Disconnect \/ DisconnectClears \/ DisconnectEmpties \/ DisconnectEnds
    \/ \E p \in Processes : Dies(p)

(* The worker thread is scheduled and its requests have timeouts.                  *)
Spec == Init /\ [][Next]_vars /\ WF_vars(Daemon)

----------------------------------------------------------------------------
(* Properties.                                                                    *)

(* calendar_oauth.py: "Remove snapshots issued for a prior credential before        *)
(* committing the replacement".  Whatever process dies or fails where, a stored     *)
(* credential never has snapshots of another one beside it.                        *)
CacheIsOwn == token # None => \A c \in Calendars : cache[c] \in {None, token}

(* A disconnect about to report "disconnected" leaves neither token nor snapshot,    *)
(* although a refresh may have been under way when it began.                       *)
DisconnectedIsClean == At("disconnect", "report") /\ ~failed => token = None /\ cache = Empty

(* Once request_cancel has reported the refresh settled, the daemon's refresh       *)
(* commits no snapshot any more.                                                  *)
SettledIsFinal == [][settled /\ At("daemon", "store") => UNCHANGED cache]_vars

(* stop() ends the worker at the next request, delay or commit.                    *)
StopEndsRefresh == cancel ~> At("daemon", "dead")

============================================================================
