------------------------ MODULE PublicationService ------------------------
(* The daemon's publication worker: speakr_service.py.  GLib callbacks submit      *)
(* bookkeeping (a completed recording, a rename) to one worker thread, which       *)
(* alternates between draining that queue and one network-gated batch of durable   *)
(* work.  stop() is called once, from the main thread.  What the batch itself does *)
(* is SpeakrPublisher's matter: here it is a network operation that takes a while. *)
EXTENDS Integers, Sequences

CONSTANTS
    QueueCapacity,  \* queue_capacity
    MaxItems        \* bound: callbacks submitted

ASSUME ServiceAssumption == QueueCapacity \in Nat \ {0} /\ MaxItems \in Nat

VARIABLES
    started, stopping,  \* _started, _stopping
    thread,     \* the worker thread: none, created, alive or dead
    queue,      \* _queue, of callbacks numbered in the order they were accepted
    wake,       \* _wake
    active,     \* _active_cancellation: none, live or cancelled
    pc,         \* where the worker stands
    stopper,    \* where the call of stop() stands
    accepted,   \* history: callbacks accepted (submit returned True)
    submitted,  \* history: callbacks submitted
    handled     \* history: callbacks handled, in order

lifecycle == <<started, stopping, thread, stopper>>
history == <<accepted, submitted, handled>>
vars == <<lifecycle, queue, wake, active, pc, history>>

WorkerSteps == {"drain", "handle", "check_stop", "cycle", "probe", "token", "batch",
                "leave", "enter_wait", "wait", "end"}

---------------------------------------------------------------------------
(* start, _submit and stop: each is one critical section of _state_lock.           *)

Start ==
    /\ ~ started
    /\ started' = TRUE
    /\ thread' = IF stopping THEN thread ELSE "alive"
    /\ UNCHANGED <<stopping, stopper, queue, wake, active, pc, history>>

Submit ==
    /\ submitted < MaxItems
    /\ submitted' = submitted + 1
    /\ IF stopping \/ Len(queue) = QueueCapacity
       THEN UNCHANGED <<queue, wake, accepted>>
       ELSE /\ queue' = Append(queue, accepted + 1)
            /\ accepted' = accepted + 1
            /\ wake' = TRUE
    /\ UNCHANGED <<lifecycle, active, pc, handled>>

(* A service that was never started gets a worker that only drains.               *)
Stop ==
    /\ stopper = "ready"
    /\ stopping' = TRUE /\ started' = TRUE
    /\ thread' = IF started THEN thread ELSE "created"
    /\ stopper' = IF active = "live" THEN "cancel"
                  ELSE IF started THEN "join" ELSE "start"
    /\ wake' = TRUE
    /\ UNCHANGED <<queue, active, pc, history>>

Cancel ==
    /\ stopper = "cancel"
    /\ active' = IF active = "live" THEN "cancelled" ELSE active
    /\ stopper' = "join"
    /\ UNCHANGED <<started, stopping, thread, queue, wake, pc, history>>

StartDrain ==
    /\ stopper = "start"
    /\ thread' = "alive"
    /\ stopper' = "join"
    /\ UNCHANGED <<started, stopping, queue, wake, active, pc, history>>

(* The bounded join: stop() returns whether the worker is dead by then.           *)
Join ==
    /\ stopper = "join"
    /\ stopper' = "returned"
    /\ UNCHANGED <<started, stopping, thread, queue, wake, active, pc, history>>

---------------------------------------------------------------------------
(* The worker: _run, _drain_bookkeeping, _run_publication_cycle, _wait_for_wake.   *)

At(step) == thread = "alive" /\ pc = step
WorkerGoto(step) == pc' = step /\ UNCHANGED <<lifecycle, queue, wake, active, history>>

TakeItem ==
    /\ At("drain") /\ queue # <<>>
    /\ pc' = "handle"
    /\ queue' = Tail(queue)
    /\ handled' = Append(handled, Head(queue))
    /\ UNCHANGED <<lifecycle, wake, active, accepted, submitted>>

(* Mutant: the exception of a failing callback ends the worker.                   *)
HandleItemOrDie ==
    /\ At("handle")
    /\ \/ WorkerGoto("drain")
       \/ /\ pc' = "end" /\ thread' = "dead"
          /\ UNCHANGED <<started, stopping, stopper, queue, wake, active, history>>

(* A callback that fails is passed over like one that succeeds.                   *)
HandleItem == At("handle") /\ WorkerGoto("drain")

FindEmpty == At("drain") /\ queue = <<>> /\ WorkerGoto("check_stop")

(* Mutant: the worker looks for due work before it looks at _stopping.            *)
CheckStopAfterWork ==
    /\ At("check_stop")
    /\ \/ /\ stopping
          /\ thread' = "dead" /\ pc' = "end" /\ active' = "none"
          /\ UNCHANGED <<started, stopping, stopper, queue, wake, history>>
       \/ WorkerGoto("cycle")
       \/ ~ stopping /\ WorkerGoto("enter_wait")

(* Disabled, misconfigured or failing cycles only wait.                           *)
CheckStop ==
    /\ At("check_stop")
    /\ \/ /\ stopping
          /\ thread' = "dead" /\ pc' = "end" /\ active' = "none"
          /\ UNCHANGED <<started, stopping, stopper, queue, wake, history>>
       \/ /\ ~ stopping
          /\ \/ WorkerGoto("cycle")
             \/ WorkerGoto("enter_wait")

(* Due work or none; an SSID gate to probe or none.                               *)
Cycle ==
    /\ At("cycle")
    /\ WorkerGoto("probe") \/ WorkerGoto("token") \/ WorkerGoto("enter_wait")

(* Mutant: the stop check was made before the gate was taken.                     *)
EnterNetworkUnchecked ==
    /\ \/ At("probe")
       \/ At("batch")
    /\ active = "none"
    /\ active' = "live"
    /\ UNCHANGED <<pc, lifecycle, queue, wake, history>>

(* _network_call: the stop check and the registration are one critical section.    *)
EnterNetwork ==
    /\ \/ At("probe")
       \/ At("batch")
    /\ active = "none"
    /\ IF stopping THEN /\ pc' = "drain"
                        /\ UNCHANGED active
       ELSE /\ active' = "live"
            /\ UNCHANGED pc
    /\ UNCHANGED <<lifecycle, queue, wake, history>>

(* The network operation ends: it is answered, times out or is cancelled.         *)
LeaveNetwork ==
    /\ \/ At("probe") /\ pc' \in {"token", "enter_wait"}
       \/ At("batch") /\ pc' = "drain"
    /\ active # "none"
    /\ active' = "none"
    /\ UNCHANGED <<lifecycle, queue, wake, history>>

(* The token is read after admission; without one the due jobs are blocked.       *)
ReadToken ==
    /\ At("token")
    /\ \/ WorkerGoto("drain")
       \/ ~ stopping /\ WorkerGoto("batch")

(* Mutant: the signal is cleared without looking at what it announced.            *)
EnterWaitBlindly ==
    /\ At("enter_wait")
    /\ wake' = FALSE
    /\ pc' = "wait"
    /\ UNCHANGED <<lifecycle, queue, active, history>>

EnterWait ==
    /\ At("enter_wait")
    /\ IF stopping \/ queue # <<>> THEN WorkerGoto("drain")
       ELSE /\ wake' = FALSE
            /\ pc' = "wait"
            /\ UNCHANGED <<lifecycle, queue, active, history>>

Woken == At("wait") /\ wake /\ WorkerGoto("drain")

(* Event.wait returns by itself after at most the periodic interval.              *)
WaitTimeout == At("wait") /\ ~ wake /\ WorkerGoto("drain")

---------------------------------------------------------------------------
Init ==
    /\ started = FALSE /\ stopping = FALSE /\ thread = "none" /\ stopper = "ready"
    /\ queue = <<>> /\ wake = FALSE /\ active = "none" /\ pc = "drain"
    /\ accepted = 0 /\ submitted = 0 /\ handled = <<>>

Worker ==
    \/ TakeItem \/ HandleItem \/ FindEmpty \/ CheckStop \/ Cycle
    \/ EnterNetwork \/ LeaveNetwork \/ ReadToken
    \/ EnterWait \/ Woken \/ WaitTimeout

Stopping == Cancel \/ StartDrain \/ Join

Next == Start \/ Submit \/ Stop \/ Stopping \/ Worker

(* The worker thread is scheduled, its network operations have timeouts, its wait  *)
(* has one, and stop() runs on once it was called.                                *)
Spec == Init /\ [][Next]_vars /\ WF_vars(Worker) /\ WF_vars(Stopping)

---------------------------------------------------------------------------
(* Properties.                                                                    *)

ServiceTypeOK ==
    /\ started \in BOOLEAN /\ stopping \in BOOLEAN /\ wake \in BOOLEAN
    /\ thread \in {"none", "created", "alive", "dead"}
    /\ stopper \in {"ready", "cancel", "start", "join", "returned"}
    /\ queue \in Seq(1..MaxItems) /\ Len(queue) <= QueueCapacity
    /\ active \in {"none", "live", "cancelled"}
    /\ pc \in WorkerSteps
    /\ accepted \in 0..MaxItems /\ submitted \in accepted..MaxItems
    /\ handled \in Seq(1..MaxItems)

(* "Submissions cannot lose a wake": a worker that sleeps on a cleared signal has  *)
(* nothing queued and has not been asked to stop.                                 *)
WakeNotLost == pc = "wait" /\ ~ wake => queue = <<>> /\ ~ stopping

(* Once stop() has gone past its cancellation, no network operation runs that was  *)
(* not told to cancel, although the worker may have been about to begin one.  (The *)
(* probe heeds its cancellation; run_due ignores it and is only waited for.)       *)
StopQuiesces == stopper \in {"start", "join", "returned"} => active # "live"

(* An accepted callback is handled once, in the order it was accepted, and never   *)
(* dropped for a later one: a rename must not overtake the recording it renames.   *)
HandledInOrder == handled \o queue = [n \in 1..accepted |-> n]

(* A running service handles what it accepts, whatever its callbacks raise and     *)
(* however long its batches take, until it is stopped.                            *)
AcceptedIsHandled ==
    \A n \in 1..MaxItems :
        accepted >= n /\ thread = "alive" ~> Len(handled) >= n \/ stopping

(* The worker ends once stop() was called, whatever it was doing.                 *)
StopEndsWorker == stopping ~> thread \in {"none", "dead"}

============================================================================
