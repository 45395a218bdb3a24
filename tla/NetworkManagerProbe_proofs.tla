--------------------- MODULE NetworkManagerProbe_proofs ---------------------
(* Theorems about the publication worker, for every queue capacity and every number *)
(* of callbacks, and about the SSID gate inside it, for any number of connections.  *)
EXTENDS NetworkManagerProbe, SequenceTheorems, TLAPS

----------------------------------------------------------------------------
(* The worker, its queue and its end.                                             *)

(* stop() marks the service as stopping before it does anything else.             *)
StopperMarks == stopper # "ready" => stopping

ServiceInv == ServiceTypeOK /\ WakeNotLost /\ StopperMarks /\ StopQuiesces /\ HandledInOrder

(* A service that was just constructed satisfies the invariant.                   *)
LEMMA ServiceStarts == Init => ServiceInv
<1> SUFFICES ASSUME Init PROVE ServiceInv
  OBVIOUS
<1>1. ServiceTypeOK
  <2>1. /\ queue = <<>> /\ handled = <<>> /\ accepted = 0 /\ submitted = 0
        /\ Len(queue) <= QueueCapacity /\ queue \in Seq(1..MaxItems)
        /\ handled \in Seq(1..MaxItems)
    BY ServiceAssumption DEF Init
  <2>2. accepted \in 0..MaxItems /\ submitted \in accepted..MaxItems
    BY <2>1, ServiceAssumption
  <2>3. QED
    BY <2>1, <2>2 DEF Init, ServiceTypeOK, WorkerSteps
<1>2. HandledInOrder
  <2>1. <<>> \o <<>> = [n \in 1..0 |-> n]
    OBVIOUS
  <2>2. QED
    BY <2>1 DEF Init, HandledInOrder
<1>3. QED
  BY <1>1, <1>2 DEF Init, ServiceInv, WakeNotLost, StopperMarks, StopQuiesces

(* Every step keeps the types and the bounds of the queue.                        *)
LEMMA TypeSteps == ServiceTypeOK /\ [Next]_vars => ServiceTypeOK'
<1> SUFFICES ASSUME ServiceTypeOK, [Next]_vars
             PROVE  ServiceTypeOK'
  OBVIOUS
<1> USE ServiceAssumption DEF ServiceTypeOK, WorkerSteps, lifecycle, history, WorkerGoto, At
<1>1. CASE Start
  BY <1>1 DEF Start
<1>2. CASE Submit
  <2>1. CASE stopping \/ Len(queue) = QueueCapacity
    BY <1>2, <2>1 DEF Submit
  <2>2. CASE ~ (stopping \/ Len(queue) = QueueCapacity)
    <3>1. accepted + 1 \in 1..MaxItems /\ accepted + 1 <= submitted + 1
      BY <1>2 DEF Submit
    <3>2. /\ queue' = Append(queue, accepted + 1) /\ accepted' = accepted + 1
          /\ submitted' = submitted + 1 /\ submitted < MaxItems /\ wake' = TRUE
          /\ UNCHANGED <<started, stopping, thread, stopper, active, pc, handled>>
      BY <1>2, <2>2 DEF Submit
    <3>3. queue' \in Seq(1..MaxItems) /\ Len(queue') <= QueueCapacity
      BY <2>2, <3>1, <3>2
    <3>4. QED
      BY <3>1, <3>2, <3>3
  <2>3. QED
    BY <2>1, <2>2
<1>3. CASE Stop \/ Stopping
  <2>1. /\ started' \in BOOLEAN /\ stopping' \in BOOLEAN /\ wake' \in BOOLEAN
    BY <1>3 DEF Stop, Stopping, Cancel, StartDrain, Join
  <2>2. thread' \in {"none", "created", "alive", "dead"}
    BY <1>3 DEF Stop, Stopping, Cancel, StartDrain, Join
  <2>3. stopper' \in {"ready", "cancel", "start", "join", "returned"}
    BY <1>3 DEF Stop, Stopping, Cancel, StartDrain, Join
  <2>4. active' \in {"none", "live", "cancelled"}
    BY <1>3 DEF Stop, Stopping, Cancel, StartDrain, Join
  <2>5. UNCHANGED <<queue, pc, accepted, submitted, handled>>
    BY <1>3 DEF Stop, Stopping, Cancel, StartDrain, Join
  <2>6. QED
    BY <2>1, <2>2, <2>3, <2>4, <2>5
<1>4. CASE TakeItem
  <2>1. Head(queue) \in 1..MaxItems /\ Tail(queue) \in Seq(1..MaxItems)
        /\ Len(Tail(queue)) <= QueueCapacity
    BY <1>4 DEF TakeItem
  <2>2. Append(handled, Head(queue)) \in Seq(1..MaxItems)
    BY <2>1
  <2>3. QED
    BY <1>4, <2>1, <2>2 DEF TakeItem
<1>5. CASE HandleItem \/ FindEmpty \/ CheckStop \/ Cycle
  BY <1>5 DEF HandleItem, FindEmpty, CheckStop, Cycle
<1>6. CASE EnterNetwork \/ LeaveNetwork \/ ReadToken
  BY <1>6 DEF EnterNetwork, LeaveNetwork, ReadToken
<1>7. CASE EnterWait \/ Woken \/ WaitTimeout
  BY <1>7 DEF EnterWait, Woken, WaitTimeout
<1>8. CASE UNCHANGED vars
  BY <1>8 DEF vars
<1>9. QED
  BY <1>1, <1>2, <1>3, <1>4, <1>5, <1>6, <1>7, <1>8 DEF Next, Worker

(* Every step keeps what the state lock and the network gate are for.             *)
LEMMA SignalSteps ==
    WakeNotLost /\ StopperMarks /\ StopQuiesces /\ [Next]_vars
        => (WakeNotLost /\ StopperMarks /\ StopQuiesces)'
<1> SUFFICES ASSUME WakeNotLost, StopperMarks, StopQuiesces, [Next]_vars
             PROVE  (WakeNotLost /\ StopperMarks /\ StopQuiesces)'
  OBVIOUS
<1> USE DEF WakeNotLost, StopperMarks, StopQuiesces, lifecycle, history, WorkerGoto, At
<1>1. CASE Start \/ Submit
  BY <1>1 DEF Start, Submit
<1>2. CASE Stop
  BY <1>2 DEF Stop
<1>3. CASE Stopping
  BY <1>3 DEF Stopping, Cancel, StartDrain, Join
<1>4. CASE TakeItem \/ HandleItem \/ FindEmpty \/ CheckStop \/ Cycle
  BY <1>4 DEF TakeItem, HandleItem, FindEmpty, CheckStop, Cycle
<1>5. CASE EnterNetwork
  BY <1>5 DEF EnterNetwork
<1>6. CASE LeaveNetwork \/ ReadToken
  BY <1>6 DEF LeaveNetwork, ReadToken
<1>7. CASE EnterWait \/ Woken \/ WaitTimeout
  BY <1>7 DEF EnterWait, Woken, WaitTimeout
<1>8. CASE UNCHANGED vars
  BY <1>8 DEF vars
<1>9. QED
  BY <1>1, <1>2, <1>3, <1>4, <1>5, <1>6, <1>7, <1>8 DEF Next, Worker

(* Every step keeps the callbacks in their order: only an accepted callback       *)
(* enters the queue, and only the worker takes one out.                           *)
LEMMA OrderSteps ==
    ServiceTypeOK /\ HandledInOrder /\ [Next]_vars => HandledInOrder'
<1> SUFFICES ASSUME ServiceTypeOK, HandledInOrder, [Next]_vars
             PROVE  HandledInOrder'
  OBVIOUS
<1>1. queue \in Seq(1..MaxItems) /\ handled \in Seq(1..MaxItems) /\ accepted \in Nat
  BY DEF ServiceTypeOK
<1>2. CASE UNCHANGED <<handled, queue, accepted>>
  BY <1>2 DEF HandledInOrder
<1>3. CASE queue' = Append(queue, accepted + 1) /\ accepted' = accepted + 1 /\ handled' = handled
  <2>1. handled \o Append(queue, accepted + 1) = Append(handled \o queue, accepted + 1)
    BY <1>1
  <2>2. Append([n \in 1..accepted |-> n], accepted + 1) = [n \in 1..(accepted + 1) |-> n]
    BY <1>1
  <2>3. QED
    BY <1>3, <2>1, <2>2 DEF HandledInOrder
<1>4. CASE TakeItem
  <2>1. queue # <<>> /\ queue' = Tail(queue) /\ handled' = Append(handled, Head(queue))
        /\ accepted' = accepted
    BY <1>4 DEF TakeItem
  <2>2. Append(handled, Head(queue)) \o Tail(queue) = handled \o queue
    BY <1>1, <2>1
  <2>3. QED
    BY <2>1, <2>2 DEF HandledInOrder
<1>5. CASE Start \/ Submit \/ Stop
  BY <1>2, <1>3, <1>5 DEF Start, Submit, Stop, history
<1>6. CASE Stopping
  BY <1>2, <1>6 DEF Stopping, Cancel, StartDrain, Join, history
<1>7. CASE HandleItem \/ FindEmpty \/ CheckStop \/ Cycle \/ EnterNetwork
  BY <1>2, <1>7 DEF HandleItem, FindEmpty, CheckStop, Cycle, EnterNetwork, WorkerGoto, history
<1>8. CASE LeaveNetwork \/ ReadToken \/ EnterWait \/ Woken \/ WaitTimeout
  BY <1>2, <1>8 DEF LeaveNetwork, ReadToken, EnterWait, Woken, WaitTimeout, WorkerGoto, history
<1>9. CASE UNCHANGED vars
  BY <1>2, <1>9 DEF vars, history
<1>10. QED
  BY <1>4, <1>5, <1>6, <1>7, <1>8, <1>9 DEF Next, Worker

(* The invariant is inductive.                                                    *)
LEMMA ServiceSteps == ServiceInv /\ [Next]_vars => ServiceInv'
BY TypeSteps, SignalSteps, OrderSteps DEF ServiceInv

----------------------------------------------------------------------------
(* The gate, inside a network operation of the worker.                             *)

Cancellers == {"idle", "read", "forward", "done"}

(* A probe runs inside a network operation of a worker that is alive.              *)
ProbeIsActive ==
    /\ thread # "none" \/ stopper # "ready" => started
    /\ at # "off" => active # "none" /\ pc = "probe" /\ thread = "alive"

(* cancel() has set the event of the probe before it looks for a handle, and a      *)
(* handle that it did not find was attached after the event and so cancelled there.  *)
CancelOrdered ==
    /\ canceller \in Cancellers
    /\ canceller \in {"read", "forward"} => stopper = "cancel"
    /\ canceller = "done" => stopper \in {"join", "returned"}
    /\ canceller # "idle" /\ at # "off" => event
    /\ at \in {"late", "call", "calling", "detach"} => handle
    /\ canceller = "forward" /\ at \in {"call", "calling"} => seen \/ gio = "cancelled"
    /\ canceller = "done" /\ at \in {"call", "calling"} => gio = "cancelled"

GateInv == ServiceInv /\ ProbeIsActive /\ CancelOrdered

(* Before the thread starts there is no probe and nothing to cancel.                *)
LEMMA GateStarts == ProbeInit => GateInv
<1> SUFFICES ASSUME ProbeInit PROVE GateInv
  OBVIOUS
<1>1. ServiceInv
  BY ServiceStarts DEF ProbeInit
<1>2. ProbeIsActive /\ CancelOrdered
  BY DEF ProbeInit, Init, ProbeIsActive, CancelOrdered, Cancellers
<1>3. QED
  BY <1>1, <1>2 DEF GateInv

(* What a step of the walk may do: nothing to the service, and to the cancellation   *)
(* only attach and detach a handle, or cancel what it attached too late.           *)
LEMMA WalkLeaves ==
    ASSUME Walk
    PROVE  /\ UNCHANGED <<vars, event, canceller, seen, network, steady>>
           /\ \/ /\ at = "open" /\ at' \in {"left", "attach"}
                 /\ UNCHANGED <<handle, gio>>
              \/ /\ at = "attach" /\ handle' = TRUE /\ gio' = gio
                 /\ at' = IF event THEN "late" ELSE "call"
              \/ at = "late" /\ at' = "call" /\ gio' = "cancelled" /\ handle' = handle
              \/ at = "call" /\ at' \in {"detach", "calling"} /\ UNCHANGED <<handle, gio>>
              \/ at = "calling" /\ at' \in {"detach", "call"} /\ UNCHANGED <<handle, gio>>
              \/ at = "detach" /\ at' = "left" /\ handle' = FALSE /\ gio' = gio
<1>1. CASE Open \/ Attach \/ AttachCancels \/ Call \/ CallFails \/ Detach
  BY <1>1 DEF Open, Attach, AttachCancels, Call, CallFails, Detach, Probing, cancelVars
<1>2. ASSUME NEW w, Answered(w)
      PROVE  /\ UNCHANGED <<vars, cancelVars, network, steady>>
             /\ at = "calling" /\ at' \in {"detach", "call"}
  BY <1>2 DEF Answered, Probing
<1>3. CASE Owner \/ Root
  <2>1. \E w : Answered(w)
    BY <1>3, Zenon DEF Owner, Root
  <2>2. QED
    BY <1>2, <2>1 DEF cancelVars
<1>4. CASE \E c \in Connections :
              ActiveConnection(c) \/ Device(c) \/ Wireless(c) \/ AccessPoint(c)
  <2>1. \E w : Answered(w)
    BY <1>4, Zenon DEF ActiveConnection, Device, Wireless, AccessPoint
  <2>2. QED
    BY <1>2, <2>1 DEF cancelVars
<1>5. QED
  BY <1>1, <1>3, <1>4 DEF Walk

(* Every step is one of PublicationService, or none of its business.               *)
LEMMA ProbeStepsAreServiceSteps == [ProbeNext]_allVars => [Next]_vars
<1> SUFFICES ASSUME [ProbeNext]_allVars PROVE [Next]_vars
  OBVIOUS
<1>1. CASE (Start \/ Submit \/ Stop) /\ Unprobed
  BY <1>1 DEF Next
<1>2. CASE ServiceWorker
  BY <1>2 DEF ServiceWorker, Next, Worker
<1>3. CASE Enter \/ Leave
  BY <1>3 DEF Enter, Leave, Next, Worker
<1>4. CASE Walk
  BY <1>4, WalkLeaves
<1>5. CASE StopSide
  BY <1>5 DEF StopSide, CancelStep, Next, Stopping
<1>6. CASE NetworkChanges \/ UNCHANGED allVars
  BY <1>6 DEF NetworkChanges, allVars
<1>7. QED
  BY <1>1, <1>2, <1>3, <1>4, <1>5, <1>6 DEF ProbeNext, WorkerSide

(* A step of the service that leaves the probe alone keeps where the probe is.      *)
LEMMA ActiveSteps == GateInv /\ [ProbeNext]_allVars => ProbeIsActive'
<1> SUFFICES ASSUME GateInv, [ProbeNext]_allVars PROVE ProbeIsActive'
  OBVIOUS
<1> USE DEF ProbeIsActive, lifecycle, history, At
<1>0. ProbeIsActive /\ thread \in {"none", "created", "alive", "dead"}
  BY DEF GateInv, ServiceInv, ServiceTypeOK
<1>1. CASE (Start \/ Submit \/ Stop) /\ Unprobed
  BY <1>0, <1>1 DEF Start, Submit, Stop, Unprobed, probeVars
<1>2. CASE ServiceWorker
  BY <1>0, <1>2 DEF ServiceWorker, Unprobed, probeVars, TakeItem, HandleItem, FindEmpty,
     CheckStop, Cycle, ReadToken, EnterWait, Woken, WaitTimeout, WorkerGoto
<1>3. CASE Enter
  BY <1>0, <1>3 DEF Enter, EnterNetwork, probeVars
<1>4. CASE Leave
  BY <1>0, <1>4 DEF Leave, LeaveNetwork, probeVars
<1>5. CASE Walk
  BY <1>0, <1>5, WalkLeaves DEF vars
<1>6. CASE StopSide
  BY <1>0, <1>6 DEF StopSide, CancelStep, Cancel, StartDrain, Join, Unprobed, probeVars, vars
<1>7. CASE NetworkChanges \/ UNCHANGED allVars
  BY <1>0, <1>7 DEF NetworkChanges, allVars, probeVars, vars
<1>8. QED
  BY <1>1, <1>2, <1>3, <1>4, <1>5, <1>6, <1>7 DEF ProbeNext, WorkerSide

(* Neither side can miss the other: the event is set before the handle is read, and  *)
(* the handle published before the event is read.                                  *)
LEMMA CancelSteps == GateInv /\ [ProbeNext]_allVars => CancelOrdered'
<1> SUFFICES ASSUME GateInv, [ProbeNext]_allVars PROVE CancelOrdered'
  OBVIOUS
<1> USE DEF CancelOrdered, Cancellers, lifecycle, history, At
<1>0. CancelOrdered /\ ProbeIsActive /\ StopperMarks
  BY DEF GateInv, ServiceInv
<1>1. CASE (Start \/ Submit \/ Stop) /\ Unprobed
  BY <1>0, <1>1 DEF Start, Submit, Stop, Unprobed, cancelVars, probeVars
<1>2. CASE ServiceWorker
  <2>1. UNCHANGED <<stopper, cancelVars, probeVars>>
    BY <1>2 DEF ServiceWorker, Unprobed, TakeItem, HandleItem, FindEmpty,
       CheckStop, Cycle, ReadToken, EnterWait, Woken, WaitTimeout, WorkerGoto
  <2>2. QED
    BY <1>0, <2>1 DEF cancelVars, probeVars
<1>3. CASE Enter
  <2>1. at = "off" /\ canceller' = canceller /\ stopper' = stopper
    BY <1>0, <1>3 DEF Enter, EnterNetwork, ProbeIsActive
  <2>2. at' = "off" \/ (at' = "open" /\ canceller = "idle")
    BY <1>0, <1>3, <2>1 DEF Enter, EnterNetwork, StopperMarks, probeVars
  <2>3. QED
    BY <1>0, <2>1, <2>2
<1>4. CASE Leave
  BY <1>0, <1>4 DEF Leave, LeaveNetwork, cancelVars, probeVars
<1>5. CASE Walk
  BY <1>0, <1>5, WalkLeaves DEF vars
<1>6. CASE StopSide
  BY <1>0, <1>6 DEF StopSide, CancelStep, Cancel, StartDrain, Join, Unprobed, probeVars,
                    cancelVars, vars
<1>7. CASE NetworkChanges \/ UNCHANGED allVars
  BY <1>0, <1>7 DEF NetworkChanges, allVars, cancelVars, probeVars, vars
<1>8. QED
  BY <1>1, <1>2, <1>3, <1>4, <1>5, <1>6, <1>7 DEF ProbeNext, WorkerSide

(* Every step of the worker, the walk and a stop keeps the invariant.              *)
LEMMA GateSteps == GateInv /\ [ProbeNext]_allVars => GateInv'
<1> SUFFICES ASSUME GateInv, [ProbeNext]_allVars PROVE GateInv'
  OBVIOUS
<1>1. [Next]_vars
  BY ProbeStepsAreServiceSteps
<1>2. ServiceInv'
  BY <1>1, ServiceSteps DEF GateInv
<1>3. QED
  BY <1>2, ActiveSteps, CancelSteps DEF GateInv

(* NetworkManager.probe and cancel: the probe runs only as the service's active    *)
(* operation, and its cancellation never falls between attach and cancel.          *)
THEOREM GateInvariant == ProbeSpec => []GateInv
<1>1. QED
  BY GateStarts, GateSteps, PTL DEF ProbeSpec

(* Every step of the composition is one of the service or none of its business, so   *)
(* the service's invariant holds with the probe walked call by call inside it.      *)
THEOREM ServiceInvariant == ProbeSpec => []ServiceInv
<1>1. GateInv => ServiceInv
  BY DEF GateInv
<1>2. QED
  BY <1>1, GateInvariant, PTL

(* The variables of the worker and its queue keep their types and bounds.         *)
THEOREM ServiceTypeCorrect == ProbeSpec => []ServiceTypeOK
<1>1. ServiceInv => ServiceTypeOK
  BY DEF ServiceInv
<1>2. QED
  BY <1>1, ServiceInvariant, PTL

(* However submit, stop and the clear of _wake interleave, the worker never sleeps  *)
(* on a signal that was cleared after it announced something.                     *)
THEOREM NoWakeLost == ProbeSpec => []WakeNotLost
<1>1. ServiceInv => WakeNotLost
  BY DEF ServiceInv
<1>2. QED
  BY <1>1, ServiceInvariant, PTL

(* The stop check under the network gate closes the race with stop().             *)
THEOREM StopIsQuiet == ProbeSpec => []StopQuiesces
<1>1. ServiceInv => StopQuiesces
  BY DEF ServiceInv
<1>2. QED
  BY <1>1, ServiceInvariant, PTL

(* What was handled, then what is queued, is what was accepted, in that order.     *)
THEOREM CallbacksInOrder == ProbeSpec => []HandledInOrder
<1>1. ServiceInv => HandledInOrder
  BY DEF ServiceInv
<1>2. QED
  BY <1>1, ServiceInvariant, PTL

(* Once NetworkManagerCancellation.cancel has returned, the D-Bus call that the      *)
(* worker waits for, if any, was made with a Gio cancellable that is cancelled.     *)
THEOREM CancellationReachesCall == ProbeSpec => []CancelReachesCall
<1>1. GateInv => CancelReachesCall
  BY DEF GateInv, CancelOrdered, CancelReachesCall
<1>2. QED
  BY <1>1, GateInvariant, PTL

----------------------------------------------------------------------------
(* The verdict of the walk.                                                       *)

Calls == {"owner", "root", "active", "device", "wireless", "ap", "result", "malformed"}
Readings == [call : Calls, paths : SUBSET Connections, devices : SUBSET Connections,
             wired : BOOLEAN, ssids : SUBSET Kinds, admitted : BOOLEAN]

Uncovered(w, c) == network[c] \in Wifi /\ c \notin w.devices

(* What the walk has read is true of a network that has not changed: the Wi-Fi that  *)
(* is up is still to be looked at, or its SSID was read.                           *)
Faithful(w) ==
    /\ w \in Readings /\ (w.admitted => w.call = "result")
    /\ steady /\ w.wired => \E c \in Connections : network[c] = "wired"
    /\ steady /\ w.call = "active" => \A c \in Connections : Uncovered(w, c) => c \in w.paths
    /\ steady /\ w.call \in {"device", "wireless", "ap"} =>
          \A c \in Connections : Uncovered(w, c) => network[c] \in w.ssids
    /\ w.call = "wireless" => \A c, d \in w.paths : c = d
    /\ steady /\ w.call = "ap" => \A c \in w.paths : network[c] \in w.ssids \cap Wifi

Admissible ==
    LET kinds == {network[c] : c \in Connections} IN
    kinds \cap Wifi \subseteq AllowedSSIDs /\ (kinds \cap Wifi = {} => "wired" \in kinds)

WalkInv == network \in Networks /\ Faithful(walk) /\ AdmitsOnlyAllowed

(* A walk that has read nothing has read nothing wrong.                            *)
LEMMA WalkStarts == ProbeInit => WalkInv
<1> SUFFICES ASSUME ProbeInit PROVE WalkInv
  OBVIOUS
<1>1. walk = Unread /\ network = [c \in Connections |-> "absent"]
  BY DEF ProbeInit
<1>2. QED
  BY <1>1 DEF WalkInv, Faithful, AdmitsOnlyAllowed, Unread, Readings, Calls, Networks, Kinds

(* An answer that keeps the walk faithful and is no unfounded verdict keeps it all.  *)
LEMMA AnswerKeeps ==
    ASSUME WalkInv, NEW w, Answered(w), Faithful(w), steady /\ w.admitted => Admissible
    PROVE  WalkInv'
<1>1. walk' = w /\ network' = network /\ steady' = steady
  BY DEF Answered, Probing
<1>2. Faithful(walk)'
  BY <1>1 DEF Faithful, Uncovered
<1>3. AdmitsOnlyAllowed'
  BY <1>1 DEF AdmitsOnlyAllowed, Admissible
<1>4. QED
  BY <1>1, <1>2, <1>3 DEF WalkInv

(* The calls that list the connections and ask each for its kind.                   *)
LEMMA ListingSteps ==
    ASSUME WalkInv, Owner \/ Root \/ \E c \in Connections : ActiveConnection(c)
    PROVE  WalkInv'
<1>0. walk \in Readings /\ network \in Networks /\ Faithful(walk)
  BY DEF WalkInv, Faithful
<1>1. /\ Malformed \in Readings
      /\ Malformed.call = "malformed" /\ Malformed.wired = walk.wired
      /\ Malformed.admitted = walk.admitted
  BY <1>0 DEF Malformed, Readings, Calls
<1>2. CASE Owner
  <2> DEFINE w == [walk EXCEPT !.call = "root"]
  <2>1. /\ w \in Readings /\ w.call = "root" /\ w.wired = walk.wired
        /\ w.admitted = walk.admitted /\ walk.call = "owner" /\ Answered(w)
    BY <1>0, <1>2 DEF Readings, Calls, Owner
  <2>2. Faithful(w) /\ ~ w.admitted
    BY <1>0, <2>1 DEF Faithful
  <2>3. QED
    BY <2>1, <2>2, AnswerKeeps
<1>3. CASE Root
  <2> DEFINE paths == {c \in Connections : network[c] # "absent"}
             w == [walk EXCEPT !.call = "active", !.paths = paths]
  <2>1. /\ w \in Readings /\ w.call = "active" /\ w.wired = walk.wired /\ w.paths = paths
        /\ w.admitted = walk.admitted /\ walk.call = "root"
    BY <1>0, <1>3 DEF Readings, Calls, Root
  <2>2. Answered(w) \/ Answered(Malformed)
    BY <1>3, Zenon DEF Root
  <2>3. Faithful(w) /\ ~ w.admitted
    BY <1>0, <2>1 DEF Faithful, Uncovered, Wifi, WifiUp
  <2>4. Faithful(Malformed) /\ ~ Malformed.admitted
    BY <1>0, <1>1, <2>1 DEF Faithful
  <2>5. QED
    BY <2>2, <2>3, <2>4, AnswerKeeps
<1>4. ASSUME NEW c \in Connections, ActiveConnection(c)
      PROVE  WalkInv'
  <2> DEFINE v == [walk EXCEPT !.paths = walk.paths \ {c}]
             w == Classified(v, c)
  <2>1. /\ v \in Readings /\ v.call = "active" /\ v.paths = walk.paths \ {c}
        /\ v.devices = walk.devices /\ v.wired = walk.wired /\ v.admitted = walk.admitted
        /\ walk.call = "active" /\ network[c] \in Kinds
    BY <1>0, <1>4 DEF Readings, ActiveConnection, Networks
  <2>2. /\ w \in Readings /\ ~ w.admitted /\ w.call \in {"active", "malformed"}
        /\ Faithful(w)
    <3>0. ~ walk.admitted
      BY <1>0, <2>1 DEF Faithful
    <3>1. CASE network[c] \in WifiUp
      <4>1. w = [v EXCEPT !.devices = v.devices \cup {c}]
        BY <3>1 DEF Classified, WifiUp
      <4>2. /\ w \in Readings /\ w.call = "active" /\ w.paths = walk.paths \ {c}
            /\ w.devices = walk.devices \cup {c} /\ w.wired = walk.wired /\ ~ w.admitted
        <5> HIDE DEF v
        <5>1. /\ v.devices \cup {c} \in SUBSET Connections /\ v.paths \in SUBSET Connections
              /\ v.wired \in BOOLEAN /\ v.ssids \in SUBSET Kinds /\ v.admitted \in BOOLEAN
              /\ v = [call |-> v.call, paths |-> v.paths, devices |-> v.devices,
                      wired |-> v.wired, ssids |-> v.ssids, admitted |-> v.admitted]
          BY <2>1 DEF Readings
        <5>2. w = [call |-> v.call, paths |-> v.paths, devices |-> v.devices \cup {c},
                   wired |-> v.wired, ssids |-> v.ssids, admitted |-> v.admitted]
          BY <4>1, <5>1
        <5> HIDE DEF w
        <5>3. QED
          BY <2>1, <3>0, <5>1, <5>2 DEF Readings
      <4>3. QED
        BY <1>0, <2>1, <4>2 DEF Faithful, Uncovered
    <3>2. CASE network[c] = "wired"
      <4>1. w = [v EXCEPT !.wired = TRUE]
        BY <3>2 DEF Classified, WifiUp
      <4>2. /\ w \in Readings /\ w.call = "active" /\ w.paths = walk.paths \ {c}
            /\ w.devices = walk.devices /\ w.wired = TRUE /\ ~ w.admitted
        BY <2>1, <3>0, <4>1 DEF Readings
      <4>3. QED
        BY <1>0, <2>1, <3>2, <4>2 DEF Faithful, Uncovered, Wifi, WifiUp
    <3>3. CASE network[c] = "plugging"
      <4>1. w = v
        BY <3>3 DEF Classified, WifiUp
      <4>2. QED
        BY <1>0, <2>1, <3>0, <3>3, <4>1 DEF Faithful, Uncovered, Wifi, WifiUp
    <3>4. CASE network[c] \notin WifiUp \cup {"wired", "plugging"}
      <4>1. w = Malformed
        BY <3>4 DEF Classified
      <4>2. QED
        BY <1>0, <1>1, <3>0, <4>1 DEF Faithful
    <3>5. QED
      BY <3>1, <3>2, <3>3, <3>4
  <2>3. \/ Answered(w) /\ (w.call = "malformed" \/ w.paths # {})
        \/ Answered([w EXCEPT !.call = "device"]) /\ w.call = "active" /\ w.paths = {}
        \/ /\ Answered([w EXCEPT !.call = "result", !.admitted = TRUE])
           /\ w.call = "active" /\ w.paths = {} /\ w.devices = {} /\ w.wired
        \/ Answered(Malformed)
    BY <1>4, <2>2, Zenon DEF ActiveConnection
  <2>4. CASE Answered(w)
    BY <2>2, <2>4, AnswerKeeps
  <2>5. CASE Answered(Malformed)
    <3>1. Faithful(Malformed) /\ ~ Malformed.admitted
      BY <1>0, <1>1, <2>1 DEF Faithful
    <3>2. QED
      BY <2>5, <3>1, AnswerKeeps
  <2>6. CASE Answered([w EXCEPT !.call = "device"]) /\ w.call = "active" /\ w.paths = {}
    <3> DEFINE u == [w EXCEPT !.call = "device"]
    <3>1. /\ u \in Readings /\ u.call = "device" /\ u.devices = w.devices
          /\ u.wired = w.wired /\ ~ u.admitted
      BY <2>2 DEF Readings, Calls
    <3>2. Faithful(u)
      BY <2>2, <2>6, <3>1 DEF Faithful, Uncovered
    <3>3. QED
      BY <2>6, <3>1, <3>2, AnswerKeeps
  <2>7. CASE /\ Answered([w EXCEPT !.call = "result", !.admitted = TRUE])
             /\ w.call = "active" /\ w.paths = {} /\ w.devices = {} /\ w.wired
    <3> DEFINE u == [w EXCEPT !.call = "result", !.admitted = TRUE]
    <3>1. u \in Readings /\ u.call = "result" /\ u.wired = w.wired /\ u.admitted
      BY <2>2 DEF Readings, Calls
    <3>2. Faithful(u)
      BY <2>2, <3>1 DEF Faithful
    <3>3. steady => Admissible
      <4>1. steady => \A k \in Connections : network[k] \notin Wifi
        BY <2>2, <2>7 DEF Faithful, Uncovered
      <4>2. steady => \E k \in Connections : network[k] = "wired"
        BY <2>2, <2>7 DEF Faithful
      <4>3. QED
        BY <4>1, <4>2 DEF Admissible
    <3>4. QED
      BY <2>7, <3>1, <3>2, <3>3, AnswerKeeps
  <2>8. QED
    BY <2>3, <2>4, <2>5, <2>6, <2>7
<1>5. QED
  BY <1>2, <1>3, <1>4

(* The calls that follow a Wi-Fi device to the SSID of its access point.            *)
LEMMA WifiSteps ==
    ASSUME WalkInv, NEW c \in Connections, Device(c) \/ Wireless(c) \/ AccessPoint(c)
    PROVE  WalkInv'
<1>0. walk \in Readings /\ network \in Networks /\ Faithful(walk)
  BY DEF WalkInv, Faithful
<1>1. ~ walk.admitted /\ network[c] \in Kinds
  BY <1>0 DEF Faithful, Device, Wireless, AccessPoint, Networks
<1>2. /\ Malformed \in Readings
      /\ Malformed.call = "malformed" /\ Malformed.wired = walk.wired
      /\ Malformed.admitted = walk.admitted
  BY <1>0 DEF Malformed, Readings, Calls
<1>3. CASE Answered(Malformed)
  <2>1. Faithful(Malformed)
    BY <1>0, <1>1, <1>2 DEF Faithful
  <2>2. QED
    BY <1>1, <1>2, <1>3, <2>1, AnswerKeeps
<1>4. CASE Device(c)
  <2> DEFINE w == [walk EXCEPT !.call = "wireless", !.paths = {c}]
  <2>1. walk.call = "device" /\ (Answered(w) \/ Answered(Malformed))
    BY <1>4, Zenon DEF Device
  <2>2. /\ w \in Readings /\ w.call = "wireless" /\ w.devices = walk.devices
        /\ w.ssids = walk.ssids /\ w.wired = walk.wired /\ ~ w.admitted
    BY <1>0, <1>1 DEF Readings, Calls
  <2>3. Faithful(w)
    BY <1>0, <2>1, <2>2 DEF Faithful, Uncovered
  <2>4. QED
    BY <1>3, <2>1, <2>2, <2>3, AnswerKeeps
<1>5. CASE Wireless(c)
  <2> DEFINE w == [walk EXCEPT !.call = "ap", !.ssids = walk.ssids \cup {network[c]}]
  <2>1. /\ walk.call = "wireless" /\ c \in walk.paths
        /\ (Answered(w) /\ network[c] \in WifiUp) \/ Answered(Malformed)
    BY <1>5, Zenon DEF Wireless
  <2>2. /\ w \in Readings /\ w.call = "ap" /\ w.devices = walk.devices
        /\ w.ssids = walk.ssids \cup {network[c]} /\ w.wired = walk.wired /\ ~ w.admitted
        /\ w.paths = walk.paths
    BY <1>0, <1>1 DEF Readings, Calls
  <2>3. CASE Answered(w) /\ network[c] \in WifiUp
    <3>1. Faithful(w)
      BY <1>0, <2>1, <2>2, <2>3 DEF Faithful, Uncovered, Wifi
    <3>2. QED
      BY <2>2, <2>3, <3>1, AnswerKeeps
  <2>4. QED
    BY <1>3, <2>1, <2>3
<1>6. CASE AccessPoint(c)
  <2> DEFINE left == walk.devices \ {c}
             v == [walk EXCEPT !.devices = left, !.paths = {}]
  <2>1. /\ v \in Readings /\ v.devices = left /\ v.ssids = walk.ssids
        /\ v.wired = walk.wired /\ ~ v.admitted
    BY <1>0, <1>1 DEF Readings
  <2>2. /\ walk.call = "ap" /\ c \in walk.paths
        /\ \/ Answered([v EXCEPT !.call = "device"])
           \/ Answered([v EXCEPT !.call = "result", !.admitted = v.ssids \subseteq AllowedSSIDs])
              /\ left = {}
           \/ Answered(Malformed)
    BY <1>6, Zenon DEF AccessPoint
  <2>3. CASE Answered([v EXCEPT !.call = "device"])
    <3> DEFINE w == [v EXCEPT !.call = "device"]
    <3>1. /\ w \in Readings /\ w.call = "device" /\ w.devices = left
          /\ w.ssids = walk.ssids /\ w.wired = walk.wired /\ ~ w.admitted
      BY <2>1 DEF Readings, Calls
    <3>2. Faithful(w)
      BY <1>0, <2>2, <3>1 DEF Faithful, Uncovered
    <3>3. QED
      BY <2>3, <3>1, <3>2, AnswerKeeps
  <2>4. CASE /\ Answered([v EXCEPT !.call = "result", !.admitted = v.ssids \subseteq AllowedSSIDs])
             /\ left = {}
    <3> DEFINE w == [v EXCEPT !.call = "result", !.admitted = v.ssids \subseteq AllowedSSIDs]
    <3>1. /\ w \in Readings /\ w.call = "result" /\ w.wired = walk.wired
          /\ w.admitted <=> walk.ssids \subseteq AllowedSSIDs
      BY <2>1 DEF Readings, Calls
    <3>2. Faithful(w)
      BY <1>0, <3>1 DEF Faithful
    <3>3. steady => /\ \A k \in Connections : network[k] \in Wifi => network[k] \in walk.ssids
                    /\ network[c] \in Wifi
      BY <1>0, <2>2, <2>4 DEF Faithful, Uncovered
    <3>4. steady /\ w.admitted => Admissible
      BY <3>1, <3>3 DEF Admissible
    <3>5. QED
      BY <2>4, <3>2, <3>4, AnswerKeeps
  <2>5. QED
    BY <1>3, <2>2, <2>3, <2>4
<1>7. QED
  BY <1>4, <1>5, <1>6

(* Only an answer changes what the walk has read, and only a network that changes    *)
(* makes it untrue.                                                               *)
LEMMA WalkSteps == WalkInv /\ [ProbeNext]_allVars => WalkInv'
<1> SUFFICES ASSUME WalkInv, [ProbeNext]_allVars PROVE WalkInv'
  OBVIOUS
<1>0. walk \in Readings /\ network \in Networks /\ Faithful(walk) /\ AdmitsOnlyAllowed
  BY DEF WalkInv, Faithful
<1>1. ASSUME UNCHANGED <<walk, network, steady>> PROVE WalkInv'
  BY <1>0, <1>1 DEF WalkInv, Faithful, Uncovered, AdmitsOnlyAllowed
<1>2. ASSUME walk' = Unread, network' \in Networks PROVE WalkInv'
  BY <1>2 DEF WalkInv, Faithful, AdmitsOnlyAllowed, Unread, Readings, Calls
<1>3. CASE \/ (Start \/ Submit \/ Stop) /\ Unprobed
           \/ ServiceWorker \/ StopSide \/ UNCHANGED allVars
  <2>1. UNCHANGED <<walk, network, steady>>
    BY <1>3 DEF ServiceWorker, StopSide, CancelStep, Unprobed, probeVars, allVars
  <2>2. QED
    BY <1>1, <2>1
<1>4. [c \in Connections |-> "absent"] \in Networks
  BY DEF Networks, Kinds
<1>5. CASE Enter \/ Leave
  BY <1>1, <1>2, <1>4, <1>5 DEF Enter, Leave, probeVars
<1>6. CASE Open \/ Attach \/ AttachCancels \/ Call \/ CallFails \/ Detach
  BY <1>1, <1>6 DEF Open, Attach, AttachCancels, Call, CallFails, Detach, Probing
<1>7. CASE \/ Owner \/ Root
           \/ \E c \in Connections : ActiveConnection(c) \/ Device(c) \/ Wireless(c) \/ AccessPoint(c)
  BY <1>7, ListingSteps, WifiSteps
<1>8. CASE NetworkChanges
  <2>1. walk' = walk /\ network' \in Networks /\ ~ steady'
    BY <1>0, <1>8 DEF NetworkChanges, Networks
  <2>2. QED
    BY <1>0, <2>1 DEF WalkInv, Faithful, AdmitsOnlyAllowed
<1>9. QED
  BY <1>3, <1>5, <1>6, <1>7, <1>8 DEF ProbeNext, WorkerSide, Walk

(* A network that does not change under the probe is admitted only if it has Wi-Fi   *)
(* on allowed SSIDs alone, or a wired connection and no Wi-Fi: whatever the order    *)
(* in which the connections are read, a Wi-Fi device is looked at or refused.       *)
THEOREM AdmissionIsSound == ProbeSpec => []AdmitsOnlyAllowed
<1>1. WalkInv => AdmitsOnlyAllowed
  BY DEF WalkInv
<1>2. QED
  BY <1>1, WalkStarts, WalkSteps, PTL DEF ProbeSpec

============================================================================
