----------------------- MODULE NetworkManagerProbe -----------------------
(* The SSID gate of the publication worker (network_manager.py) inside the service  *)
(* that runs and cancels it: the walk over NetworkManager's objects, one D-Bus call *)
(* at a time, while the network changes and stop() cancels from the main thread.    *)
(* Everything else of PublicationService takes its steps unchanged.                *)
EXTENDS PublicationService, FiniteSets

CONSTANTS
    Connections     \* the objects ActiveConnections may list

ASSUME ConnectionsAssumption == IsFiniteSet(Connections)

VARIABLES
    event, handle,  \* NetworkManagerCancellation._event, and whether one is attached
    gio,            \* the Gio cancellable: live or cancelled
    canceller,      \* where cancel() stands
    seen,           \* whether cancel() found a handle
    at,             \* where the probe stands
    walk,           \* what the probe has read
    network,        \* the connections, as NetworkManager has them
    steady          \* history: the network has not changed since the probe began

cancelVars == <<event, handle, gio, canceller, seen>>
probeVars == <<at, walk, network, steady>>
allVars == <<vars, cancelVars, probeVars>>

(* A connection: not there, wired (up or not), Wi-Fi that is not up, or Wi-Fi that  *)
(* is up on an allowed or on a foreign SSID.                                       *)
WifiUp == {"home", "cafe"}
Wifi == {"joining"} \cup WifiUp
Kinds == {"absent", "wired", "plugging"} \cup Wifi
Networks == [Connections -> Kinds]
AllowedSSIDs == {"home"}

Unread == [call |-> "owner", paths |-> {}, devices |-> {}, wired |-> FALSE, ssids |-> {},
           admitted |-> FALSE]

---------------------------------------------------------------------------
(* NetworkManagerCancellation.                                                    *)

(* Mutant: cancel() looks for a handle before it publishes the cancellation.        *)
CancelStepReadingFirst ==
    /\ stopper = "cancel"
    /\ \/ canceller = "idle" /\ seen' = handle /\ canceller' = "read"
          /\ UNCHANGED <<event, handle, gio, vars>>
       \/ canceller = "read" /\ event' = TRUE /\ canceller' = "forward"
          /\ UNCHANGED <<handle, gio, seen, vars>>
       \/ /\ canceller = "forward" /\ canceller' = "done"
          /\ gio' = IF seen THEN "cancelled" ELSE gio
          /\ Cancel /\ UNCHANGED <<event, handle, seen>>
    /\ UNCHANGED probeVars

(* cancel: the event, then the handle under its lock, then the call of Gio.         *)
CancelStep ==
    /\ stopper = "cancel"
    /\ \/ canceller = "idle" /\ event' = TRUE /\ canceller' = "read"
          /\ UNCHANGED <<handle, gio, seen, vars>>
       \/ canceller = "read" /\ seen' = handle /\ canceller' = "forward"
          /\ UNCHANGED <<event, handle, gio, vars>>
       \/ /\ canceller = "forward" /\ canceller' = "done"
          /\ gio' = IF seen THEN "cancelled" ELSE gio
          /\ Cancel /\ UNCHANGED <<event, handle, seen>>
    /\ UNCHANGED probeVars

---------------------------------------------------------------------------
(* The probe.                                                                     *)

(* A network operation begins, with a cancellation of its own.                     *)
Enter ==
    /\ EnterNetwork
    /\ event' = FALSE /\ handle' = FALSE /\ gio' = "live"
    /\ UNCHANGED <<canceller, seen>>
    /\ IF active' = "live" /\ pc = "probe"
       THEN at' = "open" /\ walk' = Unread /\ network' \in Networks /\ steady' = TRUE
       ELSE UNCHANGED probeVars

Probing(step) == at = step /\ UNCHANGED <<vars, network, steady>>

(* The bus is opened and the cancellable made, unless the probe was cancelled.      *)
Open ==
    /\ Probing("open") /\ UNCHANGED <<cancelVars, walk>>
    /\ \/ at' = "left"
       \/ ~ event /\ at' = "attach"

(* _attach: published and checked under the lock of cancel().                      *)
Attach ==
    /\ Probing("attach") /\ handle' = TRUE
    /\ at' = IF event THEN "late" ELSE "call"
    /\ UNCHANGED <<event, gio, canceller, seen, walk>>

AttachCancels ==
    /\ Probing("late") /\ gio' = "cancelled" /\ at' = "call"
    /\ UNCHANGED <<event, handle, canceller, seen, walk>>

(* _call: cancellation and deadline are checked, then the bus is called.            *)
Call ==
    /\ Probing("call") /\ UNCHANGED <<cancelVars, walk>>
    /\ \/ at' = "detach"
       \/ ~ event /\ at' = "calling"

(* The call fails, is cancelled or times out; or its answer comes too late.         *)
CallFails ==
    /\ Probing("calling") /\ at' = "detach"
    /\ UNCHANGED <<cancelVars, walk>>

(* The answer to the call that the walk is at, and the call that follows; a reply   *)
(* that _probe refuses as malformed, or an answer, ends the walk.                  *)
Answered(w) ==
    /\ Probing("calling") /\ ~ event
    /\ walk' = w /\ UNCHANGED cancelVars
    /\ at' = IF w.call \in {"malformed", "result"} THEN "detach" ELSE "call"

Malformed == [walk EXCEPT !.call = "malformed"]

Owner == walk.call = "owner" /\ Answered([walk EXCEPT !.call = "root"])

(* The active connections there are now.                                          *)
Root ==
    /\ walk.call = "root"
    /\ LET paths == {c \in Connections : network[c] # "absent"} IN
       Answered(IF paths = {} THEN Malformed
                ELSE [walk EXCEPT !.call = "active", !.paths = paths])

(* Mutant: a Wi-Fi connection that is not up is passed over.                       *)
ClassifiedLeniently(w, c) ==
    IF network[c] \in WifiUp THEN [w EXCEPT !.devices = @ \cup {c}]
    ELSE IF network[c] = "wired" THEN [w EXCEPT !.wired = TRUE] ELSE w

(* The active connection c as it is now: anything but Wi-Fi may be down.            *)
Classified(w, c) ==
    CASE network[c] \in WifiUp -> [w EXCEPT !.devices = w.devices \cup {c}]
      [] network[c] = "wired" -> [w EXCEPT !.wired = TRUE]
      [] network[c] = "plugging" -> w
      [] OTHER -> Malformed

ActiveConnection(c) ==
    /\ walk.call = "active" /\ c \in walk.paths
    /\ LET w == Classified([walk EXCEPT !.paths = walk.paths \ {c}], c) IN
       Answered(IF w.call = "malformed" \/ w.paths # {} THEN w
                ELSE IF w.devices # {} THEN [w EXCEPT !.call = "device"]
                ELSE IF w.wired THEN [w EXCEPT !.call = "result", !.admitted = TRUE]
                ELSE Malformed)

(* The device must still carry the connection it was listed for.                   *)
Device(c) ==
    /\ walk.call = "device" /\ c \in walk.devices
    /\ Answered(IF network[c] \in WifiUp THEN [walk EXCEPT !.call = "wireless", !.paths = {c}]
                ELSE Malformed)

(* Its access point, whose SSID the next call reads; it may have none any more.     *)
Wireless(c) ==
    /\ walk.call = "wireless" /\ c \in walk.paths
    /\ Answered(IF network[c] \in WifiUp
                THEN [walk EXCEPT !.call = "ap", !.ssids = @ \cup {network[c]}]
                ELSE Malformed)

AccessPoint(c) ==
    /\ walk.call = "ap" /\ c \in walk.paths
    /\ LET left == walk.devices \ {c}
           w == [walk EXCEPT !.devices = left, !.paths = {}]
       IN Answered(IF left # {} THEN [w EXCEPT !.call = "device"]
                   ELSE IF Cardinality(w.ssids) > 1 THEN Malformed
                   ELSE [w EXCEPT !.call = "result", !.admitted = w.ssids \subseteq AllowedSSIDs])

Detach ==
    /\ Probing("detach") /\ handle' = FALSE /\ at' = "left"
    /\ UNCHANGED <<event, gio, canceller, seen, walk>>

(* External: a connection changes under the probe.  Bound: once in each.            *)
NetworkChanges ==
    /\ at \notin {"off", "left"} /\ steady
    /\ steady' = FALSE
    /\ \E c \in Connections : \E kind \in Kinds \ {network[c]} :
          network' = [network EXCEPT ![c] = kind]
    /\ UNCHANGED <<vars, cancelVars, at, walk>>

(* The operation ends: the worker goes on only from an allowed network or a bypass. *)
Leave ==
    /\ LeaveNetwork
    /\ \/ pc = "batch" /\ UNCHANGED <<cancelVars, probeVars>>
       \/ /\ at = "left" /\ pc' = IF walk.admitted THEN "token" ELSE "enter_wait"
          /\ at' = "off" /\ walk' = Unread
          /\ network' = [c \in Connections |-> "absent"] /\ steady' = TRUE
          /\ UNCHANGED cancelVars

---------------------------------------------------------------------------
ProbeInit ==
    /\ Init
    /\ event = FALSE /\ handle = FALSE /\ gio = "live" /\ canceller = "idle" /\ seen = FALSE
    /\ at = "off" /\ walk = Unread
    /\ network = [c \in Connections |-> "absent"] /\ steady = TRUE

Walk ==
    \/ Open \/ Attach \/ AttachCancels \/ Call \/ CallFails \/ Detach
    \/ Owner \/ Root
    \/ \E c \in Connections : ActiveConnection(c) \/ Device(c) \/ Wireless(c) \/ AccessPoint(c)

Unprobed == UNCHANGED <<cancelVars, probeVars>>

ServiceWorker ==
    /\ TakeItem \/ HandleItem \/ FindEmpty \/ CheckStop \/ Cycle \/ ReadToken
       \/ EnterWait \/ Woken \/ WaitTimeout
    /\ Unprobed

WorkerSide == ServiceWorker \/ Enter \/ Leave \/ Walk
StopSide == CancelStep \/ ((StartDrain \/ Join) /\ Unprobed)

ProbeNext ==
    \/ (Start \/ Submit \/ Stop) /\ Unprobed
    \/ WorkerSide \/ StopSide \/ NetworkChanges

(* As in PublicationService: the worker is scheduled and every call has a timeout.  *)
ProbeSpec ==
    ProbeInit /\ [][ProbeNext]_allVars /\ WF_allVars(WorkerSide) /\ WF_allVars(StopSide)

---------------------------------------------------------------------------
(* Properties.                                                                    *)

(* Once cancel() has returned, no D-Bus call is being waited for that has not been  *)
(* cancelled, in whatever order the probe published its handle and cancel() set its *)
(* event and read that handle.                                                    *)
CancelReachesCall ==
    stopper \in {"join", "returned"} /\ canceller = "done" /\ at = "calling" =>
        gio = "cancelled"

(* A network that stays the same throughout a probe is admitted only if it has Wi-Fi *)
(* on allowed SSIDs alone, all of it up, or no Wi-Fi and a wired connection.        *)
AdmitsOnlyAllowed ==
    walk.admitted /\ steady =>
        LET kinds == {network[c] : c \in Connections} IN
        kinds \cap Wifi \subseteq AllowedSSIDs /\ (kinds \cap Wifi = {} => "wired" \in kinds)

============================================================================
