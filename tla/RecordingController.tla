------------------------ MODULE RecordingController ------------------------
(* The daemon's main loop around a recording: the capture prompt, the ScreenCast   *)
(* handshake, the recorder, detached finalization, tag discovery, and the path     *)
(* each recording reserves against another process of this program.  A call, its   *)
(* prompt, its portal session, its recording and its handle have the call's number. *)
EXTENDS Integers, FiniteSets

CONSTANTS
    MaxCalls,         \* bound: calls detected while the daemon runs
    MaxRequests,      \* bound: tag requests that reach the network
    Portal,           \* video comes from the ScreenCast portal
    MaxRefusals       \* bound: stops of the recorder that raise

ASSUME ControllerAssumption ==
    /\ MaxCalls \in Nat /\ MaxRequests \in Nat /\ MaxRefusals \in Nat
    /\ Portal \in BOOLEAN

VARIABLES
    auto,       \* configuration: record audio without asking
    phase,      \* the main loop runs, or the process shuts down
    state,      \* Controller.state
    call,       \* number of the last call the detector reported
    inCall,     \* the detector takes that call to be going on
    prompt,     \* Notifier._active
    pending,    \* the recording whose path awaits the portal
    active,     \* Controller._active_path
    path,       \* the path each recording was given
    held,       \* reservations of this process
    rival,      \* the path a `record` process has reserved
    session,    \* Controller._session
    attached,   \* Recorder._session
    portal,     \* the ScreenCast sessions
    capturing,  \* the recording Recorder is making
    handle,     \* the finalization of each recording
    labels,     \* the tags each handle was registered with
    tags,       \* tag discovery and selection
    refusals,   \* history: stops that raised
    answered,   \* history: the prompt whose event decided about this call
    fed,        \* history: the session that feeds the video being captured
    chosen      \* history: the selection last committed in each call

callVars == <<auto, phase, call, inCall>>
pathVars == <<active, path, held>>
portalVars == <<session, attached, portal>>
finalVars == <<handle, labels>>
historyVars == <<answered, fed, chosen>>
vars == <<auto, phase, state, call, inCall, prompt, pending, active, path, held, rival,
          session, attached, portal, capturing, handle, labels, tags, refusals, answered, fed,
          chosen>>

None == 0
Calls == 1..MaxCalls
Running == phase = "running"

----------------------------------------------------------------------------
(* Paths.  Only recordings begun in the same second compete for a name: the one     *)
(* build_output_path makes, and its variants -2, -3, ...  A name whose file exists   *)
(* is passed over as a reserved one is; the model lets it be used again.           *)

NoPath == 0
Paths == 1..(MaxCalls + 1)

Free(p) == p \notin held \cup {rival}

(* collision_safe_path and reserve_recording_path, under the directory lock.       *)
Candidate == CHOOSE p \in Paths : Free(p) /\ \A q \in Paths : Free(q) => p <= q

(* External: `record` reserves a path, writes its file or gives up, and releases.   *)
(* Bound: it begins while the daemon runs.                                         *)
RivalReserves ==
    /\ Running /\ rival = NoPath
    /\ rival' = Candidate
    /\ UNCHANGED <<callVars, state, prompt, pending, pathVars, portalVars, capturing,
                   finalVars, tags, refusals, historyVars>>

RivalEnds ==
    /\ rival # NoPath
    /\ rival' = NoPath
    /\ UNCHANGED <<callVars, state, prompt, pending, pathVars, portalVars, capturing,
                   finalVars, tags, refusals, historyVars>>

----------------------------------------------------------------------------
(* Tags.  A catalog is known by the number of the request that delivered it; its    *)
(* user picks all of it or nothing.                                                *)

NoTags == [made |-> 0, due |-> {}, handle |-> None, catalog |-> None,
           confirmed |-> None, outcome |-> "none", prompt |-> None]

(* _maybe_show_tag_prompt: one prompt at a time, with the catalog frozen in it.    *)
Offered(t, recording) ==
    IF recording /\ t.catalog # None /\ t.prompt = None
    THEN [t EXCEPT !.prompt = t.catalog] ELSE t

(* _on_tag_outcome, for a result that is still wanted.                            *)
Received(t, result, request, recording) ==
    LET kept == [t EXCEPT !.handle = None, !.outcome = result] IN
    IF result = "catalog" THEN Offered([kept EXCEPT !.catalog = request], recording)
    ELSE kept

(* _request_tags: a worker is started, or there is no token and the result comes   *)
(* at once.  The request whose handle is kept is the one of the current generation. *)
Requested(t) ==
    {Received(t, "unavailable", None, FALSE)} \cup
    IF t.made >= MaxRequests THEN {}
    ELSE {[t EXCEPT !.handle = t.made + 1, !.made = @ + 1, !.due = @ \cup {t.made + 1}]}

(* Mutant: the selection outlives its recording.                                   *)
EndedKeepingSelection(t) ==
    [t EXCEPT !.prompt = None, !.handle = None, !.catalog = None, !.outcome = "none"]

(* _end_tag_context: the prompt closes, the request is cancelled and its generation *)
(* past, the selection and the catalog are forgotten.                              *)
Ended(t) ==
    [t EXCEPT !.prompt = None, !.handle = None, !.catalog = None, !.confirmed = None,
              !.outcome = "none"]

----------------------------------------------------------------------------
(* The ScreenCast session.                                                        *)

(* Mutant: no timer is set.                                                       *)
NewSessionUntimed == [reply |-> "create", path |-> FALSE, node |-> FALSE, armed |-> TRUE,
                      timer |-> FALSE, stream |-> "none"]

NewSession == [reply |-> "create", path |-> FALSE, node |-> FALSE, armed |-> TRUE,
               timer |-> TRUE, stream |-> "none"]

(* ScreenCastSession.close: no call that is under way is cancelled, and there is    *)
(* nothing to close before the portal has named the session.                       *)
Closed(p, s) ==
    IF s = None THEN p
    ELSE [p EXCEPT ![s].timer = FALSE, ![s].path = FALSE, ![s].node = FALSE,
                   ![s].stream = IF p[s].path THEN "none" ELSE @]

(* _start_pump: the attached session must be open and hand out a descriptor.       *)
Feeds(p, s) == s # None /\ p[s].node /\ p[s].path

----------------------------------------------------------------------------
(* The controller.                                                                *)

(* _close_portal, on sessions p.                                                  *)
ClosePortal(p) ==
    /\ portal' = Closed(p, session)
    /\ session' = None /\ attached' = None /\ pending' = None

StartFails(p, reserved) ==
    /\ held' = reserved \ {p}
    /\ active' = NoPath
    /\ state' = "idle"
    /\ UNCHANGED <<capturing, fed>>

(* _start_capture of recording c at path p: with sessions s, of which the recorder  *)
(* has a and the controller keeps k, tag context t and reservations r.             *)
StartCapture(c, p, s, a, k, t, r) ==
    \/ /\ capturing = None /\ capturing' = c
       /\ fed' \in {None, IF Feeds(s, a) THEN a ELSE None}
       /\ portal' = s /\ attached' = a /\ session' = k /\ pending' = None
       /\ tags' = Offered(t, TRUE)
       /\ held' = r /\ active' = p
       /\ state' = "recording"
    \/ /\ StartFails(p, r)
       /\ portal' = Closed(s, k)
       /\ session' = None /\ attached' = None /\ pending' = None
       /\ tags' = Ended(t)

(* _begin_recording.  Tags are asked for only when the user accepted a prompt.      *)
Begin(c, wanted, discover) ==
    \E t \in IF discover THEN Requested(tags) ELSE {tags} :
        /\ path' = [path EXCEPT ![c] = Candidate]
        /\ IF Portal /\ wanted = "video"
           THEN /\ pending' = c /\ session' = c
                /\ portal' = [portal EXCEPT ![c] = NewSession]
                /\ held' = held \cup {Candidate} /\ active' = Candidate
                /\ state' = "recording" /\ tags' = t
                /\ UNCHANGED <<attached, capturing, fed>>
           ELSE StartCapture(c, Candidate, portal, attached, session, t,
                             held \cup {Candidate})

(* on_meeting_start: the detector reports a call.                                 *)
MeetingStarts ==
    /\ Running /\ ~inCall /\ call < MaxCalls /\ state = "idle"
    /\ inCall' = TRUE /\ call' = call + 1
    /\ answered' = None
    /\ UNCHANGED <<auto, phase, rival, finalVars, refusals, chosen>>

(* prompt_capture_mode; without an actionable notification the answer is Ignore.   *)
MeetingPrompts ==
    /\ MeetingStarts /\ ~auto
    /\ \/ prompt' = call' /\ state' = "prompting"
       \/ prompt' = None /\ state' = "idle"
    /\ UNCHANGED <<pending, pathVars, portalVars, capturing, tags, fed>>

MeetingRecords ==
    /\ MeetingStarts /\ auto
    /\ Begin(call', "audio", FALSE)
    /\ UNCHANGED prompt

(* Mutant: any answer is taken while a prompt is open.                             *)
HeardWhilePrompting(p) == prompt # None

(* _dispatch: only the prompt on display is heard, and once.                       *)
Heard(p) == p = prompt

(* A button, the close of the notification or its timeout, of any prompt so far.   *)
PromptIgnored(p) ==
    /\ Running /\ Heard(p)
    /\ prompt' = None
    /\ state' = IF state = "prompting" THEN "idle" ELSE state
    /\ answered' = p
    /\ UNCHANGED <<callVars, pending, pathVars, rival, portalVars, capturing, finalVars,
                   tags, refusals, fed, chosen>>

PromptAccepted(p, wanted) ==
    /\ Running /\ Heard(p) /\ state = "prompting"
    /\ prompt' = None
    /\ Begin(call, wanted, TRUE)
    /\ answered' = p
    /\ UNCHANGED <<callVars, rival, finalVars, refusals, chosen>>

(* _reserve_path raises, outside the handler of _begin_recording.                  *)
ReserveFails(p) ==
    /\ Running /\ Heard(p) /\ state = "prompting"
    /\ prompt' = None
    /\ UNCHANGED <<callVars, state, pending, pathVars, rival, portalVars, capturing,
                   finalVars, tags, refusals, historyVars>>

----------------------------------------------------------------------------
(* Answers of the portal.                                                         *)

Unheeded(p) ==
    /\ portal' = p
    /\ UNCHANGED <<state, pending, active, held, session, attached, capturing, tags, fed>>

AnswerLeaves ==
    UNCHANGED <<callVars, prompt, path, rival, finalVars, refusals, answered, chosen>>

Awaited == state = "recording" /\ pending # None

(* _on_portal_ready of session s, on sessions p: a call that has ended meanwhile    *)
(* closes it, any recording that waits takes it.                                   *)
PortalReady(s, p) ==
    IF Awaited THEN StartCapture(pending, path[pending], p, s, session, tags, held)
    ELSE Unheeded(Closed(p, s))

(* _on_portal_error: the recording that waits goes on with audio.                  *)
PortalError(p) ==
    IF Awaited THEN StartCapture(pending, path[pending], p, attached, None, tags, held)
    ELSE Unheeded(p)

(* ScreenCastSession._fail: close, and tell once.                                  *)
Failed(s, p) ==
    IF p[s].armed THEN PortalError([Closed(p, s) EXCEPT ![s].armed = FALSE])
    ELSE Unheeded(Closed(p, s))

(* CreateSession and SelectSources are answered.  A closed session has no path to   *)
(* go on with: Start cannot even be called.                                        *)
PortalCreated(s) ==
    /\ Running /\ portal[s].reply = "create"
    /\ Unheeded([portal EXCEPT ![s].reply = "select", ![s].path = TRUE,
                               ![s].stream = "session"])
    /\ AnswerLeaves

PortalSelected(s) ==
    /\ Running /\ portal[s].reply = "select"
    /\ Unheeded([portal EXCEPT ![s].reply = IF portal[s].path THEN "start" ELSE "none"])
    /\ AnswerLeaves

(* Mutant: the timer is left armed.                                               *)
StreamStillTimed(s) ==
    [portal EXCEPT ![s].reply = "none", ![s].node = TRUE,
                   ![s].stream = IF @ = "session" THEN "live" ELSE @]

(* _on_started.                                                                   *)
Stream(s) ==
    [portal EXCEPT ![s].reply = "none", ![s].node = TRUE, ![s].timer = FALSE,
                   ![s].stream = IF @ = "session" THEN "live" ELSE @]

PortalStarted(s) ==
    /\ Running /\ portal[s].reply = "start"
    /\ IF portal[s].armed THEN PortalReady(s, Stream(s)) ELSE Unheeded(Stream(s))
    /\ AnswerLeaves

(* The user or the portal refuses, or the call fails.                             *)
PortalDenied(s) ==
    /\ Running /\ portal[s].reply # "none"
    /\ Failed(s, [portal EXCEPT ![s].reply = "none"])
    /\ AnswerLeaves

PortalTimeout(s) ==
    /\ Running /\ portal[s].timer
    /\ Failed(s, [portal EXCEPT ![s].timer = FALSE])
    /\ AnswerLeaves

----------------------------------------------------------------------------
(* The end of a recording.                                                        *)

(* Mutant: the path is released with the capture.                                 *)
StoppedReleasing(c) ==
    /\ handle' = [handle EXCEPT ![c] = "encoding"]
    /\ labels' = [labels EXCEPT ![c] = tags.confirmed]
    /\ capturing' = None /\ active' = NoPath
    /\ held' = held \ {active}
    /\ UNCHANGED refusals

(* Recorder.stop of recording c and what _finish_recording does with its result.    *)
Stopped(c) ==
    \* a finalizer runs, or nothing was captured and the handle has already failed
    \/ /\ \E ending \in {"encoding", "failed"} : handle' = [handle EXCEPT ![c] = ending]
       /\ labels' = [labels EXCEPT ![c] = tags.confirmed]
       /\ capturing' = None /\ active' = NoPath
       /\ UNCHANGED <<held, refusals>>
    \* too short: the discarded run has a handle too, and _active_path stays
    \/ /\ handle' = [handle EXCEPT ![c] = "failed"]
       /\ labels' = [labels EXCEPT ![c] = tags.confirmed]
       /\ capturing' = None
       /\ UNCHANGED <<held, active, refusals>>
    \* stop raises, before or after the run was detached
    \/ /\ refusals < MaxRefusals /\ refusals' = refusals + 1
       /\ capturing' \in {c, None}
       /\ held' = held \ {active} /\ active' = NoPath
       /\ UNCHANGED finalVars

(* _finish_recording: without a capture only the portal was waited for.            *)
Finish ==
    /\ tags' = Ended(tags)
    /\ ClosePortal(portal)
    /\ fed' = None
    /\ IF capturing = None
       THEN /\ held' = held \ {IF pending # None THEN path[pending] ELSE active}
            /\ active' = NoPath
            /\ UNCHANGED <<capturing, finalVars, refusals>>
       ELSE Stopped(capturing)
    /\ UNCHANGED <<path, answered, chosen>>

(* on_meeting_stop.                                                               *)
MeetingStops ==
    /\ Running /\ inCall
    /\ inCall' = FALSE /\ prompt' = None
    /\ IF state = "recording" THEN Finish
       ELSE UNCHANGED <<pending, pathVars, portalVars, capturing, finalVars, tags, refusals,
                        historyVars>>
    /\ state' = "idle"
    /\ UNCHANGED <<auto, phase, call, rival>>

(* Stop on the tray or the pill.                                                  *)
WidgetStop ==
    /\ Running /\ state = "recording"
    /\ Finish
    /\ state' = "idle"
    /\ UNCHANGED <<callVars, prompt, rival>>

(* External: the detached ffmpeg ends.                                            *)
FinalizerEnds(c) ==
    /\ phase # "off" /\ handle[c] = "encoding"
    /\ \E ending \in {"saved", "failed"} : handle' = [handle EXCEPT ![c] = ending]
    /\ UNCHANGED <<callVars, state, prompt, pending, pathVars, rival, portalVars, capturing,
                   labels, tags, refusals, historyVars>>

Unreported == {c \in Calls : handle[c] \in {"encoding", "saved", "failed"}}

(* _dispatch_handle: enrichment with the tags of the handle, release, report.  A     *)
(* finalizer that still runs has been killed first.                                *)
Dispatch(c) ==
    /\ c \in Unreported
    /\ handle' = [handle EXCEPT ![c] = "reported"]
    /\ labels' = [labels EXCEPT ![c] = None]
    /\ chosen' = [chosen EXCEPT ![c] = None]
    /\ held' = held \ {path[c]}
    /\ path' = [path EXCEPT ![c] = NoPath]
    /\ UNCHANGED <<auto, phase, call, inCall, state, prompt, pending, active, rival, portalVars,
                   capturing, tags, refusals, answered, fed>>

(* _poll_handle: the finalizer has ended, or the poll raises and aborts it.         *)
PollHandle(c) == Running /\ handle[c] # "encoding" /\ Dispatch(c)
PollRaises(c) == Running /\ handle[c] = "encoding" /\ Dispatch(c)

----------------------------------------------------------------------------
(* Tags, while a recording goes on.                                               *)

TagLeaves ==
    UNCHANGED <<callVars, state, prompt, pending, pathVars, rival, portalVars, capturing,
                finalVars, refusals, answered, fed>>

(* The worker's result reaches the main loop, and the controller unless the request *)
(* was cancelled or is not of the current generation.                              *)
TagsDelivered(q) ==
    /\ Running /\ q \in tags.due
    /\ \E result \in {"catalog", "empty", "unavailable"} :
         LET taken == [tags EXCEPT !.due = @ \ {q}] IN
         tags' = IF q = tags.handle /\ state = "recording"
                 THEN Received(taken, result, q, capturing # None) ELSE taken
    /\ TagLeaves /\ UNCHANGED chosen

(* _on_tags: the control is there to reopen a catalog or to retry.                 *)
TagsPressed ==
    /\ Running /\ state = "recording" /\ tags.handle = None
    /\ \/ tags.catalog # None /\ tags' = Offered(tags, capturing # None)
       \/ tags.catalog = None /\ tags.outcome = "unavailable" /\ tags' \in Requested(tags)
    /\ TagLeaves /\ UNCHANGED chosen

(* Done or Skip commits a selection; Not now, Escape, closing and the timeout of an  *)
(* untouched prompt commit nothing.  A prompt that was closed is not heard again.   *)
TagPromptEnds ==
    /\ Running /\ tags.prompt # None
    /\ \/ \E picked \in {tags.prompt, None} :
            /\ tags' = [tags EXCEPT !.confirmed = picked, !.prompt = None]
            /\ chosen' = [chosen EXCEPT ![call] = picked]
       \/ tags' = [tags EXCEPT !.prompt = None] /\ UNCHANGED chosen
    /\ TagLeaves

----------------------------------------------------------------------------
(* Controller.shutdown: what waits for the portal, what is captured, and then every  *)
(* finalizer, which is waited for or killed.  The loop has ended: no prompt, timer, *)
(* answer or catalog is heard any more.                                            *)
Silenced(p) == [s \in Calls |-> [p[s] EXCEPT !.reply = "none", !.timer = FALSE]]

ShutdownPending ==
    /\ Running /\ phase' = "quitting"
    /\ prompt' = None /\ tags' = [tags EXCEPT !.due = {}]
    /\ IF pending # None
       THEN held' = held \ {path[pending]} /\ ClosePortal(Silenced(portal))
       ELSE /\ portal' = Silenced(portal)
            /\ UNCHANGED <<held, pending, session, attached>>
    /\ UNCHANGED <<auto, call, inCall, state, active, path, rival, capturing, finalVars,
                   refusals, historyVars>>

ShutdownCapture ==
    /\ phase = "quitting" /\ phase' = "waiting"
    /\ IF capturing # None THEN Finish
       ELSE /\ held' = held \ {active} /\ active' = NoPath
            /\ UNCHANGED <<pending, path, portalVars, capturing, finalVars, tags, refusals,
                           historyVars>>
    /\ UNCHANGED <<auto, call, inCall, state, prompt, rival>>

ShutdownWaits(c) == phase = "waiting" /\ Dispatch(c)

(* Mutant: the handles are not waited for.                                        *)
ShutdownAtOnce == phase = "waiting"

(* The last handle has been waited for; tag_service.shutdown and the exit of the    *)
(* process.                                                                        *)
ShutdownDone == phase = "waiting" /\ Unreported = {}

ShutdownEnds ==
    /\ ShutdownDone /\ phase' = "off"
    /\ UNCHANGED <<auto, call, inCall, state, prompt, pending, pathVars, rival, portalVars,
                   capturing, finalVars, tags, refusals, historyVars>>

----------------------------------------------------------------------------
Init ==
    /\ auto \in BOOLEAN
    /\ phase = "running" /\ state = "idle" /\ call = 0 /\ inCall = FALSE
    /\ prompt = None /\ pending = None /\ active = NoPath
    /\ path = [c \in Calls |-> NoPath] /\ held = {} /\ rival = NoPath
    /\ session = None /\ attached = None
    /\ portal = [c \in Calls |-> [reply |-> "none", path |-> FALSE, node |-> FALSE,
                                  armed |-> FALSE, timer |-> FALSE, stream |-> "none"]]
    /\ capturing = None
    /\ handle = [c \in Calls |-> "none"] /\ labels = [c \in Calls |-> None]
    /\ tags = NoTags /\ refusals = 0
    /\ answered = None /\ fed = None /\ chosen = [c \in Calls |-> None]

Next ==
    \/ MeetingPrompts \/ MeetingRecords \/ MeetingStops \/ WidgetStop
    \/ TagsPressed \/ TagPromptEnds
    \/ RivalReserves \/ RivalEnds
    \/ ShutdownPending \/ ShutdownCapture \/ ShutdownEnds
    \/ \E p \in 1..call :
          \/ PromptIgnored(p) \/ ReserveFails(p)
          \/ \E wanted \in {"audio", "video"} : PromptAccepted(p, wanted)
    \/ \E s \in Calls :
          PortalCreated(s) \/ PortalSelected(s) \/ PortalStarted(s) \/ PortalDenied(s)
             \/ PortalTimeout(s)
    \/ \E c \in Calls : FinalizerEnds(c) \/ PollHandle(c) \/ PollRaises(c)
                          \/ ShutdownWaits(c)
    \/ \E q \in 1..tags.made : TagsDelivered(q)

Spec == Init /\ [][Next]_vars

(* The loop runs its timers, and shutdown is carried through once begun.            *)
Fairness ==
    /\ \A c \in Calls : WF_vars(PortalTimeout(c)) /\ WF_vars(PollHandle(c))
                        /\ WF_vars(ShutdownWaits(c))
    /\ WF_vars(ShutdownCapture) /\ WF_vars(ShutdownEnds)

FairSpec == Spec /\ Fairness

----------------------------------------------------------------------------
(* Properties.                                                                    *)

(* Recordings that still need their path: waiting for the portal, being captured,   *)
(* being finalized, or finalized and not yet enriched.                             *)
Users == {c \in Calls : c \in {pending, capturing} \/ handle[c] \in {"encoding", "saved"}}

(* Whatever order calls, portal answers, stops, finalizers and shutdown come in,    *)
(* every recording that needs its path has it reserved, for itself alone, and no    *)
(* reservation is left behind without a recording or an unreported failure (as long *)
(* as the recorder's stop does not raise).                                         *)
ReservationsExact ==
    refusals = 0 =>
        /\ {path[c] : c \in Users} \subseteq held
        /\ held \subseteq {path[c] : c \in Users \cup Unreported}
        /\ \A c, d \in Users : path[c] = path[d] => c = d
        /\ rival \notin held

(* A finished recording is labelled with the selection its user committed during    *)
(* that recording, and with nothing when none was: not with an unsaved edit, nor   *)
(* with what an earlier recording or a late catalog left behind.                   *)
TagsAreChosen ==
    refusals = 0 => \A c \in Unreported : labels[c] = chosen[c]

(* Only the prompt of a call decides about that call: a button pressed late or a    *)
(* close signal of an older notification does not.                                 *)
ConsentIsOwn == answered \in {None, call}

(* The stream a recording is fed from stays open until its capture ends: no timer,  *)
(* late answer or other session's failure closes it.                               *)
StreamOutlivesCapture ==
    fed # None => Feeds(portal, fed) /\ attached = fed

(* A recording does not wait for the portal for ever: it starts, with or without    *)
(* video, or ends.                                                                 *)
PendingResolves == pending # None ~> pending = None

(* A finalization that has ended is reported, and so is every one that shutdown     *)
(* finds, whether its encoder ends or has to be killed.                            *)
HandlesReported ==
    \A c \in Calls :
        c \in Unreported /\ (Running => handle[c] # "encoding") ~> handle[c] = "reported"

(* controller.py: "Release the ScreenCast session so the compositor stops the       *)
(* stream": no stream stays open when nothing is recorded.                         *)
NoOrphanStream ==
    state # "recording" => \A c \in Calls : portal[c].stream # "live"

============================================================================
