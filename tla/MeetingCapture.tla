-------------------------- MODULE MeetingCapture --------------------------
(* What of a call reaches the file: the detector's debounce, the recorder's        *)
(* segments with pause and resume, and the trim of the tail recorded while the     *)
(* detector waited.  Time advances in ticks; tick t stands for the interval from   *)
(* t to t + 1, and a segment is the set of ticks its ffmpeg wrote.                 *)
EXTENDS Integers, FiniteSets, Sequences, SequencesExt

CONSTANTS
    Apps, NoApp,      \* applications of the allowlist
    NoTime,           \* a deadline that is not armed
    StartDebounce, StopDebounce, MinRecording,
    Portal,           \* video must come from the ScreenCast portal (Wayland)
    MaxClock,         \* bound: the last tick
    MaxSegments       \* bound: parts of one run

ASSUME CaptureAssumption ==
    /\ NoApp \notin Apps
    /\ StartDebounce \in Nat /\ StopDebounce \in Nat /\ MinRecording \in Nat
    /\ Portal \in BOOLEAN /\ MaxClock \in Nat /\ NoTime \notin 0..MaxClock
    /\ MaxSegments \in Nat

VARIABLES
    now,        \* the monotonic clock
    polled,     \* the detector has looked since the clock last moved
    machine,    \* DebounceMachine
    state,      \* Controller.state
    recorder,   \* the active run of Recorder
    segments,   \* its parts, oldest first
    stream,     \* the portal's screen stream
    outcome,    \* history: what the last run that ended left
    missing     \* history: the first look of this meeting since which no app was seen

detectorVars == <<now, polled, machine, missing>>
captureVars == <<recorder, segments, stream, outcome>>
vars == <<now, polled, machine, state, recorder, segments, stream, outcome, missing>>

Ticks == 0..(MaxClock - 1)
Moments == 0..MaxClock

NoRun == [on |-> FALSE, paused |-> FALSE, alive |-> FALSE, died |-> FALSE,
          accum |-> 0, from |-> 0, wanted |-> "audio", video |-> "unset"]

NoOutcome == [tape |-> {}, kept |-> {}, callEnd |-> NoTime, at |-> 0, died |-> FALSE]

----------------------------------------------------------------------------
(* The detector.                                                                  *)

InMeeting == machine.app # NoApp

(* update outside a meeting: one application must be seen for StartDebounce.      *)
Candidate(sample) ==
    LET since == IF machine.candidate = sample THEN machine.since ELSE now IN
    IF sample = NoApp
    THEN [machine EXCEPT !.candidate = NoApp, !.since = NoTime]
    ELSE IF now - since >= StartDebounce
    THEN [app |-> sample, candidate |-> NoApp, since |-> NoTime, absent |-> NoTime]
    ELSE [machine EXCEPT !.candidate = sample, !.since = since]

AbsentSince == IF machine.absent = NoTime THEN now ELSE machine.absent

(* Mutant: a sighting before the wait is over does not undo it.                     *)
AttendingStubborn(sample) ==
    IF sample = NoApp /\ now - AbsentSince >= StopDebounce
    THEN [machine EXCEPT !.app = NoApp, !.absent = NoTime]
    ELSE [machine EXCEPT !.absent = IF sample = NoApp THEN AbsentSince ELSE @]

(* update during a meeting: absence must last StopDebounce, any sighting undoes it. *)
Attending(sample) ==
    IF sample # NoApp
    THEN [machine EXCEPT !.absent = NoTime]
    ELSE IF now - AbsentSince >= StopDebounce
    THEN [machine EXCEPT !.app = NoApp, !.absent = NoTime]
    ELSE [machine EXCEPT !.absent = AbsentSince]

Updated(sample) == IF InMeeting THEN Attending(sample) ELSE Candidate(sample)

----------------------------------------------------------------------------
(* The recorder.                                                                  *)

Tape(parts) == UNION {parts[k].ticks : k \in DOMAIN parts}

Elapsed ==
    IF ~recorder.on \/ recorder.paused
    THEN recorder.accum
    ELSE recorder.accum + (now - recorder.from)

WantsPipewire(run) == Portal /\ run.wanted = "video"

(* Mutant: every segment decides by itself.                                       *)
LayoutPerSegment(run, pumped) ==
    IF run.wanted = "video" /\ (WantsPipewire(run) => pumped) THEN "yes" ELSE "no"

(* _start_segment: the first segment decides whether this run has video; later    *)
(* segments keep that layout, whatever their own pump did.                        *)
Layout(run, pumped) ==
    IF run.video # "unset" THEN run.video
    ELSE IF run.wanted = "video" /\ (WantsPipewire(run) => pumped) THEN "yes" ELSE "no"

Source(run, pumped) ==
    IF Layout(run, pumped) = "no" THEN "audio"
    ELSE IF pumped THEN "pump" ELSE "grab"

(* A pump needs an open portal stream and may fail all the same.                  *)
StartSegment(run, earlier, sharing, pumped) ==
    /\ pumped => WantsPipewire(run) /\ run.video # "no" /\ sharing
    /\ segments' = Append(earlier, [source |-> Source(run, pumped), ticks |-> {}])
    /\ recorder' = [run EXCEPT !.alive = TRUE, !.from = now, !.video = Layout(run, pumped)]

(* Mutant: the run counts as resumed although ffmpeg did not start.                *)
ResumeFailsRunning ==
    recorder' = [recorder EXCEPT !.paused = FALSE] /\ UNCHANGED segments

(* Ffmpeg could not be run: start() resets, resume() stays paused.  The layout a   *)
(* first segment chose is forgotten with the run.                                 *)
ResumeFails == recorder' = recorder /\ UNCHANGED segments

(* The file holds the first `duration` ticks of what the segments hold; a trim     *)
(* never leaves less than the shortest clip.                                      *)
ShortestClip == 1

FirstTicks(tape, duration) ==
    {t \in tape : Cardinality({u \in tape : u < t}) < duration}

Larger(a, b) == IF a > b THEN a ELSE b

Kept(trim) ==
    IF Elapsed - trim < MinRecording THEN {}
    ELSE IF trim = 0 THEN Tape(segments)
    ELSE FirstTicks(Tape(segments), Larger(ShortestClip, Elapsed - trim))

(* _finish_recording and Recorder.stop, for a run that is recording: too short a   *)
(* run is discarded, any other is trimmed and finalized.  _close_portal.           *)
Finish(trim, callEnd) ==
    /\ outcome' = [tape |-> Tape(segments), kept |-> Kept(trim), callEnd |-> callEnd,
                   at |-> now, died |-> recorder.died]
    /\ recorder' = NoRun
    /\ segments' = <<>>
    /\ stream' = "none"

----------------------------------------------------------------------------
Init ==
    /\ now = 0 /\ polled = FALSE
    /\ machine = [app |-> NoApp, candidate |-> NoApp, since |-> NoTime, absent |-> NoTime]
    /\ state = "idle"
    /\ recorder = NoRun /\ segments = <<>> /\ stream = "none" /\ outcome = NoOutcome
    /\ missing = NoTime

(* External: time passes and a running ffmpeg writes the tick.                    *)
Tick ==
    /\ now < MaxClock
    /\ now' = now + 1
    /\ polled' = FALSE
    /\ segments' = IF recorder.alive
                   THEN [segments EXCEPT ![Len(segments)].ticks = @ \cup {now}]
                   ELSE segments
    /\ UNCHANGED <<machine, state, recorder, stream, outcome, missing>>

(* MeetingDetector.tick: any application may hold the microphone by now, or none;  *)
(* a pactl that fails reads as none.                                              *)
Polled(sample) ==
    /\ ~polled /\ polled' = TRUE
    /\ machine' = Updated(sample)
    /\ missing' = IF ~InMeeting \/ sample # NoApp THEN NoTime
                  ELSE IF missing = NoTime THEN now ELSE missing
    /\ UNCHANGED now

PollQuietly(sample) ==
    /\ Polled(sample)
    /\ machine'.app = machine.app
    /\ UNCHANGED <<state, recorder, segments, stream, outcome>>

(* on_meeting_start: ask, unless a recording or a prompt is under way.            *)
PollStarts(sample) ==
    /\ Polled(sample)
    /\ ~InMeeting /\ machine'.app # NoApp
    /\ state' = IF state = "idle" THEN "prompting" ELSE state
    /\ UNCHANGED captureVars

(* on_meeting_stop with the time the detector waited.                             *)
PollStops(sample) ==
    /\ Polled(sample)
    /\ InMeeting /\ machine'.app = NoApp
    /\ IF state = "recording" THEN Finish(now - AbsentSince, IF missing = NoTime THEN now ELSE missing)
       ELSE UNCHANGED captureVars
    /\ state' = "idle"

(* The user takes video or audio; the portal grants a stream or refuses it.        *)
Accept(wanted, pumped) ==
    /\ state = "prompting" /\ ~recorder.on
    /\ stream' \in IF Portal /\ wanted = "video" THEN {"open", "none"} ELSE {"none"}
    /\ StartSegment([NoRun EXCEPT !.on = TRUE, !.wanted = wanted], <<>>,
                    stream' = "open", pumped)
    /\ state' = "recording"
    /\ UNCHANGED <<detectorVars, outcome>>

(* Declined, timed out, or the capture could not start.                           *)
Decline ==
    /\ state = "prompting"
    /\ state' = "idle"
    /\ UNCHANGED <<detectorVars, recorder, segments, stream, outcome>>

Pause ==
    /\ recorder.on /\ ~recorder.paused
    /\ recorder' = [recorder EXCEPT !.accum = Elapsed, !.paused = TRUE, !.alive = FALSE]
    /\ UNCHANGED <<detectorVars, state, segments, stream, outcome>>

Resume(pumped) ==
    /\ recorder.on /\ recorder.paused
    /\ Len(segments) < MaxSegments
    /\ StartSegment([recorder EXCEPT !.paused = FALSE], segments, stream = "open", pumped)
    /\ UNCHANGED <<detectorVars, state, stream, outcome>>

ResumeRefused ==
    /\ recorder.on /\ recorder.paused
    /\ ResumeFails
    /\ UNCHANGED <<detectorVars, state, stream, outcome>>

(* Stop on the tray or the pill: nothing is trimmed.                              *)
WidgetStop ==
    /\ state = "recording" /\ recorder.on
    /\ Finish(0, NoTime)
    /\ state' = "idle"
    /\ UNCHANGED detectorVars

(* External: ffmpeg ends by itself; the recorder does not notice and its clock     *)
(* runs on.                                                                       *)
CaptureDies ==
    /\ recorder.alive
    /\ recorder' = [recorder EXCEPT !.alive = FALSE, !.died = TRUE]
    /\ UNCHANGED <<detectorVars, state, segments, stream, outcome>>

(* External: the user stops sharing in the compositor; no one is told.            *)
StreamRevoked ==
    /\ stream = "open"
    /\ stream' = "revoked"
    /\ UNCHANGED <<detectorVars, state, recorder, segments, outcome>>

Next ==
    \/ Tick
    \/ \E sample \in Apps \cup {NoApp} :
          PollQuietly(sample) \/ PollStarts(sample) \/ PollStops(sample)
    \/ \E wanted \in {"audio", "video"}, pumped \in BOOLEAN : Accept(wanted, pumped)
    \/ Decline \/ Pause \/ WidgetStop \/ CaptureDies \/ StreamRevoked
    \/ \E pumped \in BOOLEAN : Resume(pumped)
    \/ ResumeRefused

Spec == Init /\ [][Next]_vars

----------------------------------------------------------------------------
(* Properties.                                                                    *)

CaptureTypeOK ==
    /\ now \in Moments /\ polled \in BOOLEAN
    /\ machine \in [app : Apps \cup {NoApp}, candidate : Apps \cup {NoApp},
                    since : Moments \cup {NoTime}, absent : Moments \cup {NoTime}]
    /\ state \in {"idle", "prompting", "recording"}
    /\ recorder \in [on : BOOLEAN, paused : BOOLEAN, alive : BOOLEAN, died : BOOLEAN,
                     accum : Moments, from : Moments, wanted : {"audio", "video"},
                     video : {"unset", "yes", "no"}]
    /\ segments \in Seq([source : {"audio", "pump", "grab"}, ticks : SUBSET Ticks])
    /\ stream \in {"none", "open", "revoked"}
    /\ missing \in Moments \cup {NoTime}
    /\ outcome \in [tape : SUBSET Ticks, kept : SUBSET Ticks, at : Moments,
                    callEnd : Moments \cup {NoTime}, died : BOOLEAN]

Before(tape, t) == {u \in tape : u < t}

(* When capture ran on through the whole wait of the detector, the saved file is   *)
(* exactly what was recorded up to the last sighting of the call, however often    *)
(* the user paused before; it is dropped only if that is too short.               *)
TrimIsExact ==
    LET o == outcome IN
    /\ o.callEnd # NoTime /\ ~o.died
    /\ o.callEnd..(o.at - 1) \subseteq o.tape
    =>
        \/ o.kept = Before(o.tape, o.callEnd)
        \/ o.kept = {} /\ Cardinality(Before(o.tape, o.callEnd)) < MinRecording

(* The live timer, which also decides what is too short and where the file is cut, *)
(* counts exactly the captured ticks through every pause, resume and refused       *)
(* resume, unless ffmpeg died.                                                    *)
ElapsedMatchesTape ==
    recorder.on /\ ~recorder.died => Elapsed = Cardinality(Tape(segments))

(* Finalization concatenates the parts under one layout: of a run either all parts  *)
(* have a video or none has, and a video that needs the portal began as the         *)
(* portal's.  It says no more of a later part: one whose pump fails grabs the X     *)
(* display (recorder.py:660-664), a video although not of this screen.             *)
LayoutsAgree ==
    /\ \A k \in DOMAIN segments :
          segments[k].source # "audio" <=> recorder.video = "yes"
    /\ Portal /\ recorder.video = "yes" => segments[1].source = "pump"

============================================================================
