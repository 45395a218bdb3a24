----------------------- MODULE MeetingCapture_proofs -----------------------
(* Theorems about what of a call reaches the file, for any debounce, any length of  *)
(* the call and any number of pauses.                                              *)
EXTENDS MeetingCapture, FiniteSetTheorems, SequenceTheorems, TLAPS

Parts == [source : {"audio", "pump", "grab"}, ticks : SUBSET Ticks]
Runs == [on : BOOLEAN, paused : BOOLEAN, alive : BOOLEAN, died : BOOLEAN,
         accum : Moments, from : Moments, wanted : {"audio", "video"},
         video : {"unset", "yes", "no"}]
Machines == [app : Apps \cup {NoApp}, candidate : Apps \cup {NoApp},
             since : Moments \cup {NoTime}, absent : Moments \cup {NoTime}]

----------------------------------------------------------------------------
(* Sets of ticks.                                                                 *)

(* Sets of ticks before some moment are finite.                                    *)
LEMMA TapesAreFinite ==
    ASSUME NEW n \in Nat, NEW tape \in SUBSET (0..(n - 1))
    PROVE  IsFiniteSet(tape) /\ Cardinality(tape) \in Nat
<1>1. IsFiniteSet(0..(n - 1))
  BY FS_Interval
<1>2. QED
  BY <1>1, FS_Subset, FS_CardinalityType

(* What was recorded without a gap since e is what lies before e and n - e ticks.    *)
LEMMA GaplessTail ==
    ASSUME NEW n \in Nat, NEW tape \in SUBSET (0..(n - 1)), NEW e \in 0..n,
           e..(n - 1) \subseteq tape
    PROVE  Cardinality(tape) = Cardinality(Before(tape, e)) + (n - e)
<1> DEFINE head == Before(tape, e)
           tail == e..(n - 1)
<1>0. /\ e \in 0..n /\ n \in Nat /\ (\A u \in e..(n - 1) : u \in tape)
      /\ \A u \in tape : u \in Int /\ u \in 0..(n - 1)
  OBVIOUS
<1>1. head \subseteq 0..(n - 1) /\ head \cap tail = {} /\ tape = head \cup tail
  <2>1. /\ \A u \in tape : u < e \/ u \in e..(n - 1)
        /\ \A u \in e..(n - 1) : ~ (u < e)
    BY <1>0
  <2>2. QED
    BY <1>0, <2>1 DEF Before
<1>2. IsFiniteSet(head) /\ Cardinality(head) \in Nat
  BY <1>1, TapesAreFinite
<1>3. IsFiniteSet(tail) /\ Cardinality(tail) = n - e
  <2>1. e \in Int /\ n - 1 \in Int /\ (e > n - 1 <=> e = n)
    OBVIOUS
  <2>2. IsFiniteSet(tail) /\ Cardinality(tail) = IF e > n - 1 THEN 0 ELSE (n - 1) - e + 1
    BY <2>1, FS_Interval
  <2>3. QED
    BY <2>1, <2>2
<1>4. Cardinality(head \cup tail) = Cardinality(head) + Cardinality(tail) - Cardinality({})
  BY <1>1, <1>2, <1>3, FS_Union
<1>5. QED
  <2>1. Cardinality(tape) = Cardinality(head) + Cardinality(tail) - 0
    BY <1>1, <1>4, FS_EmptySet
  <2>2. e \in Int /\ n \in Int
    BY <1>0
  <2>3. QED
    BY <1>2, <1>3, <2>1, <2>2

(* As many first ticks as lie before e are the ticks before e.                      *)
LEMMA FirstTicksAreThoseBefore ==
    ASSUME NEW n \in Nat, NEW tape \in SUBSET (0..(n - 1)), NEW e \in Int
    PROVE  FirstTicks(tape, Cardinality(Before(tape, e))) = Before(tape, e)
<1>0. e \in Int /\ \A u \in tape : u \in Int /\ u \in 0..(n - 1)
  OBVIOUS
<1>1. ASSUME NEW t \in tape, t < e
      PROVE  Cardinality({u \in tape : u < t}) < Cardinality(Before(tape, e))
  <2> DEFINE earlier == {u \in tape : u < t}
  <2>1. Before(tape, e) \in SUBSET (0..(n - 1))
    BY DEF Before
  <2>2. earlier \subseteq Before(tape, e) /\ t \in Before(tape, e) \ earlier
    <3>1. /\ \A u \in tape : u < t => u < e
          /\ ~ (t < t)
      BY <1>0, <1>1
    <3>2. QED
      BY <1>1, <3>1 DEF Before
  <2>3. IsFiniteSet(Before(tape, e)) /\ Cardinality(Before(tape, e)) \in Nat
    BY <2>1, TapesAreFinite
  <2>4. /\ IsFiniteSet(earlier) /\ Cardinality(earlier) <= Cardinality(Before(tape, e))
        /\ Cardinality(earlier) # Cardinality(Before(tape, e))
    BY <2>2, <2>3, FS_Subset
  <2>5. Cardinality(earlier) \in Nat
    BY <2>4, FS_CardinalityType
  <2>6. QED
    BY <2>3, <2>4, <2>5
<1>2. ASSUME NEW t \in tape, ~ (t < e)
      PROVE  ~ (Cardinality({u \in tape : u < t}) < Cardinality(Before(tape, e)))
  <2> DEFINE earlier == {u \in tape : u < t}
  <2>1. earlier \in SUBSET (0..(n - 1))
    OBVIOUS
  <2>2. Before(tape, e) \subseteq earlier
    <3>1. \A u \in tape : u < e => u < t
      BY <1>0, <1>2
    <3>2. QED
      BY <3>1 DEF Before
  <2>3. IsFiniteSet(earlier) /\ Cardinality(earlier) \in Nat
    BY <2>1, TapesAreFinite
  <2>4. Cardinality(Before(tape, e)) <= Cardinality(earlier) /\ IsFiniteSet(Before(tape, e))
    BY <2>2, <2>3, FS_Subset
  <2>5. Cardinality(Before(tape, e)) \in Nat
    BY <2>4, FS_CardinalityType
  <2>6. QED
    BY <2>3, <2>4, <2>5
<1>3. QED
  BY <1>1, <1>2 DEF FirstTicks, Before

----------------------------------------------------------------------------
(* The parts of a run.                                                            *)

(* A new part has nothing on it.                                                   *)
LEMMA AppendedPart ==
    ASSUME NEW parts \in Seq(Parts), NEW part \in Parts, part.ticks = {}
    PROVE  /\ Append(parts, part) \in Seq(Parts) /\ Append(parts, part) # <<>>
           /\ Tape(Append(parts, part)) = Tape(parts)
           /\ \A k \in DOMAIN Append(parts, part) :
                 Append(parts, part)[k] = part \/ (k \in DOMAIN parts /\
                                                   Append(parts, part)[k] = parts[k])
           /\ 1 \in DOMAIN Append(parts, part)
           /\ Append(parts, part)[1] = IF parts = <<>> THEN part ELSE parts[1]
<1> DEFINE longer == Append(parts, part)
<1>1. /\ longer \in Seq(Parts) /\ longer # <<>> /\ Len(longer) = Len(parts) + 1
      /\ \A k \in 1..Len(parts) : longer[k] = parts[k]
      /\ longer[Len(parts) + 1] = part
  BY AppendProperties
<1>2. /\ DOMAIN longer = 1..(Len(parts) + 1) /\ DOMAIN parts = 1..Len(parts)
      /\ Len(parts) \in Nat
  BY <1>1, LenProperties
<1> HIDE DEF longer
<1>3. \A k \in DOMAIN longer : k \in DOMAIN parts \/ k = Len(parts) + 1
  BY <1>2
<1>4. Tape(longer) = Tape(parts)
  <2>1. \A t : (\E k \in DOMAIN longer : t \in longer[k].ticks)
               <=> (\E k \in DOMAIN parts : t \in parts[k].ticks)
    BY <1>1, <1>2, <1>3
  <2>2. QED
    BY <2>1 DEF Tape
<1>5. QED
  BY <1>1, <1>2, <1>3, <1>4 DEF longer

(* The tick that the last part takes is the only one that is new.                   *)
LEMMA WrittenTick ==
    ASSUME NEW parts \in Seq(Parts), parts # <<>>, NEW t \in Ticks
    PROVE  LET longer == [parts EXCEPT ![Len(parts)].ticks = @ \cup {t}] IN
           /\ longer \in Seq(Parts) /\ longer # <<>>
           /\ Tape(longer) = Tape(parts) \cup {t}
           /\ DOMAIN longer = DOMAIN parts
           /\ \A k \in DOMAIN parts : longer[k].source = parts[k].source
<1> DEFINE last == parts[Len(parts)]
           part == [last EXCEPT !.ticks = last.ticks \cup {t}]
           longer == [parts EXCEPT ![Len(parts)] = part]
<1>1. /\ Len(parts) \in 1..Len(parts) /\ Len(parts) \in Nat
      /\ DOMAIN parts = 1..Len(parts) /\ last \in Parts
  BY EmptySeq, LenProperties, ElementOfSeq
<1>2. part \in Parts /\ part.source = last.source /\ part.ticks = last.ticks \cup {t}
  BY <1>1 DEF Parts
<1> HIDE DEF part
<1>3. /\ longer \in Seq(Parts) /\ Len(longer) = Len(parts)
      /\ \A k \in 1..Len(parts) : longer[k] = IF k = Len(parts) THEN part ELSE parts[k]
  BY <1>1, <1>2, ExceptSeq
<1>4. DOMAIN longer = DOMAIN parts /\ longer # <<>>
  BY <1>1, <1>3, LenProperties
<1> HIDE DEF longer
<1>5. \A k \in DOMAIN parts : longer[k].source = parts[k].source
  BY <1>1, <1>2, <1>3
<1>6. Tape(longer) = Tape(parts) \cup {t}
  <2>1. \A u : (\E k \in DOMAIN longer : u \in longer[k].ticks)
               <=> u = t \/ (\E k \in DOMAIN parts : u \in parts[k].ticks)
    BY <1>1, <1>2, <1>3, <1>4
  <2>2. QED
    BY <2>1 DEF Tape
<1>7. QED
  BY <1>3, <1>4, <1>5, <1>6 DEF longer, part

----------------------------------------------------------------------------
(* The run under way: its clock, its parts and what is on them.                    *)

RunOK ==
    /\ recorder \in Runs /\ segments \in Seq(Parts)
    /\ state \in {"idle", "prompting", "recording"}
    /\ recorder.on => segments # <<>> /\ recorder.video # "unset"
    /\ ~ recorder.on => recorder = NoRun /\ segments = <<>>
    /\ state = "recording" <=> recorder.on

(* Ffmpeg writes what the clock counts: the clock runs when the run is not paused,   *)
(* and so does ffmpeg unless it died.                                             *)
ClockOK ==
    /\ now \in Moments
    /\ recorder.accum <= now
    /\ recorder.on /\ ~ recorder.paused => recorder.accum <= recorder.from /\ recorder.from <= now
    /\ recorder.alive => recorder.on /\ ~ recorder.paused
    /\ recorder.on /\ ~ recorder.paused /\ ~ recorder.died => recorder.alive
    /\ Tape(segments) \subseteq 0..(now - 1)

(* The detector counts its wait from the first look that saw no application.        *)
DetectorOK ==
    /\ machine \in Machines /\ polled \in BOOLEAN
    /\ missing \in Moments \cup {NoTime} /\ (missing # NoTime => missing <= now)
    /\ machine.absent = IF InMeeting THEN missing ELSE NoTime
    /\ machine.since # NoTime => machine.since <= now

Outcomes == [tape : SUBSET Ticks, kept : SUBSET Ticks, at : Moments,
             callEnd : Moments \cup {NoTime}, died : BOOLEAN]
OutcomeOK ==
    /\ stream \in {"none", "open", "revoked"} /\ outcome \in Outcomes
    /\ MinRecording # 0 => TrimIsExact

CaptureInv ==
    /\ RunOK /\ ClockOK /\ DetectorOK /\ LayoutsAgree /\ ElapsedMatchesTape

(* An idle recorder and a detector that has seen nothing agree.                    *)
LEMMA CaptureStarts == Init => CaptureInv /\ OutcomeOK
<1> SUFFICES ASSUME Init PROVE CaptureInv /\ OutcomeOK
  OBVIOUS
<1> USE CaptureAssumption DEF Init, NoRun, NoOutcome, Moments
<1>0. Tape(<<>>) = {} /\ segments \in Seq(Parts)
  BY EmptySeq DEF Tape
<1>2. RunOK
  BY <1>0 DEF RunOK, Runs
<1>3. ClockOK /\ ElapsedMatchesTape /\ LayoutsAgree
  BY <1>0 DEF ClockOK, ElapsedMatchesTape, LayoutsAgree
<1>4. DetectorOK
  BY DEF DetectorOK, Machines, InMeeting
<1>5. OutcomeOK
  BY DEF OutcomeOK, TrimIsExact, Outcomes
<1>6. QED
  BY <1>2, <1>3, <1>4, <1>5 DEF CaptureInv

(* The clock of a run never exceeds the time.                                      *)
LEMMA ElapsedBounded ==
    ASSUME RunOK, ClockOK
    PROVE  Elapsed \in Moments /\ Elapsed <= now
<1>1. /\ recorder.accum \in Moments /\ recorder.from \in Moments /\ recorder.on \in BOOLEAN
      /\ recorder.paused \in BOOLEAN /\ now \in Moments /\ recorder.accum <= now
      /\ recorder.on /\ ~ recorder.paused => recorder.accum <= recorder.from /\ recorder.from <= now
  BY DEF RunOK, ClockOK, Runs
<1>2. MaxClock \in Nat
  BY CaptureAssumption
<1>3. QED
  BY <1>1, <1>2 DEF Elapsed, Moments

(* Time passes: the tick is on the tape exactly when the clock of the run counts it. *)
LEMMA TickSteps ==
    ASSUME RunOK, ClockOK, DetectorOK, LayoutsAgree, ElapsedMatchesTape, Tick
    PROVE  (RunOK /\ ClockOK /\ DetectorOK /\ LayoutsAgree /\ ElapsedMatchesTape)'
<1>0. /\ MaxClock \in Nat /\ now \in 0..MaxClock /\ now < MaxClock /\ now' = now + 1
      /\ now \in Ticks /\ now' \in Moments /\ now \in Nat
      /\ UNCHANGED <<machine, state, recorder, stream, outcome, missing>> /\ polled' = FALSE
  BY CaptureAssumption DEF Tick, ClockOK, Moments, Ticks
<1>1. recorder \in Runs /\ segments \in Seq(Parts)
  BY DEF RunOK
<1>2. Tape(segments) \in SUBSET (0..(now - 1)) /\ now \notin Tape(segments)
  BY <1>0 DEF ClockOK
<1>3. IsFiniteSet(Tape(segments)) /\ Cardinality(Tape(segments)) \in Nat
  BY <1>0, <1>2, TapesAreFinite
<1>4. DetectorOK'
  <2>1. /\ machine.since \in Moments \cup {NoTime} /\ missing \in Moments \cup {NoTime}
        /\ machine.since # NoTime => machine.since <= now
        /\ missing # NoTime => missing <= now
    BY DEF DetectorOK, Machines
  <2>2. \A m \in Moments : m <= now => m <= now'
    BY <1>0 DEF Moments
  <2>3. QED
    BY <1>0, <2>1, <2>2 DEF DetectorOK, InMeeting
<1>5. CASE recorder.alive
  <2>1. segments # <<>> /\ recorder.on /\ ~ recorder.paused
    BY <1>5 DEF RunOK, ClockOK
  <2>2. /\ segments' \in Seq(Parts) /\ segments' # <<>>
        /\ Tape(segments') = Tape(segments) \cup {now}
        /\ DOMAIN segments' = DOMAIN segments
        /\ \A k \in DOMAIN segments : segments'[k].source = segments[k].source
    <3>1. segments' = [segments EXCEPT ![Len(segments)].ticks = @ \cup {now}]
      BY <1>5 DEF Tick
    <3>2. QED
      BY <1>0, <1>1, <2>1, <3>1, WrittenTick
  <2>3. Cardinality(Tape(segments')) = Cardinality(Tape(segments)) + 1
    BY <1>2, <1>3, <2>2, FS_AddElement
  <2>4. RunOK' /\ LayoutsAgree'
    <3>1. 1 \in DOMAIN segments
      BY <1>1, <2>1, EmptySeq, LenProperties
    <3>2. QED
      BY <1>0, <2>1, <2>2, <3>1 DEF RunOK, LayoutsAgree
  <2>5. Tape(segments)' = Tape(segments')
    BY DEF Tape
  <2>6. ClockOK'
    <3>1. \A t \in Tape(segments)' : t \in 0..(now' - 1)
      BY <1>0, <1>2, <2>2, <2>5
    <3>2. QED
      BY <1>0, <1>1, <2>1, <3>1 DEF ClockOK, Runs, Moments
  <2>7. ElapsedMatchesTape'
    BY <1>0, <1>1, <1>3, <2>1, <2>3, <2>5 DEF ElapsedMatchesTape, Elapsed, Runs, Moments
  <2>8. QED
    BY <1>4, <2>4, <2>6, <2>7
<1>6. CASE ~ recorder.alive
  <2>1. segments' = segments /\ Tape(segments)' = Tape(segments)
    BY <1>0, <1>6 DEF Tick, Tape
  <2>2. RunOK' /\ LayoutsAgree'
    BY <1>0, <2>1 DEF RunOK, LayoutsAgree
  <2>3. ClockOK'
    <3>1. \A t \in Tape(segments)' : t \in 0..(now' - 1)
      BY <1>0, <1>2, <2>1
    <3>2. QED
      BY <1>0, <1>1, <1>6, <3>1 DEF ClockOK, Runs, Moments
  <2>4. ElapsedMatchesTape'
    BY <1>0, <1>6, <2>1 DEF ElapsedMatchesTape, Elapsed, ClockOK
  <2>5. QED
    BY <1>4, <2>2, <2>3, <2>4
<1>7. recorder.alive \in BOOLEAN
  BY <1>1 DEF Runs
<1>8. QED
  BY <1>5, <1>6, <1>7

Agrees(part, video) == part.source # "audio" <=> video = "yes"

(* A new part has the layout of the run it belongs to.                              *)
LEMMA PartAdded ==
    ASSUME NEW run \in Runs, NEW earlier \in Seq(Parts), NEW pumped \in BOOLEAN,
           segments' = Append(earlier, [source |-> Source(run, pumped), ticks |-> {}])
    PROVE  /\ segments' \in Seq(Parts) /\ segments' # <<>> /\ Tape(segments') = Tape(earlier)
           /\ Layout(run, pumped) \in {"yes", "no"}
           /\ run.video # "unset" => Layout(run, pumped) = run.video
           /\ \A k \in DOMAIN segments' :
                 \/ Agrees(segments'[k], Layout(run, pumped))
                 \/ k \in DOMAIN earlier /\ segments'[k] = earlier[k]
           /\ IF earlier = <<>> THEN segments'[1].source = Source(run, pumped)
              ELSE segments'[1] = earlier[1]
<1> DEFINE part == [source |-> Source(run, pumped), ticks |-> {}]
<1>1. /\ Layout(run, pumped) \in {"yes", "no"}
      /\ run.video # "unset" => Layout(run, pumped) = run.video
      /\ Source(run, pumped) \in {"audio", "pump", "grab"}
      /\ Source(run, pumped) # "audio" <=> Layout(run, pumped) = "yes"
  <2>1. run.video \in {"unset", "yes", "no"}
    BY DEF Runs
  <2>2. /\ Layout(run, pumped) \in {"yes", "no"}
        /\ run.video # "unset" => Layout(run, pumped) = run.video
    BY <2>1 DEF Layout
  <2>3. QED
    BY <2>2 DEF Source
<1>2. /\ part \in Parts /\ part.ticks = {} /\ Agrees(part, Layout(run, pumped))
      /\ part.source = Source(run, pumped)
  BY <1>1 DEF Parts, Agrees
<1>3. segments' = Append(earlier, part)
  OBVIOUS
<1> HIDE DEF part
<1>4. /\ segments' \in Seq(Parts) /\ segments' # <<>> /\ Tape(segments') = Tape(earlier)
      /\ \A k \in DOMAIN segments' :
            segments'[k] = part \/ (k \in DOMAIN earlier /\ segments'[k] = earlier[k])
      /\ segments'[1] = IF earlier = <<>> THEN part ELSE earlier[1]
  BY <1>2, <1>3, AppendedPart
<1>5. QED
  BY <1>1, <1>2, <1>4

Running == RunOK /\ ClockOK /\ LayoutsAgree /\ ElapsedMatchesTape

(* Accepting, pausing, resuming, refusing, dying: none of it moves the clock away    *)
(* from the tape.                                                                 *)
LEMMA RunSteps ==
    ASSUME Running,
           \/ \E wanted \in {"audio", "video"}, pumped \in BOOLEAN : Accept(wanted, pumped)
           \/ \E pumped \in BOOLEAN : Resume(pumped)
           \/ Pause \/ ResumeRefused \/ CaptureDies \/ StreamRevoked \/ Decline
    PROVE  Running'
<1> USE DEF Running
<1>0. /\ recorder \in Runs /\ segments \in Seq(Parts) /\ now \in Moments /\ MaxClock \in Nat
      /\ Tape(segments) \subseteq 0..(now - 1)
  BY CaptureAssumption DEF RunOK, ClockOK
<1>1. Elapsed \in Moments /\ Elapsed <= now
  BY ElapsedBounded
<1>2. /\ Tape(segments)' = Tape(segments')
      /\ 0 \in Moments /\ 0 <= now /\ now <= now /\ now - now = 0
      /\ \A n \in Moments : n + (now - now) = n
  BY <1>0 DEF Tape, Moments
<1>3. ASSUME NEW wanted \in {"audio", "video"}, NEW pumped \in BOOLEAN, Accept(wanted, pumped)
      PROVE  Running'
  <2> DEFINE run == [NoRun EXCEPT !.on = TRUE, !.wanted = wanted]
  <2>1. /\ run \in Runs /\ run.on /\ ~ run.paused /\ ~ run.died /\ run.accum = 0
        /\ run.video = "unset"
    <3>1. /\ NoRun.video = "unset"
          /\ NoRun \in Runs /\ ~ NoRun.paused /\ ~ NoRun.died /\ NoRun.accum = 0
      BY <1>2 DEF NoRun, Runs
    <3>2. wanted \in {"audio", "video"}
      OBVIOUS
    <3>3. QED
      BY <3>1, <3>2 DEF Runs
  <2>0. <<>> \in Seq(Parts) /\ Tape(<<>>) = {} /\ DOMAIN <<>> = {}
    BY EmptySeq DEF Tape
  <2>2. /\ segments' = Append(<<>>, [source |-> Source(run, pumped), ticks |-> {}])
        /\ recorder' = [run EXCEPT !.alive = TRUE, !.from = now, !.video = Layout(run, pumped)]
        /\ state' = "recording" /\ now' = now
    BY <1>3 DEF Accept, StartSegment, detectorVars
  <2> HIDE DEF run
  <2>3. /\ segments' \in Seq(Parts) /\ segments' # <<>> /\ Tape(segments') = {}
        /\ Layout(run, pumped) \in {"yes", "no"}
        /\ \A k \in DOMAIN segments' : Agrees(segments'[k], Layout(run, pumped))
        /\ segments'[1].source = Source(run, pumped)
    <3>1. segments' = Append(<<>>, [source |-> Source(run, pumped), ticks |-> {}])
      BY <2>2
    <3>2. QED
      BY <2>0, <2>1, <3>1, PartAdded
  <2>4. /\ recorder'.on /\ ~ recorder'.paused /\ ~ recorder'.died /\ recorder'.alive
        /\ recorder'.accum = 0 /\ recorder'.from = now /\ recorder'.video = Layout(run, pumped)
        /\ recorder' \in Runs
    BY <1>0, <2>1, <2>2, <2>3 DEF Runs
  <2>5. RunOK' /\ LayoutsAgree'
    <3>1. Portal /\ Layout(run, pumped) = "yes" => Source(run, pumped) = "pump"
      BY <2>1 DEF Layout, Source, WantsPipewire
    <3>2. QED
      BY <2>2, <2>3, <2>4, <3>1 DEF RunOK, LayoutsAgree, Agrees
  <2>6. ClockOK'
    BY <1>0, <1>2, <2>2, <2>3, <2>4 DEF ClockOK
  <2>7. ElapsedMatchesTape'
    BY <1>2, <2>2, <2>3, <2>4, FS_EmptySet DEF ElapsedMatchesTape, Elapsed
  <2>8. QED
    BY <2>5, <2>6, <2>7
<1>4. ASSUME NEW pumped \in BOOLEAN, Resume(pumped)
      PROVE  Running'
  <2>0. PICK run \in Runs : run = [recorder EXCEPT !.paused = FALSE]
    BY <1>0 DEF Runs
  <2>1. /\ recorder.on /\ recorder.paused /\ now' = now /\ state' = state
        /\ segments' = Append(segments, [source |-> Source(run, pumped), ticks |-> {}])
        /\ recorder' = [run EXCEPT !.alive = TRUE, !.from = now, !.video = Layout(run, pumped)]
    BY <1>4, <2>0 DEF Resume, StartSegment, detectorVars
  <2>2. /\ run \in Runs /\ run.on /\ ~ run.paused /\ run.died = recorder.died
        /\ run.accum = recorder.accum /\ run.video = recorder.video
    BY <1>0, <2>0, <2>1 DEF Runs
  <2>3. /\ segments' \in Seq(Parts) /\ segments' # <<>> /\ Tape(segments') = Tape(segments)
        /\ Layout(run, pumped) \in {"yes", "no"} /\ Layout(run, pumped) = recorder.video
        /\ \A k \in DOMAIN segments' :
              \/ Agrees(segments'[k], Layout(run, pumped))
              \/ k \in DOMAIN segments /\ segments'[k] = segments[k]
        /\ segments'[1] = segments[1]
    <3>1. PICK earlier \in Seq(Parts) : earlier = segments
      BY <1>0
    <3>2. segments' = Append(earlier, [source |-> Source(run, pumped), ticks |-> {}])
      BY <2>1, <3>1
    <3>3. recorder.video # "unset" /\ segments # <<>>
      BY <2>1 DEF RunOK
    <3>4. earlier # <<>>
      BY <3>1, <3>3
    <3>5. segments'[1] = earlier[1]
      BY <3>2, <3>4, PartAdded
    <3>6. /\ segments' \in Seq(Parts) /\ segments' # <<>> /\ Tape(segments') = Tape(earlier)
          /\ Layout(run, pumped) \in {"yes", "no"}
          /\ run.video # "unset" => Layout(run, pumped) = run.video
          /\ \A k \in DOMAIN segments' :
                \/ Agrees(segments'[k], Layout(run, pumped))
                \/ k \in DOMAIN earlier /\ segments'[k] = earlier[k]
      BY <3>2, PartAdded
    <3>7. QED
      BY <2>2, <3>1, <3>3, <3>5, <3>6
  <2>4. /\ recorder'.on /\ ~ recorder'.paused /\ recorder'.died = recorder.died /\ recorder'.alive
        /\ recorder'.accum = recorder.accum /\ recorder'.from = now
        /\ recorder'.video = recorder.video /\ recorder' \in Runs
    BY <1>0, <2>1, <2>2, <2>3 DEF Runs
  <2>5. RunOK' /\ LayoutsAgree'
    BY <2>1, <2>3, <2>4 DEF RunOK, LayoutsAgree, Agrees
  <2>6. ClockOK'
    BY <1>0, <1>2, <2>1, <2>3, <2>4 DEF ClockOK
  <2>7. recorder.accum + (now - now) = recorder.accum
    BY <1>0, <1>2 DEF Runs
  <2>8. ElapsedMatchesTape'
    BY <1>2, <2>1, <2>3, <2>4, <2>7 DEF ElapsedMatchesTape, Elapsed
  <2>9. QED
    BY <2>5, <2>6, <2>8
<1>5. CASE Pause
  <2>1. /\ recorder' = [recorder EXCEPT !.accum = Elapsed, !.paused = TRUE, !.alive = FALSE]
        /\ recorder.on /\ ~ recorder.paused /\ UNCHANGED <<now, state, segments>>
    BY <1>5 DEF Pause, detectorVars
  <2> HIDE DEF Elapsed
  <2>2. /\ recorder' \in Runs /\ recorder'.on /\ recorder'.paused /\ ~ recorder'.alive
        /\ recorder'.died = recorder.died /\ recorder'.accum = Elapsed
        /\ recorder'.video = recorder.video
    BY <1>0, <1>1, <2>1 DEF Runs
  <2>3. RunOK' /\ LayoutsAgree'
    BY <2>1, <2>2 DEF RunOK, LayoutsAgree
  <2>4. ClockOK'
    BY <1>1, <1>2, <2>1, <2>2 DEF ClockOK
  <2>5. Elapsed' = Elapsed
    BY <2>2 DEF Elapsed
  <2>6. ElapsedMatchesTape'
    BY <1>2, <2>1, <2>2, <2>5 DEF ElapsedMatchesTape
  <2>7. QED
    BY <2>3, <2>4, <2>6
<1>6. CASE CaptureDies
  <2>1. /\ recorder' = [recorder EXCEPT !.alive = FALSE, !.died = TRUE]
        /\ recorder.alive /\ UNCHANGED <<now, state, segments>>
    BY <1>6 DEF CaptureDies, detectorVars
  <2>2. /\ recorder' \in Runs /\ ~ recorder'.alive /\ recorder'.died
        /\ recorder'.on = recorder.on /\ recorder'.paused = recorder.paused
        /\ recorder'.accum = recorder.accum /\ recorder'.from = recorder.from
        /\ recorder'.video = recorder.video
    BY <1>0, <2>1 DEF Runs
  <2>3. RunOK' /\ LayoutsAgree' /\ ElapsedMatchesTape'
    BY <2>1, <2>2 DEF RunOK, ClockOK, LayoutsAgree, ElapsedMatchesTape
  <2>4. ClockOK'
    BY <1>2, <2>1, <2>2 DEF ClockOK
  <2>5. QED
    BY <2>3, <2>4
<1>7. CASE ResumeRefused \/ StreamRevoked \/ Decline
  <2>1. /\ UNCHANGED <<now, recorder, segments>>
        /\ state' = state \/ (state = "prompting" /\ state' = "idle")
    BY <1>7 DEF ResumeRefused, ResumeFails, StreamRevoked, Decline, detectorVars
  <2>2. RunOK' /\ LayoutsAgree' /\ ClockOK'
    BY <1>2, <2>1 DEF RunOK, LayoutsAgree, ClockOK
  <2>3. ElapsedMatchesTape'
    BY <1>2, <2>1 DEF ElapsedMatchesTape, Elapsed
  <2>4. QED
    BY <2>2, <2>3
<1>8. QED
  BY <1>3, <1>4, <1>5, <1>6, <1>7

----------------------------------------------------------------------------
(* The detector, and the end of a run.                                             *)

(* A look of the detector counts its wait from the first look without a sighting.   *)
LEMMA PolledSteps ==
    ASSUME DetectorOK, now \in Moments, NEW sample \in Apps \cup {NoApp}, Polled(sample)
    PROVE  DetectorOK'
<1>0. /\ machine \in Machines /\ now' = now /\ now <= now /\ polled' = TRUE
      /\ machine' = Updated(sample)
      /\ missing' = IF ~ InMeeting \/ sample # NoApp THEN NoTime
                    ELSE IF missing = NoTime THEN now ELSE missing
      /\ machine.absent = IF InMeeting THEN missing ELSE NoTime
      /\ missing \in Moments \cup {NoTime} /\ now \in Moments
      /\ missing # NoTime => missing <= now
      /\ machine.since # NoTime => machine.since <= now
      /\ sample \in Apps \cup {NoApp}
  BY DEF DetectorOK, Polled, Moments
<1>1. /\ machine.app \in Apps \cup {NoApp} /\ machine.candidate \in Apps \cup {NoApp}
      /\ machine.since \in Moments \cup {NoTime} /\ machine.absent \in Moments \cup {NoTime}
  BY <1>0 DEF Machines
<1>2. missing' \in Moments \cup {NoTime} /\ (missing' # NoTime => missing' <= now)
  BY <1>0
<1>3. CASE InMeeting
  <2>1. machine' = Attending(sample)
    BY <1>0, <1>3 DEF Updated
  <2>2. CASE sample # NoApp
    <3>1. machine' = [machine EXCEPT !.absent = NoTime]
      BY <2>1, <2>2 DEF Attending
    <3>2. /\ machine' \in Machines /\ machine'.app = machine.app /\ machine'.absent = NoTime
          /\ machine'.since = machine.since
      BY <1>0, <3>1 DEF Machines
    <3>3. QED
      BY <1>0, <1>2, <2>2, <3>2 DEF DetectorOK, InMeeting
  <2>3. CASE sample = NoApp
    <3>1. AbsentSince \in Moments /\ AbsentSince = missing'
      BY <1>0, <1>1, <1>3, <2>3, CaptureAssumption DEF AbsentSince, Moments
    <3>2. \/ machine' = [machine EXCEPT !.app = NoApp, !.absent = NoTime]
          \/ machine' = [machine EXCEPT !.absent = AbsentSince]
      BY <2>1, <2>3 DEF Attending
    <3>3. /\ machine' \in Machines /\ machine'.since = machine.since
          /\ \/ machine'.app = NoApp /\ machine'.absent = NoTime
             \/ machine'.app = machine.app /\ machine'.absent = missing'
      BY <1>0, <3>1, <3>2 DEF Machines
    <3>4. QED
      BY <1>0, <1>2, <1>3, <3>3 DEF DetectorOK, InMeeting
  <2>4. QED
    BY <2>2, <2>3
<1>4. CASE ~ InMeeting
  <2>1. machine' = Candidate(sample) /\ missing' = NoTime /\ machine.absent = NoTime
        /\ machine.app = NoApp
    BY <1>0, <1>4 DEF Updated, InMeeting
  <2> DEFINE since == IF machine.candidate = sample THEN machine.since ELSE now
  <2>2. since \in Moments \cup {NoTime} /\ (since # NoTime => since <= now)
    BY <1>0, <1>1
  <2>3. \/ machine' = [machine EXCEPT !.candidate = NoApp, !.since = NoTime]
        \/ machine' = [app |-> sample, candidate |-> NoApp, since |-> NoTime, absent |-> NoTime]
        \/ machine' = [machine EXCEPT !.candidate = sample, !.since = since]
    BY <2>1, Zenon DEF Candidate
  <2> HIDE DEF since
  <2>4. /\ machine' \in Machines /\ machine'.absent = NoTime
        /\ machine'.since = NoTime \/ machine'.since = since
    <3>1. CASE machine' = [machine EXCEPT !.candidate = NoApp, !.since = NoTime]
      BY <1>0, <2>1, <3>1 DEF Machines
    <3>2. CASE machine' = [app |-> sample, candidate |-> NoApp, since |-> NoTime, absent |-> NoTime]
      BY <1>0, <3>2 DEF Machines
    <3>3. CASE machine' = [machine EXCEPT !.candidate = sample, !.since = since]
      BY <1>0, <2>1, <2>2, <3>3 DEF Machines
    <3>4. QED
      BY <2>3, <3>1, <3>2, <3>3
  <2>5. QED
    BY <1>0, <2>1, <2>2, <2>4 DEF DetectorOK
<1>5. QED
  BY <1>3, <1>4

(* The end of a run leaves an idle recorder.                                       *)
LEMMA FinishSteps ==
    ASSUME Running, NEW trim, NEW callEnd, Finish(trim, callEnd), now' = now, state' = "idle"
    PROVE  Running'
<1>0. /\ recorder' = NoRun /\ segments' = <<>> /\ now \in Moments /\ 0 \in Moments /\ 0 <= now
  BY CaptureAssumption DEF Finish, Running, ClockOK, Moments
<1>1. Tape(segments)' = {} /\ <<>> \in Seq(Parts) /\ DOMAIN <<>> = {}
  BY <1>0, EmptySeq DEF Tape
<1>2. RunOK'
  BY <1>0, <1>1 DEF RunOK, NoRun, Runs
<1>3. ClockOK' /\ LayoutsAgree' /\ ElapsedMatchesTape'
  BY <1>0, <1>1 DEF ClockOK, LayoutsAgree, ElapsedMatchesTape, NoRun
<1>4. QED
  BY <1>2, <1>3 DEF Running

(* What is written down of a finished run.                                         *)
LEMMA OutcomeTypes ==
    ASSUME CaptureInv, NEW trim, NEW callEnd \in Moments \cup {NoTime}, Finish(trim, callEnd)
    PROVE  outcome' \in Outcomes /\ stream' = "none"
<1>0. /\ segments \in Seq(Parts) /\ now \in Moments /\ recorder.died \in BOOLEAN
  BY DEF CaptureInv, RunOK, ClockOK, Runs
<1>1. Tape(segments) \in SUBSET Ticks
  <2>1. \A k \in DOMAIN segments : segments[k].ticks \in SUBSET Ticks
    <3>1. \A k \in DOMAIN segments : segments[k] \in Parts
      BY <1>0, LenProperties, ElementOfSeq
    <3>2. \A part \in Parts : part.ticks \in SUBSET Ticks
      BY DEF Parts
    <3>3. QED
      BY <3>1, <3>2
  <2>2. QED
    BY <2>1 DEF Tape
<1>2. Kept(trim) \in SUBSET Ticks
  BY <1>1 DEF Kept, FirstTicks
<1>3. callEnd \in Moments \cup {NoTime}
  OBVIOUS
<1>4. QED
  BY <1>0, <1>1, <1>2, <1>3 DEF Finish, Outcomes

(* The recorder's clock and the tape agree, so cutting off the time that the         *)
(* detector waited cuts off what was recorded since the last sighting.             *)
LEMMA TrimCutsTheWait ==
    ASSUME Running, recorder.on, ~ recorder.died, MinRecording # 0,
           NEW e \in Moments, e <= now, e..(now - 1) \subseteq Tape(segments)
    PROVE  LET head == Before(Tape(segments), e) IN
           \/ Kept(now - e) = head
           \/ Kept(now - e) = {} /\ Cardinality(head) < MinRecording
<1> DEFINE tape == Tape(segments)
           head == Before(tape, e)
<1>0. /\ now \in Nat /\ e \in 0..now /\ e \in Int /\ MinRecording \in Nat /\ MinRecording # 0
      /\ tape \in SUBSET (0..(now - 1)) /\ e..(now - 1) \subseteq tape
  BY CaptureAssumption DEF Running, ClockOK, Moments
<1>n. PICK n \in Nat : n = now
  BY <1>0
<1>1. PICK t \in SUBSET (0..(n - 1)) : n = now /\ t = tape
  BY <1>0, <1>n
<1>2. e \in 0..n /\ e..(n - 1) \subseteq t /\ e \in Int
  BY <1>0, <1>1
<1>3. Cardinality(tape) = Cardinality(head) + (now - e)
  BY <1>1, <1>2, GaplessTail
<1>4. FirstTicks(tape, Cardinality(head)) = head
  BY <1>1, <1>2, FirstTicksAreThoseBefore
<1>5. Cardinality(head) \in Nat
  <2>1. Before(t, e) \in SUBSET (0..(n - 1))
    BY <1>1 DEF Before
  <2>2. QED
    BY <1>1, <2>1, TapesAreFinite
<1>6. Elapsed = Cardinality(tape)
  BY DEF Running, ElapsedMatchesTape
<1>7. Elapsed - (now - e) = Cardinality(head)
  BY <1>0, <1>3, <1>5, <1>6
<1>8. CASE Cardinality(head) < MinRecording
  BY <1>7, <1>8 DEF Kept
<1>9. CASE ~ (Cardinality(head) < MinRecording)
  <2>1. Larger(ShortestClip, Cardinality(head)) = Cardinality(head)
    BY <1>0, <1>5, <1>9 DEF Larger, ShortestClip
  <2>2. now - e = 0 => tape = head
    <3>1. now - e = 0 => \A u \in tape : u < e
      BY <1>0
    <3>2. QED
      BY <3>1 DEF Before
  <2>3. Kept(now - e) = IF now - e = 0 THEN tape ELSE FirstTicks(tape, Cardinality(head))
    BY <1>7, <1>9, <2>1 DEF Kept
  <2>4. QED
    BY <1>4, <2>2, <2>3
<1>10. QED
  BY <1>8, <1>9

(* The detector ends the meeting: what is finished is trimmed by its wait.          *)
LEMMA StopSteps ==
    ASSUME CaptureInv, OutcomeOK, NEW sample \in Apps \cup {NoApp}, PollStops(sample)
    PROVE  CaptureInv' /\ OutcomeOK'
<1>0. /\ Running /\ DetectorOK /\ now \in Moments /\ Polled(sample) /\ now' = now
      /\ InMeeting /\ machine'.app = NoApp /\ state' = "idle" /\ NoTime \notin Moments
  BY CaptureAssumption DEF CaptureInv, Running, ClockOK, PollStops, Polled, Moments
<1>1. DetectorOK'
  BY <1>0, PolledSteps
<1>2. PICK e \in Moments : e = AbsentSince /\ e <= now /\ e = IF missing = NoTime THEN now ELSE missing
  <2>1. /\ machine.absent = missing /\ missing \in Moments \cup {NoTime}
        /\ missing # NoTime => missing <= now
        /\ now <= now
    BY <1>0, CaptureAssumption DEF DetectorOK, Moments
  <2>2. QED
    BY <1>0, <2>1 DEF AbsentSince
<1>3. CASE state = "recording"
  <2>1. Finish(now - e, e)
    BY <1>2, <1>3 DEF PollStops
  <2>2. Running'
    BY <1>0, <2>1, FinishSteps
  <2>3. outcome' \in Outcomes /\ stream' = "none"
    BY <2>1, OutcomeTypes
  <2>4. recorder.on
    BY <1>0, <1>3 DEF Running, RunOK
  <2>5. /\ outcome'.tape = Tape(segments) /\ outcome'.kept = Kept(now - e)
        /\ outcome'.callEnd = e /\ outcome'.at = now /\ outcome'.died = recorder.died
    BY <2>1 DEF Finish
  <2>6. MinRecording # 0 => TrimIsExact'
    <3>1. ASSUME MinRecording # 0, ~ recorder.died, e..(now - 1) \subseteq Tape(segments)
          PROVE  \/ Kept(now - e) = Before(Tape(segments), e)
                 \/ /\ Kept(now - e) = {}
                    /\ Cardinality(Before(Tape(segments), e)) < MinRecording
      BY <1>0, <1>2, <2>4, <3>1, TrimCutsTheWait
    <3>2. QED
      BY <2>5, <3>1 DEF TrimIsExact, Before
  <2>7. QED
    BY <1>1, <2>2, <2>3, <2>6 DEF CaptureInv, Running, OutcomeOK
<1>4. CASE state # "recording"
  <2>1. UNCHANGED captureVars
    BY <1>4 DEF PollStops
  <2>2. Running'
    <3>1. Tape(segments)' = Tape(segments) /\ Elapsed' = Elapsed
      BY <1>0, <2>1 DEF captureVars, Tape, Elapsed
    <3>2. QED
      BY <1>0, <1>4, <2>1, <3>1 DEF Running, RunOK, ClockOK, LayoutsAgree, ElapsedMatchesTape,
                                    captureVars
  <2>3. OutcomeOK'
    BY <2>1 DEF OutcomeOK, TrimIsExact, captureVars
  <2>4. QED
    BY <1>1, <2>2, <2>3 DEF CaptureInv, Running
<1>5. QED
  BY <1>3, <1>4

(* Every step of the clock, the detector and the recorder keeps the invariant.     *)
LEMMA CaptureSteps == CaptureInv /\ OutcomeOK /\ [Next]_vars => CaptureInv' /\ OutcomeOK'
<1> SUFFICES ASSUME CaptureInv, OutcomeOK, [Next]_vars PROVE CaptureInv' /\ OutcomeOK'
  OBVIOUS
<1>0. Running /\ DetectorOK /\ now \in Moments
  BY DEF CaptureInv, Running, ClockOK
<1>1. ASSUME UNCHANGED <<outcome, stream>> PROVE OutcomeOK'
  BY <1>1 DEF OutcomeOK, TrimIsExact
<1>2. ASSUME UNCHANGED <<machine, missing, now, polled>> PROVE DetectorOK'
  BY <1>0, <1>2 DEF DetectorOK, InMeeting
<1>3. CASE Tick
  <2>1. Running' /\ DetectorOK'
    BY <1>0, <1>3, TickSteps DEF Running
  <2>2. QED
    BY <1>1, <1>3, <2>1 DEF CaptureInv, Running, Tick
<1>4. ASSUME NEW sample \in Apps \cup {NoApp}, PollQuietly(sample) \/ PollStarts(sample)
      PROVE  CaptureInv' /\ OutcomeOK'
  <2>1. /\ UNCHANGED captureVars /\ now' = now /\ Polled(sample)
        /\ state' = state \/ (state = "idle" /\ state' = "prompting")
    BY <1>4 DEF PollQuietly, PollStarts, captureVars, Polled
  <2>2. Tape(segments)' = Tape(segments) /\ Elapsed' = Elapsed
    BY <2>1 DEF captureVars, Tape, Elapsed
  <2>3. Running'
    BY <1>0, <2>1, <2>2 DEF Running, RunOK, ClockOK, LayoutsAgree, ElapsedMatchesTape, captureVars
  <2>4. DetectorOK'
    BY <1>0, <2>1, PolledSteps
  <2>5. QED
    BY <1>1, <2>1, <2>3, <2>4 DEF CaptureInv, Running, captureVars
<1>5. ASSUME NEW sample \in Apps \cup {NoApp}, PollStops(sample)
      PROVE  CaptureInv' /\ OutcomeOK'
  BY <1>5, StopSteps
<1>6. CASE \/ \E wanted \in {"audio", "video"}, pumped \in BOOLEAN : Accept(wanted, pumped)
           \/ \E pumped \in BOOLEAN : Resume(pumped)
           \/ Pause \/ ResumeRefused \/ CaptureDies \/ StreamRevoked \/ Decline
  <2>1. Running'
    BY <1>0, <1>6, RunSteps
  <2>2. /\ UNCHANGED detectorVars /\ outcome' = outcome
        /\ stream' = stream \/ stream' \in {"open", "none", "revoked"}
    <3>1. ASSUME NEW wanted \in {"audio", "video"}, NEW pumped \in BOOLEAN, Accept(wanted, pumped)
          PROVE  /\ UNCHANGED detectorVars /\ outcome' = outcome /\ stream' \in {"open", "none"}
      BY <3>1 DEF Accept
    <3>2. ASSUME NEW pumped \in BOOLEAN, Resume(pumped)
          PROVE  /\ UNCHANGED detectorVars /\ outcome' = outcome /\ stream' = stream
      BY <3>2 DEF Resume
    <3>3. ASSUME Pause \/ ResumeRefused \/ CaptureDies \/ StreamRevoked \/ Decline
          PROVE  /\ UNCHANGED detectorVars /\ outcome' = outcome
                 /\ stream' = stream \/ stream' = "revoked"
      BY <3>3 DEF Pause, ResumeRefused, CaptureDies, StreamRevoked, Decline
    <3>4. QED
      BY <1>6, <3>1, <3>2, <3>3
  <2>3. OutcomeOK'
    BY <2>2 DEF OutcomeOK, TrimIsExact
  <2>4. QED
    BY <1>2, <2>1, <2>2, <2>3 DEF CaptureInv, Running, detectorVars
<1>7. CASE WidgetStop
  <2>1. Finish(0, NoTime) /\ state' = "idle" /\ UNCHANGED detectorVars
    BY <1>7 DEF WidgetStop
  <2>2. Running'
    BY <1>0, <2>1, FinishSteps DEF detectorVars
  <2>3. outcome' \in Outcomes /\ stream' = "none"
    BY <2>1, OutcomeTypes
  <2>4. TrimIsExact'
    BY <2>1 DEF Finish, TrimIsExact
  <2>5. QED
    BY <1>2, <2>1, <2>2, <2>3, <2>4 DEF CaptureInv, Running, OutcomeOK, detectorVars
<1>8. CASE UNCHANGED vars
  <2>1. UNCHANGED <<now, polled, machine, state, recorder, segments, stream, outcome, missing>>
    BY <1>8 DEF vars
  <2>2. Tape(segments)' = Tape(segments) /\ Elapsed' = Elapsed
    BY <2>1 DEF Tape, Elapsed
  <2>3. Running'
    BY <1>0, <2>1, <2>2 DEF Running, RunOK, ClockOK, LayoutsAgree, ElapsedMatchesTape
  <2>4. QED
    BY <1>1, <1>2, <2>1, <2>3 DEF CaptureInv, Running
<1>9. QED
  BY <1>3, <1>4, <1>5, <1>6, <1>7, <1>8 DEF Next

----------------------------------------------------------------------------
(* Every call, however often it is paused, keeps the recorder's clock, its parts and  *)
(* the detector's wait in step.                                                    *)
THEOREM CaptureInvariant == Spec => [](CaptureInv /\ OutcomeOK)
<1>1. Init => CaptureInv /\ OutcomeOK
  BY CaptureStarts
<1>2. CaptureInv /\ OutcomeOK /\ [Next]_vars => CaptureInv' /\ OutcomeOK'
  BY CaptureSteps
<1>3. QED
  BY <1>1, <1>2, PTL DEF Spec

(* The clock, the detector, the run and its parts keep their types and bounds.       *)
THEOREM CaptureTypeCorrect == Spec => []CaptureTypeOK
<1>1. CaptureInv /\ OutcomeOK => CaptureTypeOK
  BY DEF CaptureInv, OutcomeOK, RunOK, ClockOK, DetectorOK, CaptureTypeOK, Runs, Parts, Machines,
         Outcomes
<1>2. QED
  BY <1>1, CaptureInvariant, PTL

(* Recorder.elapsed counts the captured ticks through every pause, resume and         *)
(* refused resume, as long as ffmpeg lives.                                        *)
THEOREM TimerIsRight == Spec => []ElapsedMatchesTape
<1>1. CaptureInv => ElapsedMatchesTape
  BY DEF CaptureInv
<1>2. QED
  BY <1>1, CaptureInvariant, PTL

(* Recorder._start_segment gives every part of a run the layout of its first, which  *)
(* has video from the portal or none where the portal is needed.                   *)
THEOREM PartsConcatenate == Spec => []LayoutsAgree
<1>1. CaptureInv => LayoutsAgree
  BY DEF CaptureInv
<1>2. QED
  BY <1>1, CaptureInvariant, PTL

(* Controller._finish_recording cuts off exactly what was recorded while the detector *)
(* waited.  Without a minimum the shortest clip is kept of a call that has nothing.   *)
THEOREM TrimKeepsTheCall == Spec => [](MinRecording # 0 => TrimIsExact)
<1>1. OutcomeOK => (MinRecording # 0 => TrimIsExact)
  BY DEF OutcomeOK
<1>2. QED
  BY <1>1, CaptureInvariant, PTL

============================================================================
