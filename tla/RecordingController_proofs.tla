--------------------- MODULE RecordingController_proofs ---------------------
(* Theorems about the daemon's main loop, for any number of calls, tag requests and  *)
(* raising stops, with and without the portal.  ControllerInv is inductive; each of  *)
(* its parts is kept by every action, and the properties of a run follow from it.   *)
EXTENDS RecordingController, FiniteSetTheorems, WellFoundedInduction, TLAPS

Session == [reply : {"none", "create", "select", "start"}, path : BOOLEAN, node : BOOLEAN,
            armed : BOOLEAN, timer : BOOLEAN, stream : {"none", "session", "live"}]
Tags == [made : Nat, due : SUBSET Nat, handle : Nat, catalog : Nat, confirmed : Nat,
         outcome : {"none", "catalog", "empty", "unavailable"}, prompt : Nat]

ControllerTypeOK ==
    /\ auto \in BOOLEAN
    /\ phase \in {"running", "quitting", "waiting", "off"}
    /\ state \in {"idle", "prompting", "recording"}
    /\ call \in 0..MaxCalls /\ inCall \in BOOLEAN
    /\ prompt \in {None, call}
    /\ {pending, capturing, session, attached, fed} \subseteq Calls \cup {None}
    /\ portal \in [Calls -> Session]
    /\ handle \in [Calls -> {"none", "encoding", "saved", "failed", "reported"}]
    /\ labels \in [Calls -> Nat] /\ chosen \in [Calls -> Nat]
    /\ path = [c \in Calls |-> path[c]]
    /\ tags \in Tags
    /\ refusals \in 0..MaxRefusals

(* A prompt on display is that of the call that is going on, and only a call is       *)
(* recorded.                                                                      *)
ConsentInv ==
    /\ prompt # None => prompt = call /\ inCall /\ state = "prompting"
    /\ state # "idle" => call \in Calls
    /\ ConsentIsOwn

(* A session that has handed out its stream waits for no answer and no timer, and     *)
(* a recording is fed only once it no longer waits for the portal.                  *)
StreamInv ==
    /\ fed # None => state = "recording" /\ pending = None
    /\ \A s \in Calls : portal[s].node => portal[s].reply = "none" /\ ~portal[s].timer
    /\ StreamOutlivesCapture

(* A call of which nothing is recorded yet.                                       *)
Fresh(c) == handle[c] = "none" /\ chosen[c] = None

(* What is recorded, or waits for the portal, is the recording of this call, and     *)
(* what is selected was selected for it.                                          *)
OwnInv ==
    refusals = 0 =>
        /\ pending # None =>
              pending = call /\ Fresh(call) /\ capturing = None /\ state = "recording"
        /\ capturing # None =>
              /\ capturing = call /\ handle[call] = "none" /\ state = "recording"
              /\ tags.confirmed = chosen[call]
        /\ capturing = None => tags.confirmed = None /\ tags.prompt = None
        /\ state = "prompting" => Fresh(call)
        /\ \A c \in Calls : c > call => Fresh(c)
        /\ Running /\ state = "recording" => pending = call \/ capturing = call
        /\ ~Running => pending = None
        /\ TagsAreChosen

Holders == Users \cup Unreported

(* Whoever holds a reservation holds one of its own, and the path the controller      *)
(* takes for its active one is nobody else's.                                     *)
PathInv ==
    refusals = 0 =>
        /\ \A c \in Holders : path[c] \in Paths
        /\ \A c \in Users : path[c] \in held
        /\ Running => \A c \in Unreported : path[c] \in held
        /\ held \subseteq {path[c] : c \in Holders}
        /\ \A c, d \in Holders : path[c] = path[d] => c = d
        /\ rival \notin held
        /\ pending # None => active = path[pending]
        /\ capturing # None => active = path[capturing]
        /\ \A c \in Users : c \notin {pending, capturing} => path[c] # active

ControllerInv == ControllerTypeOK /\ ConsentInv /\ StreamInv /\ OwnInv /\ PathInv

(* The smallest element of a set of numbers exists.                                *)
LEMMA HasLeast ==
    ASSUME NEW S, S \subseteq Nat, S # {}
    PROVE  \E p \in S : \A q \in S : p <= q
<1> DEFINE R == OpToRel(<, Nat)
<1>1. IsWellFoundedOn(R, Nat)
    BY NatLessThanWellFounded, Zenon
<1>2. PICK p \in S : \A q \in S : ~(<<q, p>> \in R)
    BY <1>1, WFMin
<1>3. \A q \in S : ~(q < p)
    BY <1>2, Zenon DEF OpToRel
<1> QED
    BY <1>3

(* A set that is the image of fewer elements than there are paths leaves one free.    *)
LEMMA PathLeft ==
    ASSUME ControllerAssumption, NEW S, NEW C \in SUBSET Calls, NEW extra,
           S \subseteq {path[c] : c \in C} \cup {extra},
           (extra \notin Paths) \/ C # Calls
    PROVE  \E p \in Paths : p \notin S
<1> USE ControllerAssumption DEF ControllerAssumption
<1> SUFFICES ASSUME Paths \subseteq S PROVE FALSE
    OBVIOUS
<1> DEFINE used == {path[c] : c \in C}
<1>1. IsFiniteSet(Calls) /\ Cardinality(Calls) = MaxCalls
    BY FS_Interval DEF Calls
<1>2. IsFiniteSet(Paths) /\ Cardinality(Paths) = MaxCalls + 1
    BY FS_Interval DEF Paths
<1>3. IsFiniteSet(C) /\ Cardinality(C) <= MaxCalls /\ Cardinality(C) \in Nat
    BY <1>1, FS_Subset, FS_CardinalityType
<1>4. C # Calls => Cardinality(C) < MaxCalls
    <2>1. C # Calls => Cardinality(C) # Cardinality(Calls)
        BY <1>1, FS_Subset
    <2> QED
        BY <1>1, <1>3, <2>1
<1>5. IsFiniteSet(used) /\ Cardinality(used) <= Cardinality(C) /\ Cardinality(used) \in Nat
    <2> DEFINE f == [c \in C |-> path[c]]
    <2>1. f \in Surjection(C, used)
        BY DEF Surjection
    <2> QED
        BY <1>3, <2>1, FS_Surjection, FS_CardinalityType
<1>6. CASE extra \notin Paths
    <2>1. Paths \subseteq used
        BY <1>6
    <2>2. Cardinality(Paths) <= Cardinality(used)
        BY <1>5, <2>1, FS_Subset
    <2> QED
        BY <1>2, <1>3, <1>5, <2>2
<1>7. CASE C # Calls
    <2> HIDE DEF used
    <2>1. IsFiniteSet(used \cup {extra}) /\ Cardinality(used \cup {extra}) <= Cardinality(used) + 1
        <3>1. /\ IsFiniteSet(used \cup {extra})
              /\ Cardinality(used \cup {extra}) =
                    IF extra \in used THEN Cardinality(used) ELSE Cardinality(used) + 1
            BY <1>5, FS_AddElement
        <3> QED
            BY <1>5, <3>1
    <2>2. Cardinality(Paths) <= Cardinality(used \cup {extra})
        <3>1. Paths \subseteq used \cup {extra}
            BY DEF used
        <3> QED
            BY <2>1, <3>1, FS_Subset
    <2>3. Cardinality(used \cup {extra}) \in Nat
        BY <2>1, FS_CardinalityType
    <2> QED
        BY <1>2, <1>3, <1>4, <1>5, <1>7, <2>1, <2>2, <2>3
<1> QED
    BY <1>6, <1>7

(* The path reserve_recording_path takes exists and is free: a call of which nothing  *)
(* is recorded, or a rival without a path, leaves one.                             *)
LEMMA CandidateIsFree ==
    ASSUME ControllerAssumption, held \subseteq {path[c] : c \in Holders},
           rival \notin Paths \/ \E c \in Calls : c \notin Holders
    PROVE  Candidate \in Paths /\ Candidate \notin held /\ Candidate # rival
<1>1. Holders \in SUBSET Calls
    BY DEF Holders, Users, Unreported
<1>2. PICK p \in Paths : p \notin held \cup {rival}
    BY <1>1, PathLeft
<1> DEFINE S == {q \in Paths : Free(q)}
<1>3. S \subseteq Nat /\ S # {}
    BY <1>2, ControllerAssumption DEF Paths, Free, ControllerAssumption
<1>4. PICK least \in S : \A q \in S : least <= q
    BY <1>3, HasLeast
<1>5. least \in Paths /\ Free(least) /\ \A q \in Paths : Free(q) => least <= q
    BY <1>4
<1>6. Candidate \in Paths /\ Free(Candidate)
    BY <1>5 DEF Candidate
<1> QED
    BY <1>6 DEF Free

(* What the helpers on sessions return.                                           *)
LEMMA ClosedTypes ==
    ASSUME NEW p \in [Calls -> Session], NEW s \in Calls \cup {None}
    PROVE  /\ Closed(p, s) \in [Calls -> Session]
           /\ \A x \in Calls \ {s} : Closed(p, s)[x] = p[x]
           /\ s \in Calls => ~Closed(p, s)[s].node /\ ~Closed(p, s)[s].timer
           /\ \A x \in Calls : Closed(p, s)[x].reply = p[x].reply
           /\ \A x \in Calls : Closed(p, s)[x].node => p[x].node /\ x # s
           /\ \A x \in Calls : Closed(p, s)[x].timer => p[x].timer
<1>1. CASE s = None
    BY <1>1 DEF Closed, Calls, None
<1>2. CASE s # None
    <2> DEFINE x == [p[s] EXCEPT !.timer = FALSE, !.path = FALSE, !.node = FALSE,
                                 !.stream = IF p[s].path THEN "none" ELSE @]
    <2>0. s \in Calls /\ p[s] \in Session
        BY <1>2
    <2>1. /\ x \in Session /\ ~x.node /\ ~x.timer /\ x.reply = p[s].reply
        BY <2>0 DEF Session
    <2>2. Closed(p, s) = [p EXCEPT ![s] = x]
        BY <1>2, <2>0 DEF Closed
    <2> HIDE DEF x
    <2> QED
        BY <2>0, <2>1, <2>2
<1> QED
    BY <1>1, <1>2

(* What the helpers on tags return: the selection and the prompt change only where     *)
(* they say so.                                                                   *)
LEMMA OfferedTypes ==
    ASSUME NEW t \in Tags, NEW recording \in BOOLEAN
    PROVE  /\ Offered(t, recording) \in Tags
           /\ Offered(t, recording).confirmed = t.confirmed
           /\ ~recording => Offered(t, recording) = t
BY DEF Offered, Tags

LEMMA ReceivedTypes ==
    ASSUME NEW t \in Tags, NEW result \in {"catalog", "empty", "unavailable"},
           NEW request \in Nat, NEW recording \in BOOLEAN
    PROVE  /\ Received(t, result, request, recording) \in Tags
           /\ Received(t, result, request, recording).confirmed = t.confirmed
           /\ ~recording => Received(t, result, request, recording).prompt = t.prompt
<1> DEFINE kept == [t EXCEPT !.handle = None, !.outcome = result]
           full == [kept EXCEPT !.catalog = request]
<1>1. kept \in Tags /\ kept.confirmed = t.confirmed /\ kept.prompt = t.prompt
    BY DEF Tags, None
<1>2. full \in Tags /\ full.confirmed = t.confirmed /\ full.prompt = t.prompt
    BY <1>1 DEF Tags
<1>3. Received(t, result, request, recording) =
        IF result = "catalog" THEN Offered(full, recording) ELSE kept
    BY DEF Received
<1> HIDE DEF kept, full
<1> QED
    BY <1>1, <1>2, <1>3, OfferedTypes

LEMMA RequestedTypes ==
    ASSUME ControllerAssumption, NEW t \in Tags, NEW u \in Requested(t)
    PROVE  u \in Tags /\ u.confirmed = t.confirmed /\ u.prompt = t.prompt
<1>1. CASE u = Received(t, "unavailable", None, FALSE)
    BY <1>1, ReceivedTypes DEF None
<1>2. CASE u = [t EXCEPT !.handle = t.made + 1, !.made = @ + 1, !.due = @ \cup {t.made + 1}]
    <2>1. PICK n \in Nat : n = t.made + 1
        BY DEF Tags
    <2>2. PICK d \in SUBSET Nat : d = t.due \cup {n}
        BY DEF Tags
    <2>3. u = [t EXCEPT !.handle = n, !.made = n, !.due = d]
        BY <1>2, <2>1, <2>2
    <2> QED
        BY <2>3 DEF Tags
<1> QED
    BY <1>1, <1>2 DEF Requested

LEMMA EndedTypes ==
    ASSUME NEW t \in Tags
    PROVE  Ended(t) \in Tags /\ Ended(t).confirmed = None /\ Ended(t).prompt = None
BY DEF Ended, Tags, None

LEMMA SilencedTypes ==
    ASSUME NEW p \in [Calls -> Session]
    PROVE  /\ Silenced(p) \in [Calls -> Session]
           /\ \A x \in Calls : /\ Silenced(p)[x].reply = "none" /\ ~Silenced(p)[x].timer
                               /\ Silenced(p)[x].node = p[x].node
                               /\ Silenced(p)[x].path = p[x].path
<1>1. ASSUME NEW x \in Calls
      PROVE  /\ [p[x] EXCEPT !.reply = "none", !.timer = FALSE] \in Session
             /\ Silenced(p)[x] = [p[x] EXCEPT !.reply = "none", !.timer = FALSE]
             /\ Silenced(p)[x].reply = "none" /\ ~Silenced(p)[x].timer
             /\ Silenced(p)[x].node = p[x].node
             /\ Silenced(p)[x].path = p[x].path
    BY DEF Silenced, Session
<1> QED
    BY <1>1 DEF Silenced

(* The start of a capture, in either of its outcomes.                              *)
LEMMA StartTypes ==
    ASSUME ControllerTypeOK, NEW c \in Calls, NEW p, NEW s \in [Calls -> Session],
           NEW a \in Calls \cup {None}, NEW k \in Calls \cup {None}, NEW t \in Tags, NEW r,
           StartCapture(c, p, s, a, k, t, r)
    PROVE  /\ state' \in {"idle", "recording"}
           /\ {pending', capturing', session', attached', fed'} \subseteq Calls \cup {None}
           /\ portal' \in [Calls -> Session] /\ tags' \in Tags
<1>1. Closed(s, k) \in [Calls -> Session] /\ Ended(t) \in Tags /\ Offered(t, TRUE) \in Tags
    BY ClosedTypes, EndedTypes, OfferedTypes
<1> QED
    BY <1>1 DEF StartCapture, StartFails, ControllerTypeOK

(* What begins: a capture, or the wait for the portal.                             *)
Waits(c) ==
    /\ pending' = c /\ session' = c
    /\ portal' = [portal EXCEPT ![c] = NewSession]
    /\ held' = held \cup {Candidate} /\ active' = Candidate
    /\ state' = "recording"
    /\ UNCHANGED <<attached, capturing, fed>>

LEMMA BeginIs ==
    ASSUME ControllerAssumption, ControllerTypeOK, NEW c \in Calls, NEW wanted,
           NEW discover \in BOOLEAN, Begin(c, wanted, discover)
    PROVE  \E t \in Tags :
              /\ t.confirmed = tags.confirmed /\ t.prompt = tags.prompt
              /\ path' = [path EXCEPT ![c] = Candidate]
              /\ \/ Waits(c) /\ tags' = t
                 \/ StartCapture(c, Candidate, portal, attached, session, t,
                                 held \cup {Candidate})
<1>1. tags \in Tags
    BY DEF ControllerTypeOK
<1>2. PICK t \in IF discover THEN Requested(tags) ELSE {tags} :
        /\ path' = [path EXCEPT ![c] = Candidate]
        /\ \/ Waits(c) /\ tags' = t
           \/ StartCapture(c, Candidate, portal, attached, session, t, held \cup {Candidate})
    BY Zenon DEF Begin, Waits
<1>3. t \in Tags /\ t.confirmed = tags.confirmed /\ t.prompt = tags.prompt
    BY <1>1, <1>2, RequestedTypes
<1> QED
    BY <1>2, <1>3

(* An answer of the portal, or the end of its timer: session s is not one that hands    *)
(* out its stream, nothing else of the others changes, and what waits may start.     *)
Answers(s, q) ==
    /\ q \in [Calls -> Session] /\ ~portal[s].node
    /\ \A x \in Calls \ {s} : q[x] = portal[x]
    /\ \A x \in Calls : q[x].node => q[x].reply = "none" /\ ~q[x].timer

AnswerStep ==
    /\ Running /\ AnswerLeaves
    /\ \E s \in Calls : \E q \in [Calls -> Session] :
        /\ Answers(s, q)
        /\ \/ Unheeded(q)
           \/ /\ Awaited
              /\ \E a \in {s, attached}, k \in {session, None} :
                    StartCapture(pending, path[pending], q, a, k, tags, held)

LEMMA AnswersClosed ==
    ASSUME NEW s \in Calls, NEW q \in [Calls -> Session], Answers(s, q)
    PROVE  Answers(s, Closed(q, s))
BY ClosedTypes DEF Answers

LEMMA FailedAnswers ==
    ASSUME ControllerTypeOK, Running, AnswerLeaves, NEW s \in Calls, NEW p \in [Calls -> Session],
           Answers(s, p), Failed(s, p)
    PROVE  AnswerStep
<1> DEFINE shut == Closed(p, s)
           calm == [shut EXCEPT ![s].armed = FALSE]
<1>1. shut \in [Calls -> Session] /\ Answers(s, shut)
    BY AnswersClosed, ClosedTypes
<1>2. calm \in [Calls -> Session] /\ Answers(s, calm)
    <2>1. PICK y \in Session : y = shut[s]
        <3> HIDE DEF shut
        <3> QED
            BY <1>1
    <2> DEFINE x == [y EXCEPT !.armed = FALSE]
    <2>2. x \in Session /\ x.node = y.node /\ x.reply = y.reply /\ x.timer = y.timer
        BY DEF Session
    <2>3. calm = [shut EXCEPT ![s] = x]
        BY <2>1
    <2> HIDE DEF shut, x, calm
    <2> QED
        BY <1>1, <2>1, <2>2, <2>3 DEF Answers
<1>3. CASE p[s].armed
    <2>1. PortalError(calm)
        BY <1>3 DEF Failed
    <2> HIDE DEF calm
    <2> QED
        BY <1>2, <2>1 DEF PortalError, AnswerStep
<1>4. CASE ~p[s].armed
    <2>1. Unheeded(shut)
        BY <1>4 DEF Failed
    <2> HIDE DEF shut
    <2> QED
        BY <1>1, <2>1 DEF AnswerStep
<1> QED
    BY <1>3, <1>4

LEMMA PortalAnswers ==
    ASSUME ControllerTypeOK, StreamInv, NEW s \in Calls,
           PortalCreated(s) \/ PortalSelected(s) \/ PortalStarted(s) \/ PortalDenied(s)
              \/ PortalTimeout(s)
    PROVE  AnswerStep
<1>0. /\ portal \in [Calls -> Session] /\ portal[s] \in Session
      /\ \A x \in Calls : portal[x].node => portal[x].reply = "none" /\ ~portal[x].timer
    BY DEF ControllerTypeOK, StreamInv
<1>1. ASSUME NEW x \in Session, ~portal[s].node, x.node => x.reply = "none" /\ ~x.timer
      PROVE  /\ [portal EXCEPT ![s] = x] \in [Calls -> Session]
             /\ [portal EXCEPT ![s] = x][s] = x
             /\ Answers(s, [portal EXCEPT ![s] = x])
    BY <1>0, <1>1 DEF Answers
<1>2. CASE PortalCreated(s)
    <2> DEFINE x == [portal[s] EXCEPT !.reply = "select", !.path = TRUE, !.stream = "session"]
    <2>1. x \in Session /\ ~x.node /\ ~portal[s].node
        BY <1>0, <1>2 DEF PortalCreated, Session
    <2>2. Unheeded([portal EXCEPT ![s] = x]) /\ Running /\ AnswerLeaves
        BY <1>2 DEF PortalCreated
    <2> HIDE DEF x
    <2> QED
        BY <1>1, <2>1, <2>2 DEF AnswerStep
<1>3. CASE PortalSelected(s)
    <2> DEFINE x == [portal[s] EXCEPT !.reply = IF portal[s].path THEN "start" ELSE "none"]
    <2>1. x \in Session /\ ~x.node /\ ~portal[s].node
        BY <1>0, <1>3 DEF PortalSelected, Session
    <2>2. Unheeded([portal EXCEPT ![s] = x]) /\ Running /\ AnswerLeaves
        BY <1>3 DEF PortalSelected
    <2> HIDE DEF x
    <2> QED
        BY <1>1, <2>1, <2>2 DEF AnswerStep
<1>4. CASE PortalStarted(s)
    <2> DEFINE x == [portal[s] EXCEPT !.reply = "none", !.node = TRUE, !.timer = FALSE,
                        !.stream = IF @ = "session" THEN "live" ELSE @]
               q == [portal EXCEPT ![s] = x]
    <2>1. x \in Session /\ x.reply = "none" /\ ~x.timer /\ ~portal[s].node
        BY <1>0, <1>4 DEF PortalStarted, Session
    <2>2. Stream(s) = q /\ Running /\ AnswerLeaves
        BY <1>4 DEF PortalStarted, Stream
    <2>3. PortalReady(s, q) \/ Unheeded(q)
        BY <1>4, <2>2 DEF PortalStarted
    <2>4. q \in [Calls -> Session] /\ Answers(s, q)
        BY <1>1, <2>1
    <2> HIDE DEF x, q
    <2>5. Closed(q, s) \in [Calls -> Session] /\ Answers(s, Closed(q, s))
        BY <2>4, AnswersClosed, ClosedTypes
    <2> QED
        BY <2>2, <2>3, <2>4, <2>5 DEF AnswerStep, PortalReady
<1>5. CASE PortalDenied(s)
    <2> DEFINE x == [portal[s] EXCEPT !.reply = "none"]
               q == [portal EXCEPT ![s] = x]
    <2>1. x \in Session /\ ~x.node /\ ~portal[s].node
        BY <1>0, <1>5 DEF PortalDenied, Session
    <2>2. q \in [Calls -> Session] /\ Answers(s, q)
        BY <1>1, <2>1
    <2>3. Failed(s, q) /\ Running /\ AnswerLeaves
        BY <1>5 DEF PortalDenied
    <2> HIDE DEF q
    <2> QED
        BY <2>2, <2>3, FailedAnswers
<1>6. CASE PortalTimeout(s)
    <2> DEFINE x == [portal[s] EXCEPT !.timer = FALSE]
               q == [portal EXCEPT ![s] = x]
    <2>1. x \in Session /\ ~x.node /\ ~portal[s].node
        BY <1>0, <1>6 DEF PortalTimeout, Session
    <2>2. q \in [Calls -> Session] /\ Answers(s, q)
        BY <1>1, <2>1
    <2>3. Failed(s, q) /\ Running /\ AnswerLeaves
        BY <1>6 DEF PortalTimeout
    <2> HIDE DEF q
    <2> QED
        BY <2>2, <2>3, FailedAnswers
<1> QED
    BY <1>2, <1>3, <1>4, <1>5, <1>6

(* The end of a recording, in either of its forms.                                 *)
LEMMA FinishTypes ==
    ASSUME ControllerAssumption, ControllerTypeOK, Finish
    PROVE  /\ {pending', capturing', session', attached', fed'} \subseteq Calls \cup {None}
           /\ portal' \in [Calls -> Session] /\ tags' \in Tags
           /\ handle' \in [Calls -> {"none", "encoding", "saved", "failed", "reported"}]
           /\ labels' \in [Calls -> Nat] /\ chosen' \in [Calls -> Nat]
           /\ path' = [c \in Calls |-> path'[c]]
           /\ refusals' \in 0..MaxRefusals
<1> USE DEF ControllerTypeOK
<1>1. portal' \in [Calls -> Session] /\ tags' \in Tags
    BY ClosedTypes, EndedTypes DEF Finish, ClosePortal
<1>2. {pending', session', attached', fed'} \subseteq Calls \cup {None}
    BY DEF Finish, ClosePortal
<1>3. chosen' \in [Calls -> Nat] /\ path' = [c \in Calls |-> path'[c]]
    BY DEF Finish
<1>4. CASE capturing = None
    BY <1>1, <1>2, <1>3, <1>4 DEF Finish, finalVars
<1>5. CASE capturing # None
    <2>1. Stopped(capturing) /\ capturing \in Calls /\ tags.confirmed \in Nat
        BY <1>5 DEF Finish, Tags
    <2>2. /\ handle' \in [Calls -> {"none", "encoding", "saved", "failed", "reported"}]
          /\ labels' \in [Calls -> Nat] /\ capturing' \in Calls \cup {None}
        BY <2>1 DEF Stopped, finalVars
    <2>3. refusals' \in 0..MaxRefusals
        <3>1. refusals \in 0..MaxRefusals /\ MaxRefusals \in Nat
            BY ControllerAssumption DEF ControllerAssumption
        <3>2. refusals' = refusals \/ (refusals < MaxRefusals /\ refusals' = refusals + 1)
            <4> HIDE DEF ControllerTypeOK
            <4> QED
                BY <2>1, Zenon DEF Stopped
        <3> QED
            BY <3>1, <3>2
    <2> QED
        BY <1>1, <1>2, <1>3, <2>2, <2>3
<1> QED
    BY <1>4, <1>5

(* The beginning of a recording, in all its outcomes.                              *)
LEMMA BeginTypes ==
    ASSUME ControllerAssumption, ControllerTypeOK, NEW c \in Calls, NEW wanted,
           NEW discover \in BOOLEAN, Begin(c, wanted, discover)
    PROVE  /\ state' \in {"idle", "recording"}
           /\ {pending', capturing', session', attached', fed'} \subseteq Calls \cup {None}
           /\ portal' \in [Calls -> Session] /\ tags' \in Tags
           /\ path' = [d \in Calls |-> path'[d]]
<1>1. PICK t \in Tags :
        /\ path' = [path EXCEPT ![c] = Candidate]
        /\ \/ Waits(c) /\ tags' = t
           \/ StartCapture(c, Candidate, portal, attached, session, t, held \cup {Candidate})
    BY BeginIs
<1>2. path' = [d \in Calls |-> path'[d]]
    BY <1>1 DEF ControllerTypeOK
<1>3. CASE Waits(c) /\ tags' = t
    <2>1. NewSession \in Session
        BY DEF NewSession, Session
    <2> QED
        BY <1>2, <1>3, <2>1 DEF Waits, ControllerTypeOK
<1>4. CASE StartCapture(c, Candidate, portal, attached, session, t, held \cup {Candidate})
    <2> HIDE DEF ControllerTypeOK
    <2>1. portal \in [Calls -> Session] /\ {attached, session} \subseteq Calls \cup {None}
        BY DEF ControllerTypeOK
    <2> QED
        BY <1>2, <1>4, <2>1, StartTypes
<1> QED
    BY <1>1, <1>3, <1>4

LEMMA TypeInit == ASSUME ControllerAssumption, Init PROVE ControllerTypeOK
<1>1. tags \in Tags
    BY DEF Init, Tags, NoTags, None
<1>2. portal \in [Calls -> Session]
    BY DEF Init, Session
<1>3. /\ handle \in [Calls -> {"none", "encoding", "saved", "failed", "reported"}]
      /\ labels \in [Calls -> Nat] /\ chosen \in [Calls -> Nat]
      /\ path = [c \in Calls |-> path[c]]
    BY DEF Init, None
<1>4. call \in 0..MaxCalls /\ refusals \in 0..MaxRefusals
    BY DEF Init, ControllerAssumption
<1> QED
    BY <1>1, <1>2, <1>3, <1>4 DEF Init, ControllerTypeOK

LEMMA TypeQuiet ==
    ASSUME ControllerTypeOK, UNCHANGED vars
    PROVE  ControllerTypeOK'
BY DEF ControllerTypeOK, vars, callVars, pathVars, portalVars, finalVars, historyVars

(* A call is reported only when none goes on, so that no prompt is open.             *)
LEMMA StartsTypes ==
    ASSUME ControllerAssumption, ControllerTypeOK, ConsentInv, MeetingStarts
    PROVE  /\ call' = call + 1 /\ call' \in Calls /\ call' \in 0..MaxCalls
           /\ prompt = None /\ inCall' \in BOOLEAN
BY DEF ControllerAssumption, ControllerTypeOK, ConsentInv, MeetingStarts, Calls

(* Whatever the tags' part of the state does, it stays of its type.                  *)
LEMMA TagsTypes ==
    ASSUME ControllerAssumption, ControllerTypeOK, ConsentInv,
           TagsPressed \/ TagPromptEnds \/ \E q \in 1..tags.made : TagsDelivered(q)
    PROVE  tags' \in Tags /\ chosen' \in [Calls -> Nat] /\ TagLeaves
<1>0. tags \in Tags /\ chosen \in [Calls -> Nat]
    BY DEF ControllerTypeOK
<1>1. CASE TagsPressed
    BY <1>0, <1>1, OfferedTypes, RequestedTypes DEF TagsPressed
<1>2. CASE TagPromptEnds
    <2>1. TagLeaves /\ \/ \E picked \in {tags.prompt, None} :
                            /\ tags' = [tags EXCEPT !.confirmed = picked, !.prompt = None]
                            /\ chosen' = [chosen EXCEPT ![call] = picked]
                       \/ tags' = [tags EXCEPT !.prompt = None] /\ UNCHANGED chosen
        BY <1>2 DEF TagPromptEnds
    <2>2. tags.prompt \in Nat
        BY <1>0 DEF Tags
    <2>3. tags' \in Tags
        <3>1. \A n \in Nat : [tags EXCEPT !.confirmed = n, !.prompt = None] \in Tags
            BY <1>0 DEF Tags, None
        <3>2. [tags EXCEPT !.prompt = None] \in Tags
            BY <1>0 DEF Tags, None
        <3>3. \A picked \in {tags.prompt, None} : picked \in Nat
            BY <2>2 DEF None
        <3> QED
            BY <2>1, <3>1, <3>2, <3>3
    <2>4. chosen' \in [Calls -> Nat]
        BY <1>0, <2>1, <2>2 DEF None
    <2> QED
        BY <2>1, <2>3, <2>4
<1>3. ASSUME NEW q \in 1..tags.made, TagsDelivered(q)
      PROVE  tags' \in Tags /\ chosen' \in [Calls -> Nat] /\ TagLeaves
    <2> DEFINE taken == [tags EXCEPT !.due = @ \ {q}]
    <2>1. taken \in Tags /\ q \in Nat
        BY <1>0 DEF Tags
    <2>2. PICK result \in {"catalog", "empty", "unavailable"} :
            tags' = IF q = tags.handle /\ state = "recording"
                    THEN Received(taken, result, q, capturing # None) ELSE taken
        BY <1>3 DEF TagsDelivered
    <2> HIDE DEF taken
    <2>3. Received(taken, result, q, capturing # None) \in Tags
        BY <2>1, ReceivedTypes
    <2> QED
        BY <1>0, <1>3, <2>1, <2>2, <2>3 DEF TagsDelivered
<1> QED
    BY <1>1, <1>2, <1>3

(* Type correctness, action by action.                                            *)
LEMMA TypeNext ==
    ASSUME ControllerAssumption, ControllerTypeOK, ConsentInv, StreamInv, Next
    PROVE  ControllerTypeOK'
<1>1. CASE MeetingPrompts
    <2>1. MeetingStarts /\ call' \in 0..MaxCalls /\ inCall' \in BOOLEAN
        BY <1>1, StartsTypes DEF MeetingPrompts
    <2> QED
        BY <1>1, <2>1 DEF MeetingPrompts, MeetingStarts, ControllerTypeOK, pathVars, portalVars,
                          finalVars
<1>2. CASE MeetingRecords
    <2>1. MeetingStarts /\ call' \in 0..MaxCalls /\ call' \in Calls /\ inCall' \in BOOLEAN
          /\ prompt = None /\ Begin(call', "audio", FALSE) /\ prompt' = prompt
        BY <1>2, StartsTypes DEF MeetingRecords
    <2>2. PICK c \in Calls : c = call'
        BY <2>1
    <2>3. /\ state' \in {"idle", "recording"}
          /\ {pending', capturing', session', attached', fed'} \subseteq Calls \cup {None}
          /\ portal' \in [Calls -> Session] /\ tags' \in Tags
          /\ path' = [d \in Calls |-> path'[d]]
        BY <2>1, <2>2, BeginTypes
    <2> QED
        BY <2>1, <2>3 DEF MeetingStarts, ControllerTypeOK, finalVars
<1>3. CASE MeetingStops \/ WidgetStop \/ ShutdownCapture
    <2>1. CASE Finish
        <3>1. /\ {pending', capturing', session', attached', fed'} \subseteq Calls \cup {None}
              /\ portal' \in [Calls -> Session] /\ tags' \in Tags
              /\ handle' \in [Calls -> {"none", "encoding", "saved", "failed", "reported"}]
              /\ labels' \in [Calls -> Nat] /\ chosen' \in [Calls -> Nat]
              /\ path' = [c \in Calls |-> path'[c]]
              /\ refusals' \in 0..MaxRefusals
            BY <2>1, FinishTypes
        <3>2. /\ auto' \in BOOLEAN /\ inCall' \in BOOLEAN
              /\ phase' \in {"running", "quitting", "waiting", "off"}
              /\ state' \in {"idle", "prompting", "recording"}
              /\ call' \in 0..MaxCalls /\ prompt' \in {None, call'}
            BY <1>3 DEF MeetingStops, WidgetStop, ShutdownCapture, ControllerTypeOK, callVars
        <3> QED
            BY <3>1, <3>2 DEF ControllerTypeOK
    <2>2. CASE ~Finish
        BY <1>3, <2>2 DEF MeetingStops, WidgetStop, ShutdownCapture, ControllerTypeOK, pathVars,
                          portalVars, finalVars, historyVars
    <2> QED
        BY <2>1, <2>2
<1>4. CASE TagsPressed \/ TagPromptEnds \/ \E q \in 1..tags.made : TagsDelivered(q)
    <2>1. tags' \in Tags /\ chosen' \in [Calls -> Nat] /\ TagLeaves
        BY <1>4, TagsTypes
    <2> QED
        BY <2>1 DEF TagLeaves, ControllerTypeOK, callVars, pathVars, portalVars, finalVars
<1>5. CASE RivalReserves \/ RivalEnds
    BY <1>5 DEF RivalReserves, RivalEnds, ControllerTypeOK, callVars, pathVars, portalVars,
                finalVars, historyVars
<1>6. CASE ShutdownPending
    <2>1. Silenced(portal) \in [Calls -> Session] /\ tags \in Tags
        BY SilencedTypes DEF ControllerTypeOK
    <2>2. portal' \in [Calls -> Session]
        <3>1. session \in Calls \cup {None}
            BY DEF ControllerTypeOK
        <3>2. Closed(Silenced(portal), session) \in [Calls -> Session]
            BY <2>1, <3>1, ClosedTypes
        <3> QED
            BY <1>6, <2>1, <3>2 DEF ShutdownPending, ClosePortal
    <2>3. tags' \in Tags
        <3>1. tags' = [tags EXCEPT !.due = {}]
            BY <1>6 DEF ShutdownPending
        <3> QED
            BY <2>1, <3>1 DEF Tags
    <2>4. {pending', session', attached', fed', capturing'} \subseteq Calls \cup {None}
        BY <1>6 DEF ShutdownPending, ClosePortal, ControllerTypeOK, historyVars
    <2> QED
        BY <1>6, <2>2, <2>3, <2>4 DEF ShutdownPending, ControllerTypeOK, finalVars, historyVars
<1>7. CASE ShutdownEnds
    BY <1>7 DEF ShutdownEnds, ControllerTypeOK, pathVars, portalVars, finalVars, historyVars
<1>8. ASSUME NEW p \in 1..call, PromptIgnored(p) \/ ReserveFails(p)
      PROVE  ControllerTypeOK'
    BY <1>8 DEF PromptIgnored, ReserveFails, ControllerTypeOK, callVars, pathVars, portalVars,
                finalVars, historyVars
<1>9. ASSUME NEW p \in 1..call, NEW wanted, PromptAccepted(p, wanted)
      PROVE  ControllerTypeOK'
    <2>1. call \in Calls /\ Begin(call, wanted, TRUE)
        BY <1>9 DEF PromptAccepted, ConsentInv
    <2>2. PICK c \in Calls : c = call
        BY <2>1
    <2>3. /\ state' \in {"idle", "recording"}
          /\ {pending', capturing', session', attached', fed'} \subseteq Calls \cup {None}
          /\ portal' \in [Calls -> Session] /\ tags' \in Tags
          /\ path' = [d \in Calls |-> path'[d]]
        BY <2>1, <2>2, BeginTypes
    <2> QED
        BY <1>9, <2>3 DEF PromptAccepted, ControllerTypeOK, callVars, finalVars
<1>10. ASSUME NEW s \in Calls,
              PortalCreated(s) \/ PortalSelected(s) \/ PortalStarted(s) \/ PortalDenied(s)
                 \/ PortalTimeout(s)
       PROVE  ControllerTypeOK'
    <2>1. AnswerStep
        BY <1>10, PortalAnswers
    <2>2. PICK r \in Calls, q \in [Calls -> Session] :
            \/ Unheeded(q)
            \/ /\ Awaited
               /\ \E a \in {r, attached}, k \in {session, None} :
                     StartCapture(pending, path[pending], q, a, k, tags, held)
        BY <2>1 DEF AnswerStep
    <2>3. /\ state' \in {"idle", "prompting", "recording"}
          /\ {pending', capturing', session', attached', fed'} \subseteq Calls \cup {None}
          /\ portal' \in [Calls -> Session] /\ tags' \in Tags
        <3>1. CASE Unheeded(q)
            BY <3>1 DEF Unheeded, ControllerTypeOK
        <3>2. ASSUME Awaited, NEW a \in {r, attached}, NEW k \in {session, None},
                     StartCapture(pending, path[pending], q, a, k, tags, held)
              PROVE  /\ state' \in {"idle", "prompting", "recording"}
                     /\ {pending', capturing', session', attached', fed'} \subseteq Calls \cup {None}
                     /\ portal' \in [Calls -> Session] /\ tags' \in Tags
            <4>1. pending \in Calls /\ a \in Calls \cup {None} /\ k \in Calls \cup {None}
                  /\ tags \in Tags
                BY <3>2 DEF Awaited, ControllerTypeOK
            <4> QED
                BY <3>2, <4>1, StartTypes
        <3> QED
            BY <2>2, <3>1, <3>2
    <2>4. AnswerLeaves
        BY <2>1 DEF AnswerStep
    <2> QED
        BY <2>3, <2>4 DEF AnswerLeaves, ControllerTypeOK, callVars, finalVars
<1>11. ASSUME NEW c \in Calls, FinalizerEnds(c)
       PROVE  ControllerTypeOK'
    BY <1>11 DEF FinalizerEnds, ControllerTypeOK, callVars, pathVars, portalVars, historyVars
<1>12. ASSUME NEW c \in Calls, PollHandle(c) \/ PollRaises(c) \/ ShutdownWaits(c)
       PROVE  ControllerTypeOK'
    <2>1. Dispatch(c)
        BY <1>12 DEF PollHandle, PollRaises, ShutdownWaits
    <2>2. path' = [d \in Calls |-> path'[d]]
        BY <2>1 DEF Dispatch, ControllerTypeOK
    <2> QED
        BY <2>1, <2>2 DEF Dispatch, ControllerTypeOK, portalVars, None
<1> QED
    BY <1>1, <1>2, <1>3, <1>4, <1>5, <1>6, <1>7, <1>8, <1>9, <1>10, <1>11, <1>12 DEF Next

(* Consent, action by action.                                                     *)
LEMMA ConsentNext ==
    ASSUME ControllerAssumption, ControllerTypeOK, ConsentInv, StreamInv, Next
    PROVE  ConsentInv'
<1>1. CASE MeetingPrompts
    <2>1. MeetingStarts /\ call' \in Calls
        BY <1>1, StartsTypes DEF MeetingPrompts
    <2> QED
        BY <1>1, <2>1 DEF MeetingPrompts, MeetingStarts, ConsentInv, ConsentIsOwn
<1>2. CASE MeetingRecords
    <2>1. MeetingStarts /\ call' \in Calls /\ prompt' = None
        BY <1>2, StartsTypes DEF MeetingRecords
    <2>2. Begin(call', "audio", FALSE)
        BY <1>2 DEF MeetingRecords
    <2>3. PICK c \in Calls : c = call'
        BY <2>1
    <2>4. state' \in {"idle", "recording"}
        BY <2>2, <2>3, BeginTypes
    <2> QED
        BY <2>1, <2>4 DEF MeetingStarts, ConsentInv, ConsentIsOwn
<1>3. CASE MeetingStops \/ WidgetStop \/ ShutdownCapture
    <2>1. answered' = answered /\ call' = call /\ state' \in {state, "idle"}
        BY <1>3 DEF MeetingStops, WidgetStop, ShutdownCapture, Finish, callVars, historyVars
    <2>2. prompt' = None \/ (prompt' = prompt /\ (state = "recording" \/ state' = state)
                               /\ inCall' = inCall)
        BY <1>3 DEF MeetingStops, WidgetStop, ShutdownCapture, callVars
    <2> QED
        BY <2>1, <2>2 DEF ConsentInv, ConsentIsOwn
<1>4. CASE TagsPressed \/ TagPromptEnds \/ \E q \in 1..tags.made : TagsDelivered(q)
    <2>1. TagLeaves
        BY <1>4, TagsTypes
    <2> QED
        BY <2>1 DEF TagLeaves, ConsentInv, ConsentIsOwn, callVars
<1>5. CASE RivalReserves \/ RivalEnds \/ ShutdownPending \/ ShutdownEnds
    BY <1>5 DEF RivalReserves, RivalEnds, ShutdownPending, ShutdownEnds, ConsentInv,
                ConsentIsOwn, callVars, historyVars
<1>6. ASSUME NEW p \in 1..call, PromptIgnored(p) \/ ReserveFails(p)
      PROVE  ConsentInv'
    <2>1. p # None
        BY DEF None, ControllerTypeOK
    <2> QED
        BY <1>6, <2>1 DEF PromptIgnored, ReserveFails, Heard, ConsentInv, ConsentIsOwn, callVars,
                          historyVars
<1>7. ASSUME NEW p \in 1..call, NEW wanted, PromptAccepted(p, wanted)
      PROVE  ConsentInv'
    <2>0. p # None
        BY DEF None, ControllerTypeOK
    <2>1. call \in Calls /\ Begin(call, wanted, TRUE)
        BY <1>7 DEF PromptAccepted, ConsentInv
    <2>2. PICK c \in Calls : c = call
        BY <2>1
    <2>3. state' \in {"idle", "recording"}
        BY <2>1, <2>2, BeginTypes
    <2> QED
        BY <1>7, <2>0, <2>1, <2>3 DEF PromptAccepted, Heard, ConsentInv, ConsentIsOwn, callVars
<1>8. ASSUME NEW s \in Calls,
             PortalCreated(s) \/ PortalSelected(s) \/ PortalStarted(s) \/ PortalDenied(s)
                \/ PortalTimeout(s)
      PROVE  ConsentInv'
    <2>1. AnswerStep
        BY <1>8, PortalAnswers
    <2>2. state' = state \/ (state = "recording" /\ state' \in {"idle", "recording"})
        BY <2>1 DEF AnswerStep, Unheeded, StartCapture, StartFails, Awaited
    <2> QED
        BY <2>1, <2>2 DEF AnswerStep, AnswerLeaves, ConsentInv, ConsentIsOwn, callVars
<1>9. ASSUME NEW c \in Calls,
             FinalizerEnds(c) \/ PollHandle(c) \/ PollRaises(c) \/ ShutdownWaits(c)
      PROVE  ConsentInv'
    BY <1>9 DEF FinalizerEnds, PollHandle, PollRaises, ShutdownWaits, Dispatch, ConsentInv,
                ConsentIsOwn, callVars, historyVars
<1> QED
    BY <1>1, <1>2, <1>3, <1>4, <1>5, <1>6, <1>7, <1>8, <1>9 DEF Next

(* No stream is lost where a capture starts, or fails to.                          *)
LEMMA StartStreams ==
    ASSUME ControllerTypeOK, fed = None, NEW c \in Calls, NEW p, NEW s \in [Calls -> Session],
           NEW a \in Calls \cup {None}, NEW k \in Calls \cup {None}, NEW t \in Tags, NEW r,
           \A x \in Calls : s[x].node => s[x].reply = "none" /\ ~s[x].timer,
           StartCapture(c, p, s, a, k, t, r)
    PROVE  StreamInv'
<1>1. CASE StartFails(p, r) /\ portal' = Closed(s, k)
    <2>1. \A x \in Calls : portal'[x].node => portal'[x].reply = "none" /\ ~portal'[x].timer
        BY <1>1, ClosedTypes
    <2> QED
        BY <1>1, <2>1 DEF StartFails, StreamInv, StreamOutlivesCapture
<1>2. CASE /\ fed' \in {None, IF Feeds(s, a) THEN a ELSE None}
           /\ portal' = s /\ attached' = a /\ pending' = None /\ state' = "recording"
    <2>1. fed' # None => fed' = a /\ Feeds(s, a)
        BY <1>2
    <2>2. Feeds(s, a) /\ fed' = a => Feeds(portal', fed')
        BY <1>2 DEF Feeds
    <2> QED
        BY <1>2, <2>1, <2>2 DEF StreamInv, StreamOutlivesCapture
<1> QED
    BY <1>1, <1>2 DEF StartCapture

LEMMA BeginStreams ==
    ASSUME ControllerAssumption, ControllerTypeOK, StreamInv, state # "recording",
           NEW c \in Calls, NEW wanted, NEW discover \in BOOLEAN, Begin(c, wanted, discover)
    PROVE  StreamInv'
<1>0. /\ fed = None /\ portal \in [Calls -> Session] /\ {attached, session} \subseteq Calls \cup {None}
      /\ \A x \in Calls : portal[x].node => portal[x].reply = "none" /\ ~portal[x].timer
    BY DEF StreamInv, ControllerTypeOK
<1>1. PICK t \in Tags :
        \/ Waits(c)
        \/ StartCapture(c, Candidate, portal, attached, session, t, held \cup {Candidate})
    BY BeginIs
<1>2. CASE Waits(c)
    <2>1. NewSession \in Session /\ ~NewSession.node
        BY DEF NewSession, Session
    <2>2. portal' = [portal EXCEPT ![c] = NewSession] /\ fed' = None
        BY <1>0, <1>2 DEF Waits
    <2> HIDE DEF NewSession
    <2>3. \A x \in Calls : portal'[x].node => portal'[x].reply = "none" /\ ~portal'[x].timer
        BY <1>0, <2>1, <2>2
    <2> QED
        BY <2>2, <2>3 DEF StreamInv, StreamOutlivesCapture
<1>3. CASE StartCapture(c, Candidate, portal, attached, session, t, held \cup {Candidate})
    BY <1>0, <1>3, StartStreams
<1> QED
    BY <1>1, <1>2, <1>3

LEMMA FinishStreams ==
    ASSUME ControllerTypeOK, StreamInv, Finish
    PROVE  StreamInv'
<1>0. /\ portal \in [Calls -> Session] /\ session \in Calls \cup {None}
      /\ \A x \in Calls : portal[x].node => portal[x].reply = "none" /\ ~portal[x].timer
    BY DEF StreamInv, ControllerTypeOK
<1>1. portal' = Closed(portal, session) /\ fed' = None
    BY DEF Finish, ClosePortal
<1>2. \A x \in Calls : portal'[x].node => portal'[x].reply = "none" /\ ~portal'[x].timer
    BY <1>0, <1>1, ClosedTypes
<1> QED
    BY <1>1, <1>2 DEF StreamInv, StreamOutlivesCapture

(* Streams, action by action.                                                     *)
LEMMA StreamNext ==
    ASSUME ControllerAssumption, ControllerTypeOK, ConsentInv, StreamInv, Next
    PROVE  StreamInv'
<1>0. /\ portal \in [Calls -> Session] /\ {session, attached} \subseteq Calls \cup {None}
      /\ fed \in Calls \cup {None} /\ pending \in Calls \cup {None} /\ tags \in Tags
      /\ \A x \in Calls : portal[x].node => portal[x].reply = "none" /\ ~portal[x].timer
    BY DEF StreamInv, ControllerTypeOK
<1>1. ASSUME UNCHANGED <<state, pending, session, attached, portal, fed>>
      PROVE  StreamInv'
    BY <1>1 DEF StreamInv, StreamOutlivesCapture, Feeds
<1>2. CASE MeetingPrompts
    BY <1>2 DEF MeetingPrompts, MeetingStarts, StreamInv, StreamOutlivesCapture, Feeds,
                portalVars
<1>3. CASE MeetingRecords
    <2>1. MeetingStarts /\ call' \in Calls /\ state # "recording"
        BY <1>3, StartsTypes DEF MeetingRecords, MeetingStarts
    <2>2. Begin(call', "audio", FALSE)
        BY <1>3 DEF MeetingRecords
    <2>3. PICK c \in Calls : c = call'
        BY <2>1
    <2> QED
        BY <2>1, <2>2, <2>3, BeginStreams
<1>4. CASE MeetingStops \/ WidgetStop \/ ShutdownCapture
    <2>1. CASE Finish
        BY <2>1, FinishStreams
    <2>2. CASE ~Finish
        BY <1>4, <2>2 DEF MeetingStops, WidgetStop, ShutdownCapture, StreamInv,
                          StreamOutlivesCapture, Feeds, portalVars, historyVars
    <2> QED
        BY <2>1, <2>2
<1>5. CASE TagsPressed \/ TagPromptEnds \/ \E q \in 1..tags.made : TagsDelivered(q)
    <2>1. TagLeaves
        BY <1>5, TagsTypes
    <2> QED
        BY <1>1, <2>1 DEF TagLeaves, portalVars
<1>6. CASE RivalReserves \/ RivalEnds \/ ShutdownEnds
    BY <1>1, <1>6 DEF RivalReserves, RivalEnds, ShutdownEnds, portalVars, historyVars
<1>7. CASE ShutdownPending
    <2>1. /\ Silenced(portal) \in [Calls -> Session]
          /\ \A x \in Calls : /\ Silenced(portal)[x].reply = "none" /\ ~Silenced(portal)[x].timer
                              /\ Silenced(portal)[x].node = portal[x].node
                              /\ Silenced(portal)[x].path = portal[x].path
        BY <1>0, SilencedTypes
    <2>2. CASE pending = None
        <3>1. portal' = Silenced(portal) /\ UNCHANGED <<state, pending, session, attached, fed>>
            BY <1>7, <2>2 DEF ShutdownPending, historyVars
        <3>2. \A x \in Calls \cup {None} : Feeds(portal, x) => Feeds(portal', x)
            BY <2>1, <3>1 DEF Feeds
        <3> QED
            BY <1>0, <2>1, <3>1, <3>2 DEF StreamInv, StreamOutlivesCapture
    <2>3. CASE pending # None
        <3>1. portal' = Closed(Silenced(portal), session) /\ fed' = None
            BY <1>7, <2>3 DEF ShutdownPending, ClosePortal, StreamInv, historyVars
        <3>2. \A x \in Calls : portal'[x].reply = "none"
            BY <1>0, <2>1, <3>1, ClosedTypes
        <3>3. \A x \in Calls : portal'[x].timer => Silenced(portal)[x].timer
            BY <1>0, <2>1, <3>1, ClosedTypes
        <3> QED
            BY <2>1, <3>1, <3>2, <3>3 DEF StreamInv, StreamOutlivesCapture
    <2> QED
        BY <2>2, <2>3
<1>8. ASSUME NEW p \in 1..call, PromptIgnored(p) \/ ReserveFails(p)
      PROVE  StreamInv'
    BY <1>8 DEF PromptIgnored, ReserveFails, StreamInv, StreamOutlivesCapture, Feeds, portalVars,
                historyVars
<1>9. ASSUME NEW p \in 1..call, NEW wanted, PromptAccepted(p, wanted)
      PROVE  StreamInv'
    <2>1. call \in Calls /\ Begin(call, wanted, TRUE) /\ state # "recording"
        BY <1>9 DEF PromptAccepted, ConsentInv
    <2>2. PICK c \in Calls : c = call
        BY <2>1
    <2> QED
        BY <2>1, <2>2, BeginStreams
<1>10. ASSUME NEW r \in Calls,
              PortalCreated(r) \/ PortalSelected(r) \/ PortalStarted(r) \/ PortalDenied(r)
                 \/ PortalTimeout(r)
       PROVE  StreamInv'
    <2>1. AnswerStep
        BY <1>10, PortalAnswers
    <2>2. PICK s \in Calls, q \in [Calls -> Session] :
            /\ Answers(s, q)
            /\ \/ Unheeded(q)
               \/ /\ Awaited
                  /\ \E a \in {s, attached}, k \in {session, None} :
                        StartCapture(pending, path[pending], q, a, k, tags, held)
        BY <2>1 DEF AnswerStep
    <2>3. CASE Unheeded(q)
        <3>1. portal' = q /\ UNCHANGED <<state, pending, attached, fed>>
            BY <2>3 DEF Unheeded
        <3>2. fed # None => fed \in Calls /\ portal[fed].node
            BY <1>0 DEF StreamInv, StreamOutlivesCapture, Feeds
        <3>3. fed # None => fed # s
            BY <2>2, <3>2 DEF Answers
        <3>4. fed # None => q[fed] = portal[fed]
            BY <2>2, <3>2, <3>3 DEF Answers
        <3> QED
            BY <2>2, <3>1, <3>2, <3>4 DEF StreamInv, StreamOutlivesCapture, Feeds, Answers
    <2>4. ASSUME Awaited, NEW a \in {s, attached}, NEW k \in {session, None},
                 StartCapture(pending, path[pending], q, a, k, tags, held)
          PROVE  StreamInv'
        <3>1. pending \in Calls /\ fed = None
            BY <1>0, <2>4 DEF Awaited, StreamInv
        <3>2. a \in Calls \cup {None} /\ k \in Calls \cup {None}
            BY <1>0
        <3>3. \A x \in Calls : q[x].node => q[x].reply = "none" /\ ~q[x].timer
            BY <2>2 DEF Answers
        <3> QED
            BY <1>0, <2>4, <3>1, <3>2, <3>3, StartStreams
    <2> QED
        BY <2>2, <2>3, <2>4
<1>11. ASSUME NEW c \in Calls,
              FinalizerEnds(c) \/ PollHandle(c) \/ PollRaises(c) \/ ShutdownWaits(c)
       PROVE  StreamInv'
    BY <1>1, <1>11 DEF FinalizerEnds, PollHandle, PollRaises, ShutdownWaits, Dispatch, portalVars,
                       historyVars
<1> QED
    BY <1>2, <1>3, <1>4, <1>5, <1>6, <1>7, <1>8, <1>9, <1>10, <1>11 DEF Next

(* What OwnInv says of the recordings while nothing is captured or waited for.        *)
Unbusy == pending = None /\ capturing = None /\ tags.confirmed = None /\ tags.prompt = None

LEMMA NotRecording ==
    ASSUME refusals = 0, OwnInv, state # "recording"
    PROVE  Unbusy
BY DEF OwnInv, Unbusy

(* The capture of a call of which nothing is recorded starts, or fails to.            *)
LEMMA StartOwns ==
    ASSUME refusals = 0, OwnInv, ControllerTypeOK, NEW c \in Calls, NEW p,
           NEW s, NEW a, NEW k, NEW t \in Tags, NEW r,
           capturing = None, t.confirmed = None, t.prompt = None, Fresh(c),
           call' = c, c >= call, UNCHANGED <<phase, handle, labels, chosen, refusals>>,
           StartCapture(c, p, s, a, k, t, r)
    PROVE  OwnInv'
<1>1. /\ \A d \in Calls : d > c => Fresh(d)
      /\ TagsAreChosen
    BY DEF OwnInv, ControllerTypeOK, Calls
<1>2. \A d : Fresh(d) => Fresh(d)'
    BY DEF Fresh
<1>3. TagsAreChosen'
    BY <1>1 DEF TagsAreChosen, Unreported
<1>4. pending' = None /\ c # None
    <2>1. pending' = None
        BY DEF StartCapture
    <2> QED
        BY <2>1 DEF Calls, None
<1>5. CASE capturing' = c /\ tags' = Offered(t, TRUE) /\ state' = "recording"
    <2>1. tags'.confirmed = chosen'[c]
        BY <1>5, OfferedTypes DEF Fresh
    <2>2. handle'[c] = "none"
        BY DEF Fresh
    <2> QED
        BY <1>1, <1>2, <1>3, <1>4, <1>5, <2>1, <2>2 DEF OwnInv, None
<1>6. CASE StartFails(p, r) /\ tags' = Ended(t)
    <2>1. tags'.confirmed = None /\ tags'.prompt = None
        BY <1>6, EndedTypes
    <2>2. state' = "idle" /\ capturing' = None
        BY <1>6 DEF StartFails
    <2> QED
        BY <1>1, <1>2, <1>3, <1>4, <2>1, <2>2 DEF OwnInv
<1> QED
    BY <1>5, <1>6 DEF StartCapture

LEMMA BeginOwns ==
    ASSUME ControllerAssumption, refusals = 0, OwnInv, ControllerTypeOK, NEW c \in Calls,
           Running, state # "recording", Fresh(c),
           call' = c, c >= call, UNCHANGED <<phase, handle, labels, chosen, refusals>>,
           NEW wanted, NEW discover \in BOOLEAN, Begin(c, wanted, discover)
    PROVE  OwnInv'
<1>1. Unbusy
    BY NotRecording
<1>2. PICK t \in Tags :
        /\ t.confirmed = tags.confirmed /\ t.prompt = tags.prompt
        /\ \/ Waits(c) /\ tags' = t
           \/ StartCapture(c, Candidate, portal, attached, session, t, held \cup {Candidate})
    BY BeginIs
<1>3. t.confirmed = None /\ t.prompt = None /\ capturing = None
    BY <1>1, <1>2 DEF Unbusy
<1>4. CASE Waits(c) /\ tags' = t
    <2>1. /\ \A d \in Calls : d > c => Fresh(d)
          /\ TagsAreChosen
        BY DEF OwnInv, ControllerTypeOK, Calls
    <2>2. \A d : Fresh(d) => Fresh(d)'
        BY DEF Fresh
    <2>3. TagsAreChosen'
        BY <2>1 DEF TagsAreChosen, Unreported
    <2>4. pending' = c /\ capturing' = None /\ state' = "recording" /\ Running'
        BY <1>3, <1>4 DEF Waits, Running
    <2> QED
        BY <1>3, <1>4, <2>1, <2>2, <2>3, <2>4 DEF OwnInv
<1>5. CASE StartCapture(c, Candidate, portal, attached, session, t, held \cup {Candidate})
    BY <1>3, <1>5, StartOwns
<1> QED
    BY <1>2, <1>4, <1>5

(* The end of a recording labels it with what was selected for it.                   *)
LEMMA FinishOwns ==
    ASSUME refusals' = 0, OwnInv, ControllerTypeOK, Finish, call' = call,
           (state' = state /\ ~Running') \/ state' = "idle"
    PROVE  OwnInv'
<1>0. refusals = 0
    BY DEF Finish, Stopped, ControllerTypeOK
<1>1. /\ pending' = None /\ chosen' = chosen
      /\ tags'.confirmed = None /\ tags'.prompt = None
    BY EndedTypes DEF Finish, ClosePortal, ControllerTypeOK
<1>2. CASE capturing = None
    <2>1. capturing' = None /\ handle' = handle /\ labels' = labels
        BY <1>2 DEF Finish, finalVars
    <2>2. \A d : Fresh(d) => Fresh(d)'
        BY <1>1, <2>1 DEF Fresh
    <2>3. TagsAreChosen'
        BY <1>0, <1>1, <2>1 DEF OwnInv, TagsAreChosen, Unreported
    <2> QED
        BY <1>0, <1>1, <2>1, <2>2, <2>3 DEF OwnInv
<1>3. CASE capturing # None
    <2>1. capturing \in Calls /\ capturing = call /\ state = "recording" /\ tags.confirmed = chosen[call]
        BY <1>0, <1>3 DEF OwnInv, ControllerTypeOK
    <2>2. Stopped(capturing)
        BY <1>3 DEF Finish
    <2>3. PICK ending \in {"encoding", "failed"} :
            /\ capturing' = None
            /\ handle' = [handle EXCEPT ![call] = ending]
            /\ labels' = [labels EXCEPT ![call] = tags.confirmed]
        BY <1>0, <2>1, <2>2 DEF Stopped
    <2>4. \A d \in Calls : d # call /\ Fresh(d) => Fresh(d)'
        BY <1>1, <2>3 DEF Fresh, ControllerTypeOK
    <2>5. TagsAreChosen'
        BY <1>0, <1>1, <2>1, <2>3 DEF OwnInv, TagsAreChosen, Unreported, ControllerTypeOK
    <2>6. state' # "prompting" /\ (Running' => state' # "recording")
        BY <2>1
    <2>7. \A d \in Calls : d > call' => d # call /\ Fresh(d)
        BY <1>0 DEF OwnInv, ControllerTypeOK, Calls
    <2> QED
        BY <1>0, <1>1, <2>3, <2>4, <2>5, <2>6, <2>7 DEF OwnInv
<1> QED
    BY <1>2, <1>3

(* Whose recording it is, action by action.                                        *)
LEMMA OwnNext ==
    ASSUME ControllerAssumption, ControllerTypeOK, ConsentInv, StreamInv, OwnInv, Next
    PROVE  OwnInv'
<1> SUFFICES ASSUME refusals' = 0 PROVE OwnInv'
    BY DEF OwnInv
<1>1. CASE MeetingPrompts
    <2>1. refusals = 0 /\ MeetingStarts /\ call' = call + 1 /\ call' \in Calls
        BY <1>1, StartsTypes DEF MeetingPrompts, MeetingStarts
    <2>2. Unbusy
        BY <2>1, NotRecording DEF MeetingStarts
    <2>3. /\ UNCHANGED <<phase, refusals, pending, capturing, handle, labels, chosen, tags>>
          /\ state' \in {"idle", "prompting"}
        BY <1>1 DEF MeetingPrompts, MeetingStarts, finalVars
    <2>4. \A d : Fresh(d) => Fresh(d)'
        BY <2>3 DEF Fresh
    <2>5. \A d \in Calls : d >= call' => Fresh(d)
        BY <2>1 DEF OwnInv, ControllerTypeOK, Calls
    <2>6. TagsAreChosen'
        BY <2>1, <2>3 DEF OwnInv, TagsAreChosen, Unreported
    <2>7. Fresh(call')
        BY <2>1, <2>5 DEF Calls
    <2>8. \A d \in Calls : d > call' => Fresh(d)
        BY <2>1, <2>5 DEF Calls
    <2>9. (Fresh(call))'
        BY <2>3, <2>7 DEF Fresh
    <2> QED
        BY <2>2, <2>3, <2>4, <2>6, <2>8, <2>9 DEF OwnInv, Unbusy
<1>2. CASE MeetingRecords
    <2>1. MeetingStarts /\ call' = call + 1 /\ call' \in Calls
        BY <1>2, StartsTypes DEF MeetingRecords
    <2>2. Begin(call', "audio", FALSE)
        BY <1>2 DEF MeetingRecords
    <2>3. PICK c \in Calls : c = call'
        BY <2>1
    <2>4. /\ refusals = 0 /\ Running /\ state # "recording"
          /\ UNCHANGED <<phase, handle, labels, chosen, refusals>>
        BY <2>1 DEF MeetingStarts, finalVars
    <2>5. c >= call /\ c > call
        BY <2>1, <2>3 DEF ControllerTypeOK
    <2>6. Fresh(c)
        BY <2>4, <2>5 DEF OwnInv
    <2> QED
        BY <2>2, <2>3, <2>4, <2>5, <2>6, BeginOwns
<1>3. CASE MeetingStops \/ WidgetStop \/ ShutdownCapture
    <2>1. CASE Finish
        <3>1. call' = call /\ ((state' = state /\ ~Running') \/ state' = "idle")
            BY <1>3 DEF MeetingStops, WidgetStop, ShutdownCapture, Running, callVars
        <3> QED
            BY <2>1, <3>1, FinishOwns
    <2>2. CASE ~Finish
        <3>1. /\ UNCHANGED <<refusals, call, pending, capturing, handle, labels, chosen, tags>>
              /\ (state' = state /\ ~Running /\ ~Running') \/ (state # "recording" /\ state' = "idle" /\ phase' = phase)
            BY <1>3, <2>2 DEF MeetingStops, WidgetStop, ShutdownCapture, Running, finalVars,
                              historyVars
        <3>2. \A d : Fresh(d) => Fresh(d)'
            BY <3>1 DEF Fresh
        <3>3. TagsAreChosen'
            BY <3>1 DEF OwnInv, TagsAreChosen, Unreported
        <3> QED
            BY <3>1, <3>2, <3>3 DEF OwnInv, Fresh, Running
    <2> QED
        BY <2>1, <2>2
<1>4. CASE RivalReserves \/ RivalEnds \/ ShutdownEnds
    <2>1. /\ UNCHANGED <<refusals, call, pending, capturing, handle, labels, chosen, tags, state>>
          /\ Running' => Running
          /\ ~Running' => ~Running \/ pending = None
        BY <1>4 DEF RivalReserves, RivalEnds, ShutdownEnds, ShutdownDone, Running, callVars, finalVars,
                    historyVars
    <2> QED
        BY <2>1 DEF OwnInv, TagsAreChosen, Unreported, Fresh
<1>5. CASE ShutdownPending
    <2>1. /\ UNCHANGED <<refusals, call, capturing, handle, labels, chosen, state>>
          /\ pending' = None /\ ~Running'
        BY <1>5 DEF ShutdownPending, ClosePortal, Running, finalVars, historyVars
    <2>2. tags'.confirmed = tags.confirmed /\ tags'.prompt = tags.prompt
        <3>1. tags' = [tags EXCEPT !.due = {}]
            BY <1>5 DEF ShutdownPending
        <3> QED
            BY <3>1 DEF ControllerTypeOK, Tags
    <2> QED
        BY <2>1, <2>2 DEF OwnInv, TagsAreChosen, Unreported, Fresh
<1>6. ASSUME NEW p \in 1..call, PromptIgnored(p) \/ ReserveFails(p)
      PROVE  OwnInv'
    <2>1. /\ UNCHANGED <<refusals, call, pending, capturing, handle, labels, chosen, tags, phase>>
          /\ state' = state \/ (state = "prompting" /\ state' = "idle")
        BY <1>6 DEF PromptIgnored, ReserveFails, callVars, finalVars, historyVars
    <2> QED
        BY <2>1 DEF OwnInv, TagsAreChosen, Unreported, Fresh, Running
<1>7. ASSUME NEW p \in 1..call, NEW wanted, PromptAccepted(p, wanted)
      PROVE  OwnInv'
    <2>1. call \in Calls /\ Begin(call, wanted, TRUE) /\ state = "prompting" /\ Running
        BY <1>7 DEF PromptAccepted, ConsentInv
    <2>2. PICK c \in Calls : c = call
        BY <2>1
    <2>3. refusals = 0 /\ call' = call /\ UNCHANGED <<phase, handle, labels, chosen, refusals>>
        BY <1>7 DEF PromptAccepted, callVars, finalVars
    <2>4. Fresh(c)
        BY <2>1, <2>2, <2>3 DEF OwnInv
    <2>5. c >= call
        BY <2>2 DEF Calls
    <2> QED
        BY <2>1, <2>2, <2>3, <2>4, <2>5, BeginOwns
<1>8. ASSUME NEW x \in Calls,
             PortalCreated(x) \/ PortalSelected(x) \/ PortalStarted(x) \/ PortalDenied(x)
                \/ PortalTimeout(x)
      PROVE  OwnInv'
    <2>1. AnswerStep
        BY <1>8, PortalAnswers
    <2>2. refusals = 0 /\ call' = call /\ UNCHANGED <<phase, handle, labels, chosen, refusals>>
        BY <2>1 DEF AnswerStep, AnswerLeaves, callVars, finalVars
    <2>3. PICK s \in Calls, q \in [Calls -> Session] :
            \/ Unheeded(q)
            \/ /\ Awaited
               /\ \E a \in {s, attached}, k \in {session, None} :
                     StartCapture(pending, path[pending], q, a, k, tags, held)
        BY <2>1 DEF AnswerStep
    <2>4. CASE Unheeded(q)
        BY <2>2, <2>4 DEF Unheeded, OwnInv, TagsAreChosen, Unreported, Fresh, Running
    <2>5. ASSUME Awaited, NEW a \in {s, attached}, NEW k \in {session, None},
                 StartCapture(pending, path[pending], q, a, k, tags, held)
          PROVE  OwnInv'
        <3>1. /\ pending \in Calls /\ pending = call /\ Fresh(call) /\ capturing = None
              /\ tags.confirmed = None /\ tags.prompt = None /\ tags \in Tags
            BY <2>2, <2>5 DEF Awaited, OwnInv, ControllerTypeOK
        <3>2. PICK c \in Calls : c = pending
            BY <3>1
        <3>3. PICK p : p = path[pending]
            OBVIOUS
        <3>4. StartCapture(c, p, q, a, k, tags, held)
            BY <2>5, <3>2, <3>3
        <3>5. c >= call /\ call' = c /\ Fresh(c)
            BY <2>2, <3>1, <3>2 DEF Calls
        <3> QED
            BY <2>2, <3>1, <3>4, <3>5, StartOwns
    <2> QED
        BY <2>3, <2>4, <2>5
<1>9. ASSUME NEW c \in Calls, FinalizerEnds(c)
      PROVE  OwnInv'
    <2>1. /\ UNCHANGED <<refusals, call, pending, capturing, labels, chosen, tags, phase, state>>
          /\ handle[c] = "encoding"
          /\ \E ending \in {"saved", "failed"} : handle' = [handle EXCEPT ![c] = ending]
        BY <1>9 DEF FinalizerEnds, callVars, historyVars
    <2>2. Unreported' = Unreported
        BY <2>1 DEF Unreported, ControllerTypeOK
    <2>3. \A d : Fresh(d) => Fresh(d)'
        <3>1. \A d : d # c => handle'[d] = handle[d]
            BY <2>1 DEF ControllerTypeOK
        <3> QED
            BY <2>1, <3>1 DEF Fresh
    <2>4. \A d : handle[d] = "none" => handle'[d] = "none"
        BY <2>1 DEF ControllerTypeOK
    <2>5. TagsAreChosen'
        BY <2>1, <2>2 DEF TagsAreChosen, OwnInv
    <2> QED
        BY <2>1, <2>3, <2>4, <2>5 DEF OwnInv, Running
<1>10. ASSUME NEW c \in Calls, PollHandle(c) \/ PollRaises(c) \/ ShutdownWaits(c)
       PROVE  OwnInv'
    <2>1. Dispatch(c)
        BY <1>10 DEF PollHandle, PollRaises, ShutdownWaits
    <2>2. /\ UNCHANGED <<refusals, call, pending, capturing, tags, phase, state>>
          /\ handle' = [handle EXCEPT ![c] = "reported"]
          /\ labels' = [labels EXCEPT ![c] = None]
          /\ chosen' = [chosen EXCEPT ![c] = None]
          /\ handle[c] # "none"
        BY <2>1 DEF Dispatch, Unreported
    <2>3. \A d : d # c => handle'[d] = handle[d] /\ labels'[d] = labels[d] /\ chosen'[d] = chosen[d]
        BY <2>2 DEF ControllerTypeOK
    <2>4. \A d : handle[d] = "none" => d # c /\ handle'[d] = "none"
        BY <2>2, <2>3
    <2>5. \A d : Fresh(d) => Fresh(d)'
        BY <2>3, <2>4 DEF Fresh
    <2>6. TagsAreChosen'
        <3>1. handle'[c] = "reported"
            BY <2>2 DEF ControllerTypeOK
        <3>2. \A d \in Calls : d \in Unreported' => d # c /\ d \in Unreported
            BY <2>3, <3>1 DEF Unreported
        <3> QED
            BY <2>2, <2>3, <3>2 DEF TagsAreChosen, OwnInv, Unreported
    <2>7. capturing # None /\ refusals = 0 => chosen'[call] = chosen[call]
        BY <2>3, <2>4 DEF OwnInv
    <2> QED
        BY <2>2, <2>4, <2>5, <2>6, <2>7 DEF OwnInv, Running
<1>11. CASE TagPromptEnds
    <2>1. /\ UNCHANGED <<refusals, call, pending, capturing, labels, handle, phase, state>>
          /\ tags.prompt # None
        BY <1>11 DEF TagPromptEnds, TagLeaves, callVars, finalVars
    <2>2. /\ refusals = 0 /\ capturing # None /\ capturing = call /\ handle[call] = "none"
          /\ call \in Calls /\ state = "recording" /\ pending = None
        BY <2>1 DEF OwnInv, ControllerTypeOK
    <2>3. \/ \E picked \in {tags.prompt, None} :
                /\ tags' = [tags EXCEPT !.confirmed = picked, !.prompt = None]
                /\ chosen' = [chosen EXCEPT ![call] = picked]
          \/ tags' = [tags EXCEPT !.prompt = None] /\ UNCHANGED chosen
        BY <1>11 DEF TagPromptEnds
    <2>4. tags'.confirmed = chosen'[call]
        <3>1. tags.confirmed = chosen[call] /\ tags \in Tags /\ chosen \in [Calls -> Nat]
            BY <2>1, <2>2 DEF OwnInv, ControllerTypeOK
        <3>2. CASE tags' = [tags EXCEPT !.prompt = None] /\ UNCHANGED chosen
            BY <3>1, <3>2 DEF Tags
        <3>3. ASSUME NEW picked, tags' = [tags EXCEPT !.confirmed = picked, !.prompt = None],
                     chosen' = [chosen EXCEPT ![call] = picked]
              PROVE  tags'.confirmed = chosen'[call]
            BY <2>2, <3>1, <3>3 DEF Tags
        <3> QED
            BY <2>3, <3>2, <3>3
    <2>5. \A d \in Calls : d # call => chosen'[d] = chosen[d]
        <3>1. chosen \in [Calls -> Nat]
            BY DEF ControllerTypeOK
        <3> QED
            BY <2>2, <2>3, <3>1
    <2>6. \A d \in Calls : d # call /\ Fresh(d) => Fresh(d)'
        BY <2>1, <2>5 DEF Fresh
    <2>7. TagsAreChosen'
        BY <2>1, <2>2, <2>5 DEF TagsAreChosen, OwnInv, Unreported
    <2>8. \A d \in Calls : d > call => d # call /\ Fresh(d)
        BY <2>2 DEF OwnInv, Calls
    <2> QED
        BY <2>1, <2>2, <2>4, <2>6, <2>7, <2>8 DEF OwnInv, Running
<1>12. CASE TagsPressed \/ \E q \in 1..tags.made : TagsDelivered(q)
    <2>1. UNCHANGED <<refusals, call, pending, capturing, labels, handle, phase, state, chosen>>
        BY <1>12 DEF TagsPressed, TagsDelivered, TagLeaves, callVars, finalVars
    <2>2. tags'.confirmed = tags.confirmed /\ (capturing = None => tags'.prompt = tags.prompt)
        <3>0. tags \in Tags
            BY DEF ControllerTypeOK
        <3>1. CASE TagsPressed
            <4>1. tags' = Offered(tags, capturing # None) \/ tags' \in Requested(tags)
                BY <3>1 DEF TagsPressed
            <4> QED
                BY <3>0, <4>1, OfferedTypes, RequestedTypes
        <3>2. ASSUME NEW q \in 1..tags.made, TagsDelivered(q)
              PROVE  tags'.confirmed = tags.confirmed /\ (capturing = None => tags'.prompt = tags.prompt)
            <4> DEFINE taken == [tags EXCEPT !.due = @ \ {q}]
            <4>0. PICK d \in SUBSET Nat : d = tags.due \ {q}
                BY <3>0 DEF Tags
            <4>1. taken \in Tags /\ taken.confirmed = tags.confirmed /\ taken.prompt = tags.prompt
                <5>1. taken = [tags EXCEPT !.due = d]
                    BY <4>0
                <5> QED
                    BY <3>0, <5>1 DEF Tags
            <4>2. PICK result \in {"catalog", "empty", "unavailable"} :
                    tags' = IF q = tags.handle /\ state = "recording"
                            THEN Received(taken, result, q, capturing # None) ELSE taken
                BY <3>2 DEF TagsDelivered
            <4>3. q \in Nat
                BY <3>0 DEF Tags
            <4> HIDE DEF taken
            <4>4. PICK b \in BOOLEAN : b = (capturing # None)
                OBVIOUS
            <4>5. Received(taken, result, q, b).confirmed = taken.confirmed
                BY <4>1, <4>3, ReceivedTypes
            <4>6. ~b => Received(taken, result, q, b).prompt = taken.prompt
                BY <4>1, <4>3, ReceivedTypes
            <4>7. tags' = Received(taken, result, q, b) \/ tags' = taken
                BY <4>2, <4>4
            <4> QED
                BY <4>1, <4>4, <4>5, <4>6, <4>7
        <3> QED
            BY <1>12, <3>1, <3>2
    <2> QED
        BY <2>1, <2>2 DEF OwnInv, TagsAreChosen, Unreported, Fresh, Running
<1> QED
    BY <1>1, <1>2, <1>3, <1>4, <1>5, <1>6, <1>7, <1>8, <1>9, <1>10, <1>11, <1>12 DEF Next

(* The sets of recordings, once a step has changed them.                             *)
LEMMA HoldersAre ==
    ASSUME ControllerTypeOK
    PROVE  /\ Users \subseteq Holders /\ Unreported \subseteq Holders /\ Holders \subseteq Calls
           /\ \A c \in Calls : c \in {pending, capturing} => c \in Users
           /\ \A c \in Calls : handle[c] = "none" /\ c \notin {pending, capturing} =>
                 c \notin Holders
BY DEF Holders, Users, Unreported

(* A recording leaves, and its reservation with it.                                *)
LEMMA PathsShrink ==
    ASSUME ControllerTypeOK, PathInv, refusals = 0, NEW c \in Holders,
           Holders' = Holders \ {c}, Users' = Users \ {c}, Unreported' = Unreported \ {c},
           held' = held \ {path[c]}, rival' = rival, Running' => Running,
           \A d \in Holders : d # c => path'[d] = path[d],
           pending' = None \/ (pending' = pending /\ c # pending),
           capturing' = None \/ (capturing' = capturing /\ c # capturing),
           \/ active' = NoPath /\ pending' = None /\ capturing' = None
           \/ /\ active' = active /\ (pending' = pending \/ c = pending)
              /\ capturing' = capturing \/ c = capturing
    PROVE  PathInv'
<1>0. /\ \A d \in Holders : path[d] \in Paths
      /\ \A d \in Users : path[d] \in held
      /\ Running => \A d \in Unreported : path[d] \in held
      /\ held \subseteq {path[d] : d \in Holders}
      /\ \A d, e \in Holders : path[d] = path[e] => d = e
      /\ rival \notin held
    BY DEF PathInv
<1>1. /\ pending # None => active = path[pending]
      /\ capturing # None => active = path[capturing]
      /\ \A d \in Users : d \notin {pending, capturing} => path[d] # active
    BY DEF PathInv
<1>2. Users \subseteq Holders /\ Unreported \subseteq Holders /\ Holders \subseteq Calls
    BY HoldersAre
<1>3. /\ pending \in Calls => pending \in Holders
      /\ capturing \in Calls => capturing \in Holders
      /\ {pending, capturing} \subseteq Calls \cup {None}
    BY DEF Holders, Users, ControllerTypeOK
<1>4. \A d \in Holders' : path'[d] \in Paths
    BY <1>0
<1>5. \A d \in Users' : path'[d] \in held'
    BY <1>0, <1>2
<1>6. Running' => \A d \in Unreported' : path'[d] \in held'
    BY <1>0, <1>2
<1>7. held' \subseteq {path'[d] : d \in Holders'}
    <2>1. ASSUME NEW p \in held' PROVE \E d \in Holders' : p = path'[d]
        <3>1. PICK d \in Holders : p = path[d]
            BY <1>0
        <3> QED
            BY <3>1
    <2> QED
        BY <2>1
<1>8. \A d, e \in Holders' : path'[d] = path'[e] => d = e
    BY <1>0
<1>9. pending' # None => active' = path'[pending']
    BY <1>1, <1>3
<1>10. capturing' # None => active' = path'[capturing']
    BY <1>1, <1>3
<1>11. \A d \in Users' : d \notin {pending', capturing'} => path'[d] # active'
    <2>1. CASE active' = NoPath
        <3>1. NoPath \notin Paths
            BY DEF NoPath, Paths
        <3> QED
            BY <1>0, <1>2, <2>1, <3>1
    <2>2. CASE active' # NoPath
        <3>1. active' = active /\ (pending' = pending \/ c = pending)
              /\ (capturing' = capturing \/ c = capturing)
            BY <2>2
        <3>2. ASSUME NEW d \in Users', d \notin {pending', capturing'}
              PROVE  d \notin {pending, capturing} /\ d \in Users /\ d # c
            BY <3>1, <3>2
        <3> QED
            BY <1>1, <1>2, <3>1, <3>2
    <2> QED
        BY <2>1, <2>2
<1>12. rival' \notin held'
    BY <1>0
<1> QED
    BY <1>4, <1>5, <1>6, <1>7, <1>8, <1>9, <1>10, <1>11, <1>12 DEF PathInv

(* A recording comes, with a path that was free.                                   *)
LEMMA PathsGrow ==
    ASSUME ControllerTypeOK, PathInv, refusals = 0, Running, NEW c \in Calls, c \notin Holders,
           pending = None, capturing = None, NEW p \in Paths, p \notin held, p # rival,
           path' = [path EXCEPT ![c] = p],
           UNCHANGED <<phase, handle, rival>>,
           \/ /\ c \in {pending', capturing'} /\ {pending', capturing'} \subseteq {c, None}
              /\ held' = held \cup {p} /\ active' = p
           \/ pending' = None /\ capturing' = None /\ held' = held /\ active' = NoPath
    PROVE  PathInv'
<1>0. /\ \A d \in Holders : path[d] \in Paths
      /\ \A d \in Users : path[d] \in held
      /\ \A d \in Unreported : path[d] \in held
      /\ held \subseteq {path[d] : d \in Holders}
      /\ \A d, e \in Holders : path[d] = path[e] => d = e
      /\ rival \notin held
    BY DEF PathInv
<1>1. /\ path'[c] = p
      /\ \A d \in Holders : path'[d] = path[d] /\ d # c /\ path[d] \in held /\ path[d] # p
    BY <1>0, HoldersAre DEF ControllerTypeOK, Holders
<1>2. Users \subseteq Holders /\ Unreported \subseteq Holders /\ Unreported' = Unreported
    BY HoldersAre DEF Unreported
<1>3. NoPath \notin Paths
    BY DEF NoPath, Paths
<1>4. CASE /\ c \in {pending', capturing'} /\ {pending', capturing'} \subseteq {c, None}
           /\ held' = held \cup {p} /\ active' = p
    <2>1. Users' = Users \cup {c} /\ Holders' = Holders \cup {c}
        BY <1>4 DEF Users, Holders, Unreported, Calls, None
    <2>2. held' \subseteq {path'[d] : d \in Holders'}
        <3>1. ASSUME NEW h \in held' PROVE \E d \in Holders' : h = path'[d]
            BY <1>0, <1>1, <1>4, <2>1, <3>1
        <3> QED
            BY <3>1
    <2>3. \A d, e \in Holders' : path'[d] = path'[e] => d = e
        BY <1>0, <1>1, <2>1
    <2>4. /\ \A d \in Holders' : path'[d] \in Paths
          /\ \A d \in Users' : path'[d] \in held'
          /\ \A d \in Unreported' : path'[d] \in held'
          /\ rival' \notin held'
        BY <1>0, <1>1, <1>2, <1>4, <2>1
    <2>5. /\ pending' # None => active' = path'[pending']
          /\ capturing' # None => active' = path'[capturing']
          /\ \A d \in Users' : d \notin {pending', capturing'} => path'[d] # active'
        BY <1>1, <1>2, <1>4, <2>1
    <2> QED
        BY <2>2, <2>3, <2>4, <2>5 DEF PathInv
<1>5. CASE pending' = None /\ capturing' = None /\ held' = held /\ active' = NoPath
    <2>1. Users' = Users /\ Holders' = Holders
        BY <1>5 DEF Users, Holders, Unreported
    <2>2. held' \subseteq {path'[d] : d \in Holders'}
        <3>1. ASSUME NEW h \in held' PROVE \E d \in Holders' : h = path'[d]
            BY <1>0, <1>1, <1>5, <2>1, <3>1
        <3> QED
            BY <3>1
    <2>3. \A d, e \in Holders' : path'[d] = path'[e] => d = e
        BY <1>0, <1>1, <2>1
    <2>4. /\ \A d \in Holders' : path'[d] \in Paths
          /\ \A d \in Users' : path'[d] \in held'
          /\ \A d \in Unreported' : path'[d] \in held'
          /\ rival' \notin held'
        BY <1>0, <1>1, <1>2, <1>5, <2>1
    <2>5. \A d \in Users' : path'[d] # active'
        BY <1>0, <1>1, <1>2, <1>3, <1>5, <2>1
    <2> QED
        BY <1>5, <2>2, <2>3, <2>4, <2>5 DEF PathInv
<1> QED
    BY <1>4, <1>5

(* A path is found for a call of which nothing is recorded yet, and is reserved while  *)
(* its recording lasts.                                                           *)
LEMMA BeginPaths ==
    ASSUME ControllerAssumption, refusals = 0, OwnInv, PathInv, ControllerTypeOK, NEW c \in Calls,
           Running, state # "recording", Fresh(c), UNCHANGED <<phase, handle, rival>>,
           NEW wanted, NEW discover \in BOOLEAN, Begin(c, wanted, discover)
    PROVE  PathInv'
<1>1. pending = None /\ capturing = None /\ c \notin Holders
    BY NotRecording DEF Unbusy, Fresh, Holders, Users, Unreported, Calls, None
<1>2. Candidate \in Paths /\ Candidate \notin held /\ Candidate # rival
    BY <1>1, CandidateIsFree DEF PathInv
<1>3. PICK p \in Paths : p = Candidate
    BY <1>2
<1>4. PICK t \in Tags :
        /\ path' = [path EXCEPT ![c] = Candidate]
        /\ \/ Waits(c) /\ tags' = t
           \/ StartCapture(c, Candidate, portal, attached, session, t, held \cup {Candidate})
    BY BeginIs
<1>5. CASE Waits(c)
    <2>1. /\ c \in {pending', capturing'} /\ {pending', capturing'} \subseteq {c, None}
          /\ held' = held \cup {p} /\ active' = p
        BY <1>1, <1>3, <1>5 DEF Waits
    <2> QED
        BY <1>1, <1>2, <1>3, <1>4, <2>1, PathsGrow
<1>6. CASE StartCapture(c, p, portal, attached, session, t, held \cup {p})
    <2>1. \/ /\ c \in {pending', capturing'} /\ {pending', capturing'} \subseteq {c, None}
             /\ held' = held \cup {p} /\ active' = p
          \/ pending' = None /\ capturing' = None /\ held' = (held \cup {p}) \ {p}
             /\ active' = NoPath
        BY <1>1, <1>6 DEF StartCapture, StartFails
    <2>2. (held \cup {p}) \ {p} = held
        BY <1>2, <1>3
    <2> QED
        BY <1>1, <1>2, <1>3, <1>4, <2>1, <2>2, PathsGrow
<1> QED
    BY <1>3, <1>4, <1>5, <1>6

(* The recording that waits for the portal keeps its path when it starts, and gives it  *)
(* back when it cannot.                                                           *)
LEMMA StartPaths ==
    ASSUME ControllerTypeOK, OwnInv, PathInv, refusals = 0, Awaited,
           UNCHANGED <<phase, handle, rival, path>>,
           NEW s, NEW a, NEW k, NEW t, StartCapture(pending, path[pending], s, a, k, t, held)
    PROVE  PathInv'
<1>1. pending \in Calls /\ capturing = None /\ handle[pending] = "none" /\ pending # None
    BY DEF OwnInv, Awaited, ControllerTypeOK, Fresh
<1>2. PICK c \in Calls : c = pending
    BY <1>1
<1>3. c \in Users /\ c \in Holders /\ c \notin Unreported /\ c # None
    BY <1>1, <1>2 DEF Holders, Users, Unreported
<1>4. CASE capturing' = c /\ pending' = None /\ held' = held /\ active' = path[c]
    <2>1. Users' = Users /\ Unreported' = Unreported /\ Holders' = Holders
        BY <1>1, <1>2, <1>4 DEF Holders, Users, Unreported, Calls, None
    <2>2. path[c] = active /\ {pending, capturing} = {c, None}
        BY <1>1, <1>2 DEF PathInv
    <2> QED
        BY <1>4, <2>1, <2>2 DEF PathInv, Running
<1>5. CASE /\ capturing' = None /\ pending' = None /\ held' = held \ {path[c]}
           /\ active' = NoPath
    <2>1. Users' = Users \ {c} /\ Unreported' = Unreported
        BY <1>1, <1>2, <1>5 DEF Users, Unreported, Calls, None
    <2>2. Holders' = Holders \ {c} /\ Unreported' = Unreported \ {c}
        BY <1>3, <2>1 DEF Holders
    <2>3. /\ \A d \in Holders : d # c => path'[d] = path[d]
          /\ Running' => Running
        BY DEF Running
    <2> QED
        BY <1>3, <1>5, <2>1, <2>2, <2>3, PathsShrink
<1> QED
    BY <1>1, <1>2, <1>4, <1>5 DEF StartCapture, StartFails

(* The path of a recording stays reserved from its capture to its finalizer.          *)
LEMMA FinishPaths ==
    ASSUME ControllerTypeOK, ConsentInv, OwnInv, PathInv, refusals' = 0, Finish,
           rival' = rival, Running' => Running,
           capturing # None \/ (Running /\ state = "recording")
    PROVE  PathInv'
<1>0. /\ refusals = 0 /\ pending' = None /\ path' = path
      /\ {pending, capturing} \subseteq Calls \cup {None}
    BY DEF Finish, ClosePortal, Stopped, ControllerTypeOK
<1>1. CASE capturing = None
    <2>1. pending \in Calls /\ pending = call /\ handle[pending] = "none"
        BY <1>0, <1>1 DEF OwnInv, ConsentInv, Fresh, Calls, None
    <2>2. PICK c \in Calls : c = pending
        BY <2>1
    <2>3. c # None /\ handle[c] = "none" /\ c = pending /\ c # capturing
        BY <1>1, <2>1, <2>2 DEF Calls, None
    <2>4. c \in Holders /\ c \in Users /\ c \notin Unreported
        BY <2>3 DEF Holders, Users, Unreported
    <2>5. /\ held' = held \ {path[c]} /\ active' = NoPath /\ capturing' = None
          /\ handle' = handle
        BY <1>1, <2>3 DEF Finish, finalVars
    <2>6. Users' = Users \ {c} /\ Unreported' = Unreported \ {c}
        BY <1>0, <1>1, <2>3, <2>5 DEF Users, Unreported, Calls, None
    <2>7. Holders' = Holders \ {c}
        BY <2>6 DEF Holders
    <2> QED
        BY <1>0, <2>4, <2>5, <2>6, <2>7, PathsShrink
<1>2. CASE capturing # None
    <2>1. /\ capturing \in Calls /\ capturing = call /\ pending = None
          /\ handle[call] = "none" /\ Stopped(capturing)
        BY <1>0, <1>2 DEF OwnInv, Finish
    <2>2. PICK ending \in {"encoding", "failed"} :
            /\ capturing' = None /\ held' = held
            /\ handle' = [handle EXCEPT ![call] = ending]
            /\ active' = NoPath \/ (active' = active /\ ending = "failed")
        BY <1>0, <2>1 DEF Stopped
    <2>3. PICK c \in Calls : c = call
        BY <2>1
    <2>4. c \in Users /\ c \in Holders
        BY <2>1, <2>3 DEF Users, Holders
    <2>5. /\ handle'[c] = ending
          /\ \A d \in Calls : d # c => handle'[d] = handle[d]
        BY <2>2, <2>3 DEF ControllerTypeOK
    <2>6. Users' \subseteq Users /\ (ending = "failed" => c \notin Users')
        BY <1>0, <2>1, <2>2, <2>3, <2>4, <2>5 DEF Users, Calls, None
    <2>7. Unreported' = Unreported \cup {c}
        BY <2>3, <2>5 DEF Unreported
    <2>8. Holders' = Holders
        <3>1. Users' \cup {c} = Users
            BY <1>0, <2>1, <2>2, <2>3, <2>4, <2>5, <2>6 DEF Users, Calls, None
        <3> QED
            BY <2>7, <3>1, <2>4 DEF Holders
    <2>9. /\ \A d \in Holders : path[d] \in Paths
          /\ \A d \in Users : path[d] \in held
          /\ Running => \A d \in Unreported : path[d] \in held
          /\ held \subseteq {path[d] : d \in Holders}
          /\ \A d, e \in Holders : path[d] = path[e] => d = e
          /\ rival \notin held
          /\ active = path[c]
        BY <1>0, <2>1, <2>3 DEF PathInv, Calls, None
    <2>10. \A d \in Users' : path'[d] # active'
        <3>1. NoPath \notin Paths
            BY DEF NoPath, Paths
        <3>2. CASE active' = NoPath
            BY <1>0, <2>6, <2>9, <3>1, <3>2 DEF Holders
        <3>3. CASE active' = active /\ ending = "failed"
            BY <1>0, <2>4, <2>6, <2>9, <3>3 DEF Holders
        <3> QED
            BY <2>2, <3>2, <3>3
    <2>11. /\ \A d \in Users' : path'[d] \in held'
           /\ Running' => \A d \in Unreported' : path'[d] \in held'
        BY <1>0, <2>2, <2>4, <2>6, <2>7, <2>9
    <2>12. held' \subseteq {path'[d] : d \in Holders'}
        BY <1>0, <2>2, <2>8, <2>9
    <2>13. /\ \A d \in Holders' : path'[d] \in Paths
           /\ \A d, e \in Holders' : path'[d] = path'[e] => d = e
           /\ rival' \notin held'
        BY <1>0, <2>2, <2>8, <2>9
    <2> QED
        BY <1>0, <2>2, <2>10, <2>11, <2>12, <2>13 DEF PathInv
<1> QED
    BY <1>1, <1>2

LEMMA PathsKept ==
    ASSUME PathInv, UNCHANGED <<refusals, pending, capturing, handle, path, held, active, rival>>,
           Running' => Running
    PROVE  PathInv'
BY DEF PathInv, Holders, Users, Unreported

(* Reservations, action by action.                                                 *)
LEMMA PathNext ==
    ASSUME ControllerAssumption, ControllerTypeOK, ConsentInv, StreamInv, OwnInv, PathInv, Next
    PROVE  PathInv'
<1> SUFFICES ASSUME refusals' = 0 PROVE PathInv'
    BY DEF PathInv
<1>1. CASE MeetingPrompts
    BY <1>1, PathsKept DEF MeetingPrompts, MeetingStarts, Running, pathVars, finalVars
<1>2. CASE MeetingRecords
    <2>1. MeetingStarts /\ call' = call + 1 /\ call' \in Calls
        BY <1>2, StartsTypes DEF MeetingRecords
    <2>2. Begin(call', "audio", FALSE)
        BY <1>2 DEF MeetingRecords
    <2>3. PICK c \in Calls : c = call'
        BY <2>1
    <2>4. /\ refusals = 0 /\ Running /\ state # "recording"
          /\ UNCHANGED <<phase, handle, rival>>
        BY <2>1 DEF MeetingStarts, finalVars
    <2>5. c > call
        BY <2>1, <2>3 DEF ControllerTypeOK
    <2>6. Fresh(c)
        BY <2>4, <2>5 DEF OwnInv
    <2> QED
        BY <2>2, <2>3, <2>4, <2>6, BeginPaths
<1>3. CASE MeetingStops \/ WidgetStop
    <2>1. Running /\ rival' = rival /\ phase' = phase
        BY <1>3 DEF MeetingStops, WidgetStop, callVars
    <2>2. CASE Finish /\ state = "recording"
        BY <2>1, <2>2, FinishPaths DEF Running
    <2>3. CASE ~(Finish /\ state = "recording")
        BY <1>3, <2>1, <2>3, PathsKept DEF MeetingStops, WidgetStop, Running, pathVars, finalVars
    <2> QED
        BY <2>2, <2>3
<1>4. CASE ShutdownCapture
    <2>1. rival' = rival /\ ~Running /\ ~Running'
        BY <1>4 DEF ShutdownCapture, Running
    <2>2. CASE capturing # None
        <3>1. Finish
            BY <1>4, <2>2 DEF ShutdownCapture
        <3> QED
            BY <2>1, <2>2, <3>1, FinishPaths
    <2>3. CASE capturing = None
        <3>1. /\ held' = held \ {active} /\ active' = NoPath
              /\ UNCHANGED <<pending, path, capturing, handle, refusals>>
            BY <1>4, <2>3 DEF ShutdownCapture, finalVars
        <3>2. Users' = Users /\ Unreported' = Unreported /\ Holders' = Holders
            BY <3>1 DEF Users, Unreported, Holders
        <3>3. /\ \A d \in Holders : path[d] \in Paths
              /\ \A d \in Users : path[d] \in held /\ path[d] # active
              /\ held \subseteq {path[d] : d \in Holders}
              /\ \A d, e \in Holders : path[d] = path[e] => d = e
              /\ rival \notin held /\ pending = None
            <4>1. pending = None /\ refusals = 0
                BY <2>1, <3>1 DEF OwnInv
            <4>2. \A d \in Users : d \notin {pending, capturing}
                BY <2>3, <4>1 DEF Users, Calls, None
            <4> QED
                BY <4>1, <4>2 DEF PathInv
        <3>4. NoPath \notin Paths
            BY DEF NoPath, Paths
        <3>5. \A d \in Users' : path'[d] # active'
            BY <3>1, <3>2, <3>3, <3>4 DEF Holders
        <3>6. /\ \A d \in Holders' : path'[d] \in Paths
              /\ \A d \in Users' : path'[d] \in held'
              /\ held' \subseteq {path'[d] : d \in Holders'}
              /\ \A d, e \in Holders' : path'[d] = path'[e] => d = e
              /\ rival' \notin held'
            BY <2>1, <3>1, <3>2, <3>3
        <3> QED
            BY <2>1, <2>3, <3>1, <3>3, <3>5, <3>6 DEF PathInv
    <2> QED
        BY <2>2, <2>3
<1>5. CASE TagsPressed \/ TagPromptEnds \/ \E q \in 1..tags.made : TagsDelivered(q)
    <2>1. TagLeaves
        BY <1>5, TagsTypes
    <2> QED
        BY <2>1, PathsKept DEF TagLeaves, Running, callVars, pathVars, finalVars
<1>6. CASE RivalReserves
    <2>1. /\ rival = NoPath /\ rival' = Candidate /\ refusals = 0
          /\ UNCHANGED <<phase, pending, capturing, handle, path, held, active, refusals>>
        BY <1>6 DEF RivalReserves, callVars, pathVars, finalVars
    <2>2. rival \notin Paths /\ held \subseteq {path[c] : c \in Holders}
        BY <2>1 DEF NoPath, Paths, PathInv
    <2>3. rival' \notin held'
        BY <2>1, <2>2, CandidateIsFree
    <2>4. Users' = Users /\ Unreported' = Unreported /\ Holders' = Holders
        BY <2>1 DEF Users, Unreported, Holders
    <2> QED
        BY <2>1, <2>3, <2>4 DEF PathInv, Running
<1>7. CASE RivalEnds
    <2>1. /\ rival' = NoPath /\ refusals = 0
          /\ UNCHANGED <<phase, pending, capturing, handle, path, held, active, refusals>>
        BY <1>7 DEF RivalEnds, callVars, pathVars, finalVars
    <2>2. Users' = Users /\ Unreported' = Unreported /\ Holders' = Holders
        BY <2>1 DEF Users, Unreported, Holders
    <2>3. rival' \notin held'
        <3>1. \A p \in held : \E d \in Holders : p = path[d] /\ path[d] \in Paths
            BY <2>1 DEF PathInv
        <3> QED
            BY <2>1, <3>1 DEF NoPath, Paths
    <2> QED
        BY <2>1, <2>2, <2>3 DEF PathInv, Running
<1>8. CASE ShutdownPending
    <2>1. /\ UNCHANGED <<refusals, capturing, handle, path, active, rival>> /\ ~Running'
        BY <1>8 DEF ShutdownPending, Running, finalVars, historyVars
    <2>2. CASE pending = None
        <3>1. UNCHANGED <<pending, held>>
            BY <1>8, <2>2 DEF ShutdownPending
        <3> QED
            BY <2>1, <3>1, PathsKept
    <2>3. CASE pending # None
        <3>1. held' = held \ {path[pending]} /\ pending' = None
            BY <1>8, <2>3 DEF ShutdownPending, ClosePortal
        <3>2. pending \in Calls /\ handle[pending] = "none" /\ capturing = None /\ refusals = 0
            BY <2>1, <2>3 DEF OwnInv, Fresh, ControllerTypeOK
        <3>3. PICK c \in Calls : c = pending
            BY <3>2
        <3>4. c \in Holders /\ c \notin Unreported /\ c # None /\ c # capturing
            BY <2>3, <3>2, <3>3 DEF Holders, Users, Unreported
        <3>5. Users' = Users \ {c} /\ Unreported' = Unreported /\ Unreported' = Unreported \ {c}
            BY <2>1, <3>1, <3>2, <3>3, <3>4 DEF Users, Unreported, Calls, None
        <3>6. Holders' = Holders \ {c}
            BY <3>4, <3>5 DEF Holders
        <3>7. held' = held \ {path[c]}
            BY <3>1, <3>3
        <3> QED
            BY <2>1, <3>1, <3>2, <3>3, <3>4, <3>5, <3>6, <3>7, PathsShrink
    <2> QED
        BY <2>2, <2>3
<1>9. CASE ShutdownEnds
    BY <1>9, PathsKept DEF ShutdownEnds, Running, pathVars, finalVars
<1>10. ASSUME NEW p \in 1..call, PromptIgnored(p) \/ ReserveFails(p)
       PROVE  PathInv'
    BY <1>10, PathsKept DEF PromptIgnored, ReserveFails, Running, callVars, pathVars, finalVars
<1>11. ASSUME NEW p \in 1..call, NEW wanted, PromptAccepted(p, wanted)
       PROVE  PathInv'
    <2>1. call \in Calls /\ Begin(call, wanted, TRUE) /\ state = "prompting" /\ Running
        BY <1>11 DEF PromptAccepted, ConsentInv
    <2>2. PICK c \in Calls : c = call
        BY <2>1
    <2>3. refusals = 0 /\ UNCHANGED <<phase, handle, rival>>
        BY <1>11 DEF PromptAccepted, callVars, finalVars
    <2>4. Fresh(c)
        BY <2>1, <2>2, <2>3 DEF OwnInv
    <2> QED
        BY <2>1, <2>2, <2>3, <2>4, BeginPaths
<1>12. ASSUME NEW x \in Calls,
              PortalCreated(x) \/ PortalSelected(x) \/ PortalStarted(x) \/ PortalDenied(x)
                 \/ PortalTimeout(x)
       PROVE  PathInv'
    <2>1. AnswerStep
        BY <1>12, PortalAnswers
    <2>2. refusals = 0 /\ UNCHANGED <<phase, handle, rival, path, refusals>>
        BY <2>1 DEF AnswerStep, AnswerLeaves, callVars, finalVars
    <2>3. PICK s \in Calls, q \in [Calls -> Session] :
            \/ Unheeded(q)
            \/ /\ Awaited
               /\ \E a \in {s, attached}, k \in {session, None} :
                     StartCapture(pending, path[pending], q, a, k, tags, held)
        BY <2>1 DEF AnswerStep
    <2>4. CASE Unheeded(q)
        BY <2>2, <2>4, PathsKept DEF Unheeded, Running
    <2>5. ASSUME Awaited, NEW a \in {s, attached}, NEW k \in {session, None},
                 StartCapture(pending, path[pending], q, a, k, tags, held)
          PROVE  PathInv'
        <3>1. PICK t \in Tags : t = tags
            BY DEF ControllerTypeOK
        <3>2. PICK b \in Calls \cup {None} : b = k
            BY DEF ControllerTypeOK
        <3>3. PICK e \in Calls \cup {None} : e = a
            BY DEF ControllerTypeOK
        <3>4. StartCapture(pending, path[pending], q, e, b, t, held)
            BY <2>5, <3>1, <3>2, <3>3
        <3> QED
            BY <2>2, <2>5, <3>4, StartPaths
    <2> QED
        BY <2>3, <2>4, <2>5
<1>13. ASSUME NEW c \in Calls, FinalizerEnds(c)
       PROVE  PathInv'
    <2>1. /\ UNCHANGED <<refusals, pending, capturing, phase, path, held, active, rival>>
          /\ handle[c] = "encoding"
        BY <1>13 DEF FinalizerEnds, callVars, pathVars
    <2>2. PICK ending \in {"saved", "failed"} : handle' = [handle EXCEPT ![c] = ending]
        BY <1>13 DEF FinalizerEnds
    <2>3. /\ handle'[c] = ending
          /\ \A d \in Calls : d # c => handle'[d] = handle[d]
        BY <2>2 DEF ControllerTypeOK
    <2>4. Unreported' = Unreported /\ Users' \subseteq Users
        BY <2>1, <2>3 DEF Unreported, Users
    <2>5. Holders' = Holders
        <3>1. Users \subseteq Users' \cup {c} /\ c \in Unreported
            BY <2>1, <2>3 DEF Unreported, Users
        <3> QED
            BY <2>4, <3>1 DEF Holders
    <2> QED
        BY <2>1, <2>4, <2>5 DEF PathInv, Running
<1>14. ASSUME NEW c \in Calls, PollHandle(c) \/ PollRaises(c) \/ ShutdownWaits(c)
       PROVE  PathInv'
    <2>1. Dispatch(c)
        BY <1>14 DEF PollHandle, PollRaises, ShutdownWaits
    <2>2. /\ UNCHANGED <<refusals, phase, pending, capturing, active, rival>>
          /\ c \in Unreported
          /\ handle' = [handle EXCEPT ![c] = "reported"]
          /\ held' = held \ {path[c]}
          /\ path' = [path EXCEPT ![c] = NoPath]
        BY <2>1 DEF Dispatch
    <2>3. /\ handle'[c] = "reported"
          /\ \A d \in Calls : d # c => handle'[d] = handle[d] /\ path'[d] = path[d]
        BY <2>2 DEF ControllerTypeOK
    <2>4. refusals = 0 /\ c # pending /\ c # capturing
        <3>1. refusals = 0 /\ handle[c] # "none" /\ c # None
            BY <2>2 DEF Unreported, Calls, None
        <3>2. /\ pending # None => handle[pending] = "none"
              /\ capturing # None => handle[capturing] = "none"
            BY <3>1 DEF OwnInv, Fresh
        <3> QED
            BY <3>1, <3>2
    <2>5. c \in Holders /\ Holders \subseteq Calls
        BY <2>2, HoldersAre
    <2>6. Unreported' = Unreported \ {c} /\ Users' = Users \ {c}
        BY <2>2, <2>3, <2>4 DEF Unreported, Users
    <2>7. Holders' = Holders \ {c}
        BY <2>6 DEF Holders
    <2>8. \A d \in Holders : d # c => path'[d] = path[d]
        BY <2>3, <2>5
    <2>9. Running' => Running
        BY <2>2 DEF Running
    <2> QED
        BY <2>2, <2>4, <2>5, <2>6, <2>7, <2>8, <2>9, PathsShrink
<1> QED
    BY <1>1, <1>2, <1>3, <1>4, <1>5, <1>6, <1>7, <1>8, <1>9, <1>10, <1>11, <1>12, <1>13, <1>14
       DEF Next

LEMMA ControllerInitial == ASSUME ControllerAssumption, Init PROVE ControllerInv
<1>1. ControllerTypeOK
    BY TypeInit
<1>2. Users = {} /\ Unreported = {} /\ Holders = {}
    BY DEF Init, Users, Unreported, Holders, Calls, None
<1>3. ConsentInv
    BY DEF Init, ConsentInv, ConsentIsOwn
<1>4. StreamInv
    BY DEF Init, StreamInv, StreamOutlivesCapture
<1>5. OwnInv
    <2>1. \A d \in Calls : Fresh(d)
        BY DEF Init, Fresh
    <2>2. tags.confirmed = None /\ tags.prompt = None
        BY DEF Init, NoTags
    <2> QED
        BY <1>2, <2>1, <2>2 DEF Init, OwnInv, TagsAreChosen, Running
<1>6. PathInv
    BY <1>2 DEF Init, PathInv
<1> QED
    BY <1>1, <1>3, <1>4, <1>5, <1>6 DEF ControllerInv

LEMMA ControllerStutters ==
    ASSUME ControllerInv, UNCHANGED vars
    PROVE  ControllerInv'
<1>1. ControllerTypeOK'
    BY TypeQuiet DEF ControllerInv
<1>2. ConsentInv' /\ StreamInv'
    BY DEF ControllerInv, ConsentInv, ConsentIsOwn, StreamInv, StreamOutlivesCapture, Feeds, vars,
           callVars, portalVars, historyVars
<1>3. OwnInv'
    BY DEF ControllerInv, OwnInv, TagsAreChosen, Unreported, Fresh, Running, vars
<1>4. PathInv'
    BY PathsKept DEF ControllerInv, Running, vars
<1> QED
    BY <1>1, <1>2, <1>3, <1>4 DEF ControllerInv

(* Every state the daemon reaches is of its type and obeys the five parts of the       *)
(* inductive invariant, for any number of calls, requests and refusals, with or      *)
(* without the portal.                                                            *)
THEOREM ControllerInvariant == Spec => []ControllerInv
<1> USE ControllerAssumption
<1>1. Init => ControllerInv
    BY ControllerInitial
<1>2. ControllerInv /\ [Next]_vars => ControllerInv'
    <2> SUFFICES ASSUME ControllerInv, [Next]_vars PROVE ControllerInv'
        OBVIOUS
    <2>1. CASE Next
        BY <2>1, TypeNext, ConsentNext, StreamNext, OwnNext, PathNext DEF ControllerInv
    <2>2. CASE UNCHANGED vars
        BY <2>2, ControllerStutters
    <2> QED
        BY <2>1, <2>2
<1> QED
    BY <1>1, <1>2, PTL DEF Spec

(* A state that obeys the invariant has its reservations right.                      *)
LEMMA PathsAreExact ==
    ASSUME ControllerInv
    PROVE  ReservationsExact
BY DEF ControllerInv, PathInv, Holders, ReservationsExact

(* Whatever order calls, portal answers, stops, finalizers and shutdown come in,    *)
(* every recording that needs its path has it reserved, for itself alone, and no    *)
(* reservation outlives its recording or its unreported failure, while no stop of   *)
(* the recorder has raised.                                                        *)
THEOREM PathsAreReserved == FairSpec => []ReservationsExact
<1>1. ControllerInv => ReservationsExact
    BY PathsAreExact
<1> QED
    BY <1>1, ControllerInvariant, PTL DEF FairSpec

(* A finished recording is labelled with the selection its user committed during    *)
(* that recording, and with nothing when none was, while no stop has raised.        *)
THEOREM LabelsAreChosen == FairSpec => []TagsAreChosen
<1>1. ControllerInv => TagsAreChosen
    BY DEF ControllerInv, OwnInv, TagsAreChosen
<1> QED
    BY <1>1, ControllerInvariant, PTL DEF FairSpec

(* Only the prompt of a call decides about that call: a late press of an older      *)
(* notification's button, or its close, starts no recording and cancels none.       *)
THEOREM OnlyOwnConsent == FairSpec => []ConsentIsOwn
<1>1. ControllerInv => ConsentIsOwn
    BY DEF ControllerInv, ConsentInv
<1> QED
    BY <1>1, ControllerInvariant, PTL DEF FairSpec

(* The stream a recording is fed from is open, and the recorder's own, for as long   *)
(* as it is captured: no timer, late answer or other session's failure closes it.   *)
THEOREM StreamsOutlive == FairSpec => []StreamOutlivesCapture
<1>1. ControllerInv => StreamOutlivesCapture
    BY DEF ControllerInv, StreamInv
<1> QED
    BY <1>1, ControllerInvariant, PTL DEF FairSpec

============================================================================
