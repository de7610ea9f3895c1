------------------------------- MODULE WakeWord -------------------------------
(***************************************************************************)
(* The wake-word service (services/wakeword): each browser streams audio   *)
(* over a socket of its own, to a detector of its own, and is told when    *)
(* the wake word was spoken; all sockets share the table of thresholds     *)
(* that the health report averages.                                        *)
(*                                                                         *)
(* Audio is a sequence of whole frames, a frame the score the model gives  *)
(* it; scores and thresholds are in twentieths.  One event loop serves the *)
(* sockets, so that a message is handled in one step.                      *)
(***************************************************************************)
EXTENDS Integers, Sequences

CONSTANTS
    Sessions,
    Floor,          \* WAKEWORD_THRESHOLD
    Lowest, Highest,\* what a detector clamps a threshold to (2 and 19)
    Confirm,        \* frames in a row that make a detection
    Cooldown,       \* how long a further detection is not told
    Messages,       \* audio messages a browser may send
    Thresholds,     \* thresholds a browser may ask for
    MaxTime,        \* bound: the clock
    MaxBuffer       \* bound: frames that wait

VARIABLES
    serves,         \* start-up found a model
    clock,
    session,        \* per browser its connection
    table           \* thresholds of the registered sessions

vars == <<serves, clock, session, table>>

None == -1
Silent == [at |-> None, threshold |-> 0, frames |-> <<>>]
\* `heard` is history: the scores since the detector last began anew, the last
\* Confirm of them; so are the last two detections that were told.
Detector(threshold) == [threshold |-> threshold, buffer |-> <<>>, count |-> 0, heard |-> <<>>]
Closed == [open |-> FALSE, detector |-> Detector(0), last |-> None, told |-> Silent, before |-> None]

Max2(m, n) == IF m > n THEN m ELSE n
Min2(m, n) == IF m < n THEN m ELSE n

\* A path that names no file is ignored, and a model that the registry lacks is
\* replaced by the fallback; the service ends if that is missing too.
Serves(path, registry) == path = "file" \/ registry # {}

Init ==
    /\ \E path \in {"none", "file", "missing"}, registry \in SUBSET {"configured", "fallback"} :
          serves = Serves(path, registry)
    /\ clock = 0
    /\ session = [s \in Sessions |-> Closed]
    /\ table = [s \in {} |-> 0]

Registered(s, threshold) == [t \in DOMAIN table \cup {s} |-> IF t = s THEN threshold ELSE table[t]]
Unregistered(s) == [t \in DOMAIN table \ {s} |-> table[t]]

----------------------------------------------------------------------------
(* The detector.                                                           *)

Tail2(seq, score) == LET all == Append(seq, score) IN SubSeq(all, Max2(1, Len(all) - Confirm + 1), Len(all))

\* A mutant of RunInference: a frame below the threshold leaves the count.
RunInferenceLoose(d, score) ==
    LET count == IF score >= d.threshold THEN d.count + 1 ELSE d.count IN
    [d EXCEPT !.count = IF count >= Confirm THEN 0 ELSE count, !.heard = Tail2(@, score)]

\* The count starts anew with each frame below the threshold, and each detection.
RunInference(d, score) ==
    LET count == IF score >= d.threshold THEN d.count + 1 ELSE 0 IN
    [d EXCEPT !.count = IF count >= Confirm THEN 0 ELSE count, !.heard = Tail2(@, score)]

Fires(d, score) == score >= d.threshold /\ RunInference(d, score).count = 0

\* One frame; those behind the one that fires wait in the buffer for the next
\* message.
Advance(r, score) ==
    IF r.fired THEN [r EXCEPT !.d.buffer = Append(@, score)]
    ELSE [d |-> RunInference(r.d, score), fired |-> Fires(r.d, score)]

\* Frames are taken one by one, those that waited first.
ProcessAudio(d, frames) ==
    LET all == d.buffer \o frames
        run[i \in 0..Len(all)] ==
            IF i = 0 THEN [d |-> [d EXCEPT !.buffer = <<>>], fired |-> FALSE] ELSE Advance(run[i - 1], all[i])
    IN  run[Len(all)]

----------------------------------------------------------------------------
(* The socket.                                                             *)

\* A detector is made for the connection, with the threshold as configured; a
\* model that cannot be loaded closes it at once.
Connect(s) ==
    /\ serves /\ ~session[s].open
    /\ session' = [session EXCEPT ![s] = [Closed EXCEPT !.open = TRUE, !.detector = Detector(Floor)]]
    /\ table' = Registered(s, Floor)
    /\ UNCHANGED <<serves, clock>>

\* A detection within the cooldown of the last one told is dropped.
Audio(s, frames) ==
    LET c == session[s]
        run == ProcessAudio(c.detector, frames)
        tells == run.fired /\ (c.last = None \/ clock - c.last >= Cooldown)
    IN  /\ c.open /\ Len(c.detector.buffer \o frames) <= MaxBuffer
        /\ session' = [session EXCEPT ![s] =
              [c EXCEPT !.detector = IF run.fired THEN [run.d EXCEPT !.heard = <<>>] ELSE run.d,
                        !.last = IF tells THEN clock ELSE @,
                        !.before = IF tells THEN c.last ELSE @,
                        !.told = IF tells THEN [at |-> clock, threshold |-> c.detector.threshold, frames |-> run.d.heard] ELSE @]]
        /\ UNCHANGED <<serves, clock, table>>

\* A mutant of UpdateThreshold: frames confirmed for the old threshold count for
\* the new one.
UpdateThresholdKeeping(d, value) ==
    [d EXCEPT !.threshold = Max2(Lowest, Min2(Highest, value)), !.heard = <<>>]

\* A new threshold discards what was confirmed for the old one.
UpdateThreshold(d, value) ==
    [d EXCEPT !.threshold = Max2(Lowest, Min2(Highest, value)), !.count = 0, !.heard = <<>>]

\* A browser asks for a threshold, or for a sensitivity (20 less it), and gets the
\* configured one if that is higher.
SetThreshold(s, value) ==
    LET d == UpdateThreshold(session[s].detector, Max2(Floor, value)) IN
    /\ session[s].open
    /\ session' = [session EXCEPT ![s].detector = d]
    /\ table' = Registered(s, d.threshold)
    /\ UNCHANGED <<serves, clock>>

\* A new detector with the threshold of the old one; what was told is forgotten.
ResetDetector(s) ==
    LET threshold == session[s].detector.threshold IN
    /\ session[s].open
    /\ session' = [session EXCEPT ![s] =
          [@ EXCEPT !.detector = Detector(threshold), !.last = None, !.before = None, !.told = Silent]]
    /\ table' = Registered(s, threshold)
    /\ UNCHANGED <<serves, clock>>

\* The browser leaves, sends what is no command, or a reset cannot load the model.
Disconnect(s) ==
    /\ session[s].open
    /\ session' = [session EXCEPT ![s] = Closed]
    /\ table' = Unregistered(s)
    /\ UNCHANGED <<serves, clock>>

Tick ==
    /\ clock < MaxTime
    /\ clock' = clock + 1
    /\ UNCHANGED <<serves, session, table>>

Next ==
    \/ \E s \in Sessions :
          \/ Connect(s)
          \/ \E frames \in Messages : Audio(s, frames)
          \/ \E value \in Thresholds : SetThreshold(s, value)
          \/ ResetDetector(s)
          \/ Disconnect(s)
    \/ Tick

Spec == Init /\ [][Next]_vars

----------------------------------------------------------------------------

\* A browser is told only of frames in a row that all reached the threshold in
\* force, none used for an earlier detection, another threshold or an earlier
\* detector, and not twice within the cooldown (detector.py:323-349,
\* main.py:484-526).
WakesAreEarned ==
    \A s \in Sessions : LET c == session[s] IN
        c.told.at # None =>
            /\ Len(c.told.frames) = Confirm /\ \A i \in 1..Confirm : c.told.frames[i] >= c.told.threshold
            /\ c.before # None => c.told.at - c.before >= Cooldown
=============================================================================
