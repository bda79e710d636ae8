------------------------------- MODULE Camera ---------------------------------
(***************************************************************************)
(* The dashboard's camera: dronesync/camera_adapter.py, the vision engine  *)
(* (dronesync/vision_engine.py) and the requests of dashboard/app.py that  *)
(* start and stop them.  Each request runs in a thread of its own; a start *)
(* makes an adapter, a thread that opens the device (and may hang there,   *)
(* so the request waits only 8 s for it), a thread that captures frames,   *)
(* and a thread that analyses them.  The adapter and the engine are        *)
(* globals that all those threads read again whenever they use them.       *)
(*                                                                         *)
(* A frame is its number.  The n-th start's adapter and threads are all    *)
(* called n; its threads may come to work on another start's adapter.      *)
(***************************************************************************)
EXTENDS Integers, FiniteSets

CONSTANTS
  Operators,  \* threads that serve camera requests
  MaxStarts,  \* bound on the starts
  MaxFrames,  \* bound on the frames of a camera
  Scenes      \* what YOLO may find in a frame: sets of [danger, sure]

\* Starts are numbered.
ASSUME CameraAssumption == MaxStarts \in Nat

Starts == 1 .. MaxStarts
NoCamera == 0

VARIABLES
  camera,    \* the global _camera_adapter
  engine,    \* is the global _vision_engine there
  panel,     \* state["camera_ai"]: [enabled, frame, risk]
  made,      \* adapters made
  adapter,   \* each adapter: [running, device, thread, frame, nextId]
  request,   \* each operator's request: [at, start]
  opener,    \* each start's opening thread: [at, on, ok]
  capturer,  \* its capture thread: [at, id]; it works for the opener's adapter
  analyst    \* its analysing thread: [at, on, seen]

cameraVars == <<camera, engine, panel, made, adapter, request, opener, capturer, analyst>>

CameraInit ==
  /\ camera = NoCamera
  /\ engine = FALSE
  /\ panel = [enabled |-> FALSE, frame |-> 0, risk |-> "SAFE"]
  /\ made = 0
  /\ adapter = [a \in Starts |-> [running |-> FALSE, device |-> "none",
                                thread |-> NoCamera, frame |-> -1, nextId |-> 0]]
  /\ request = [o \in Operators |-> [at |-> "idle", start |-> 0]]
  /\ opener = [n \in Starts |-> [at |-> "none", on |-> NoCamera, ok |-> FALSE]]
  /\ capturer = [n \in Starts |-> [at |-> "none", id |-> 0]]
  /\ analyst = [n \in Starts |-> [at |-> "none", on |-> NoCamera, seen |-> -1]]

Moves(o, label) == request' = [request EXCEPT ![o].at = label]

-----------------------------------------------------------------------------
(* POST /api/camera/start *)

MakeAdapter(o) ==
  /\ request[o].at = "idle"
  /\ made < MaxStarts
  /\ made' = made + 1
  /\ camera' = made + 1
  /\ request' = [request EXCEPT ![o] = [at |-> "engine", start |-> made + 1]]
  /\ UNCHANGED <<engine, panel, adapter, opener, capturer, analyst>>

MakeEngine(o) ==
  /\ request[o].at = "engine"
  /\ engine' = TRUE
  /\ Moves(o, "load")
  /\ UNCHANGED <<camera, panel, made, adapter, opener, capturer, analyst>>

\* _vision_engine.start(): the model or the fallback, and then the opening
\* thread.  If a stop has taken the engine away, the request answers an error.
LoadEngine(o) ==
  /\ request[o].at = "load"
  /\ IF engine
     THEN /\ opener' = [opener EXCEPT ![request[o].start].at = "begun"]
          /\ Moves(o, "join")
     ELSE /\ Moves(o, "idle")
          /\ UNCHANGED opener
  /\ UNCHANGED <<camera, engine, panel, made, adapter, capturer, analyst>>

\* starter.join(timeout=8), long enough for the thread to have begun.  Only
\* an opener that ended well leads on.
JoinOpener(o) ==
  LET n == request[o].start IN
  /\ request[o].at = "join"
  /\ opener[n].at # "begun"
  /\ Moves(o, IF opener[n].ok THEN "enable" ELSE "idle")
  /\ UNCHANGED <<camera, engine, panel, made, adapter, opener, capturer, analyst>>

Enable(o) ==
  /\ request[o].at = "enable"
  /\ panel' = [panel EXCEPT !.enabled = TRUE]
  /\ analyst' = [analyst EXCEPT ![request[o].start].at = "begun"]
  /\ Moves(o, "idle")
  /\ UNCHANGED <<camera, engine, made, adapter, opener, capturer>>

-----------------------------------------------------------------------------
(* The opening thread: CameraAdapter.start() of whatever the global holds *)

OpenerBegins(n) ==
  /\ opener[n].at = "begun"
  /\ opener' = [opener EXCEPT
       ![n].at = IF camera = NoCamera THEN "ended" ELSE "open",
       ![n].on = camera]
  /\ UNCHANGED <<camera, engine, panel, made, adapter, request, capturer, analyst>>

\* cv2.VideoCapture(src), which may hang: it opens the device or not.
OpenDevice(n, device) ==
  /\ opener[n].at = "open"
  /\ adapter' = [adapter EXCEPT ![opener[n].on].device = device]
  /\ opener' = [opener EXCEPT ![n].at = "run"]
  /\ UNCHANGED <<camera, engine, panel, made, request, capturer, analyst>>

\* isOpened, set, _running = True and the capture thread.  A stop that has put
\* None in the place of the device makes this fail, as does a closed device.
OpenerRuns(n) ==
  LET a == opener[n].on IN
  /\ opener[n].at = "run"
  /\ opener' = [opener EXCEPT ![n].at = "ended", ![n].ok = adapter[a].device = "open"]
  /\ IF adapter[a].device = "open"
     THEN /\ adapter' = [adapter EXCEPT ![a].running = TRUE, ![a].thread = n]
          /\ capturer' = [capturer EXCEPT ![n].at = "test"]
     ELSE UNCHANGED <<adapter, capturer>>
  /\ UNCHANGED <<camera, engine, panel, made, request, analyst>>

-----------------------------------------------------------------------------
(* The capture thread *)

CaptureTest(n) ==
  /\ capturer[n].at = "test"
  /\ capturer' = [capturer EXCEPT
       ![n].at = IF adapter[opener[n].on].running THEN "read" ELSE "ended"]
  /\ UNCHANGED <<camera, engine, panel, made, adapter, request, opener, analyst>>

\* Faulty variant: after a read that fails, the loop reads again at once.
NoFrameRetries(n) ==
  /\ capturer[n].at = "read"
  /\ adapter[opener[n].on].device # "open"
  /\ UNCHANGED cameraVars

\* A read that fails, or raises because the device is gone: back to the test.
NoFrame(n) ==
  /\ capturer[n].at = "read"
  /\ capturer' = [capturer EXCEPT ![n].at = "test"]
  /\ UNCHANGED <<camera, engine, panel, made, adapter, request, opener, analyst>>

\* A frame is read and numbered, outside the lock ...
ReadFrame(n) ==
  LET a == opener[n].on IN
  /\ capturer[n].at = "read"
  /\ adapter[a].device = "open"
  /\ adapter[a].nextId < MaxFrames
  /\ capturer' = [capturer EXCEPT ![n] = [at |-> "store", id |-> adapter[a].nextId]]
  /\ UNCHANGED <<camera, engine, panel, made, adapter, request, opener, analyst>>

\* Faulty variant: the frame numbers wrap around.
StoreFrameWraps(n) ==
  LET a == opener[n].on IN
  /\ capturer[n].at = "store"
  /\ adapter' = [adapter EXCEPT ![a].frame = capturer[n].id, ![a].nextId = (@ + 1) % MaxFrames]
  /\ capturer' = [capturer EXCEPT ![n] = [at |-> "test", id |-> 0]]
  /\ UNCHANGED <<camera, engine, panel, made, request, opener, analyst>>

\* ... and stored inside it.
StoreFrame(n) ==
  LET a == opener[n].on IN
  /\ capturer[n].at = "store"
  /\ adapter' = [adapter EXCEPT ![a].frame = capturer[n].id, ![a].nextId = @ + 1]
  /\ capturer' = [capturer EXCEPT ![n] = [at |-> "test", id |-> 0]]
  /\ UNCHANGED <<camera, engine, panel, made, request, opener, analyst>>

CaptureStep(n) == CaptureTest(n) \/ NoFrame(n) \/ ReadFrame(n) \/ StoreFrame(n)

-----------------------------------------------------------------------------
(* The analysing thread *)

\* Objects below 0.4 are dropped; one dangerous object makes the scene so.
SceneRisk(scene) ==
  IF [danger |-> TRUE, sure |-> TRUE] \in scene THEN "DANGER"
  ELSE IF [danger |-> FALSE, sure |-> TRUE] \in scene THEN "WARNING"
  ELSE "SAFE"

\* _camera_adapter.stream_frames(), or an AttributeError when it is None.
AnalystBegins(n) ==
  /\ analyst[n].at = "begun"
  /\ analyst' = [analyst EXCEPT
       ![n].at = IF camera = NoCamera THEN "ended" ELSE "stream",
       ![n].on = camera]
  /\ UNCHANGED <<camera, engine, panel, made, adapter, request, opener, capturer>>

\* stream_frames yields a frame that is not the last one seen, and otherwise
\* polls, however long the adapter has been stopped.
NextFrame(n) ==
  LET f == adapter[analyst[n].on].frame IN
  /\ analyst[n].at = "stream"
  /\ f \notin {-1, analyst[n].seen}
  /\ analyst' = [analyst EXCEPT ![n].seen = f, ![n].at = IF panel.enabled THEN "analyse" ELSE "ended"]
  /\ UNCHANGED <<camera, engine, panel, made, adapter, request, opener, capturer>>

\* _vision_engine.analyze(frame), or an AttributeError when it is None.
Analyse(n, scene) ==
  /\ analyst[n].at = "analyse"
  /\ IF engine
     THEN /\ panel' = [panel EXCEPT !.frame = analyst[n].seen, !.risk = SceneRisk(scene)]
          /\ analyst' = [analyst EXCEPT ![n].at = "stream"]
     ELSE /\ analyst' = [analyst EXCEPT ![n].at = "ended"]
          /\ UNCHANGED panel
  /\ UNCHANGED <<camera, engine, made, adapter, request, opener, capturer>>

-----------------------------------------------------------------------------
(* POST /api/camera/stop *)

Disable(o) ==
  /\ request[o].at = "idle"
  /\ made > 0
  /\ panel' = [panel EXCEPT !.enabled = FALSE]
  /\ Moves(o, IF camera = NoCamera THEN "noEngine" ELSE "stop")
  /\ UNCHANGED <<camera, engine, made, adapter, opener, capturer, analyst>>

\* _camera_adapter.stop() reads the global again: it may be None by now, and
\* then the request fails.
StopCamera(o) ==
  /\ request[o].at = "stop"
  /\ IF camera = NoCamera
     THEN /\ Moves(o, "idle")
          /\ UNCHANGED adapter
     ELSE /\ adapter' = [adapter EXCEPT ![camera].running = FALSE]
          /\ request' = [request EXCEPT ![o] = [at |-> "release", start |-> camera]]
  /\ UNCHANGED <<camera, engine, panel, made, opener, capturer, analyst>>

\* join(timeout=3), which only a thread inside read() outlasts; release.
Release(o) ==
  LET a == request[o].start IN
  /\ request[o].at = "release"
  /\ adapter[a].thread # NoCamera => capturer[adapter[a].thread].at \in {"read", "ended"}
  /\ adapter' = [adapter EXCEPT ![a].device = "none"]
  /\ Moves(o, "noCamera")
  /\ UNCHANGED <<camera, engine, panel, made, opener, capturer, analyst>>

ForgetCamera(o) ==
  /\ request[o].at = "noCamera"
  /\ camera' = NoCamera
  /\ Moves(o, "noEngine")
  /\ UNCHANGED <<engine, panel, made, adapter, opener, capturer, analyst>>

ForgetEngine(o) ==
  /\ request[o].at = "noEngine"
  /\ engine' = FALSE
  /\ Moves(o, "idle")
  /\ UNCHANGED <<camera, panel, made, adapter, opener, capturer, analyst>>

CameraNext ==
  \/ \E o \in Operators :
       \/ MakeAdapter(o) \/ MakeEngine(o) \/ LoadEngine(o) \/ JoinOpener(o) \/ Enable(o)
       \/ Disable(o) \/ StopCamera(o) \/ Release(o) \/ ForgetCamera(o) \/ ForgetEngine(o)
  \/ \E n \in Starts :
       \/ OpenerBegins(n) \/ OpenerRuns(n)
       \/ \E device \in {"open", "closed"} : OpenDevice(n, device)
       \/ CaptureStep(n)
       \/ AnalystBegins(n) \/ NextFrame(n)
       \/ \E scene \in Scenes : Analyse(n, scene)

\* Every step of the capture loop is taken in the end: its sleeps are short,
\* exceptions are caught, and the device answers a read.
CameraFairness == \A n \in Starts : WF_cameraVars(CaptureStep(n))

-----------------------------------------------------------------------------
(* Properties *)

CameraTypeOK ==
  /\ camera \in Starts \cup {NoCamera}
  /\ made \in 0 .. MaxStarts
  /\ panel.risk \in {"SAFE", "WARNING", "DANGER"}
  /\ \A a \in Starts :
       /\ adapter[a].frame < adapter[a].nextId
       /\ adapter[a].running => \E n \in Starts : opener[n].on = a /\ opener[n].ok

\* The frames a stream yields come in the order they were captured, unless two
\* threads capture for its adapter: each frame is numbered outside the lock
\* and stored inside it (camera_adapter.py:124-141, 167-178).
FramesInOrder ==
  [][\A n \in Starts :
       analyst'[n].seen >= analyst[n].seen
       \/ Cardinality({m \in Starts : opener[m].on = analyst[n].on}) > 1]_cameraVars

Stopped(n) == opener[n].ok /\ ~adapter[opener[n].on].running

\* An adapter that is not running has no capture thread for long: whatever the
\* device answers, and though stop() waits only 3 s for the thread and takes
\* the device away under it, the thread ends (camera_adapter.py:126, 152-158).
StopEnds ==
  \A n \in Starts : Stopped(n) ~> ~Stopped(n) \/ capturer[n].at = "ended"
=============================================================================
