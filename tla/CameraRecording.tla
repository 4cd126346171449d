---------------------------- MODULE CameraRecording ----------------------------
(***************************************************************************)
(* The video camera of a drone: camera_capture_backend.py and              *)
(* recording_sensor.py of drone_control/sensors, the clean-up of main.py.  *)
(* A photo changes none of this: it goes through the recording's camera,   *)
(* or through one of its own, which cannot be opened while one is held.    *)
(*                                                                         *)
(* One recording is shared by all that have started it and is counted.     *)
(* The commands of the server and the clean-up run on one thread, one      *)
(* after the other, so each is one step.  A recording has the number of    *)
(* its file; the name, a time in seconds, and the data are left out, and   *)
(* so is a metadata file that cannot be written (the code goes on).        *)
(***************************************************************************)
EXTENDS Integers, Sequences, FiniteSets

CONSTANTS
  Drones,
  CameraFails,        \* may Picamera2 fail?
  MaxDrainAttempts    \* 64 in main.py

ASSUME CameraAssumption == CameraFails \in BOOLEAN /\ MaxDrainAttempts \in Nat

VARIABLES
  camera,      \* _CAMERA_STATE["camera"] is set: the device is held
  recording,
  video_path,  \* number of the file, or 0 for None
  ref_count,
  metadata     \* of each file: the status in its .json

cameraVars == <<camera, recording, video_path, ref_count, metadata>>

-----------------------------------------------------------------------------
(* start_video_recording *)

\* Already recording: one more owner.
ShareRecording(d) ==
  /\ recording[d]
  /\ ref_count' = [ref_count EXCEPT ![d] = @ + 1]
  /\ UNCHANGED <<camera, recording, video_path, metadata>>

OpenRecording(d) ==
  /\ ~recording[d]
  /\ camera' = [camera EXCEPT ![d] = TRUE]
  /\ recording' = [recording EXCEPT ![d] = TRUE]
  /\ video_path' = [video_path EXCEPT ![d] = Len(metadata[d]) + 1]
  /\ ref_count' = [ref_count EXCEPT ![d] = 1]
  /\ metadata' = [metadata EXCEPT ![d] = Append(@, "recording")]

Forget(d) == /\ camera' = [camera EXCEPT ![d] = FALSE]
             /\ recording' = [recording EXCEPT ![d] = FALSE]
             /\ video_path' = [video_path EXCEPT ![d] = 0]

\* Slip: the camera that was opened is not released.
OpenRecordingFailsHeld(d) ==
  /\ ~recording[d]
  /\ CameraFails
  /\ camera' = [camera EXCEPT ![d] = TRUE]
  /\ UNCHANGED <<recording, video_path, ref_count, metadata>>

\* Whatever was opened is released; the count is left as it is.
OpenRecordingFails(d) ==
  /\ ~recording[d]
  /\ CameraFails
  /\ Forget(d)
  /\ UNCHANGED <<ref_count, metadata>>

-----------------------------------------------------------------------------
(* stop_video_recording *)

\* Slip: the count goes down although nobody records.
StopIdleCounted(d) ==
  /\ ~camera[d] \/ ref_count[d] = 0
  /\ ref_count' = [ref_count EXCEPT ![d] = @ - 1]
  /\ UNCHANGED <<camera, recording, video_path, metadata>>

\* A stop without a start is no error.
StopIdle(d) ==
  /\ ~camera[d] \/ ref_count[d] = 0
  /\ UNCHANGED cameraVars

StopShared(d) ==
  /\ camera[d] /\ ref_count[d] > 1
  /\ ref_count' = [ref_count EXCEPT ![d] = @ - 1]
  /\ UNCHANGED <<camera, recording, video_path, metadata>>

StopLast(d) ==
  /\ camera[d] /\ ref_count[d] = 1
  /\ ref_count' = [ref_count EXCEPT ![d] = 0]
  /\ metadata' = [metadata EXCEPT ![d][video_path[d]] = "stopped"]
  /\ Forget(d)

StopRecording(d) == StopIdle(d) \/ StopShared(d) \/ StopLast(d)

-----------------------------------------------------------------------------
(* The clean-up at exit *)

\* Slip: one stop, whoever else has started the recording.
DrainOnce(d) ==
  IF ref_count[d] > 1
  THEN StopShared(d)
  ELSE IF ref_count[d] = 1 THEN StopLast(d) ELSE UNCHANGED cameraVars

\* Stops until nobody records, or the attempts are used up.
Drain(d) ==
  IF recording[d] /\ ref_count[d] > MaxDrainAttempts
  THEN /\ ref_count' = [ref_count EXCEPT ![d] = @ - MaxDrainAttempts]
       /\ UNCHANGED <<camera, recording, video_path, metadata>>
  ELSE IF recording[d]
  THEN /\ ref_count' = [ref_count EXCEPT ![d] = 0]
       /\ metadata' = [metadata EXCEPT ![d][video_path[d]] = "stopped"]
       /\ Forget(d)
  ELSE UNCHANGED cameraVars

CameraInit ==
  /\ camera = [d \in Drones |-> FALSE]
  /\ recording = [d \in Drones |-> FALSE]
  /\ video_path = [d \in Drones |-> 0]
  /\ ref_count = [d \in Drones |-> 0]
  /\ metadata = [d \in Drones |-> <<>>]

-----------------------------------------------------------------------------
(* Properties *)

CameraTypeOK ==
  /\ camera \in [Drones -> BOOLEAN]
  /\ recording \in [Drones -> BOOLEAN]
  /\ video_path \in [Drones -> Nat]
  /\ ref_count \in [Drones -> Nat]
  /\ metadata \in [Drones -> Seq({"recording", "stopped"})]

(* The camera is held exactly while somebody's start is not undone by a      *)
(* stop, and while it is held there is one file that is being written:       *)
(* failed starts, stops without a start and the clean-up at exit leave       *)
(* neither a camera nobody can release nor a file nobody closes.             *)
RecordingsAreFinalized ==
  \A d \in Drones :
    /\ camera[d] = recording[d]
    /\ recording[d] <=> ref_count[d] > 0
    /\ \A f \in 1..Len(metadata[d]) :
         metadata[d][f] = "recording" <=> recording[d] /\ video_path[d] = f
=============================================================================
