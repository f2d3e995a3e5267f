-------------------------- MODULE MCCameraFallback --------------------------
(* Instances of CameraFallback for TLC: three devices stand for the five. *)
EXTENDS CameraFallback

CONSTANTS video0, video14, video15

ThreeDevices == <<video0, video14, video15>>
=============================================================================
