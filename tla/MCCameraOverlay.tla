--------------------------- MODULE MCCameraOverlay ---------------------------
(***************************************************************************)
(* An instance of CameraOverlay for TLC.  imx219 and imx477 are among the  *)
(* sensors the script knows, imx708 is not, imx519 has no .dtbo here; the  *)
(* expression also matches a line with parameters.                         *)
(***************************************************************************)
EXTENDS CameraOverlay

Other(v) == [key |-> "other", value |-> v, glued |-> FALSE]
Comment == Other("arm_64bit")
Section == Other("all")

(* Files with and without each kind of line, in an order of every sort. *)
Finished == {<<>>,
             <<Comment, Section>>,
             <<AutoDetect("1"), KMS, Comment>>,
             <<Comment, Overlay("imx219,cam0"), Overlay("imx708"), AutoDetect("0"), Section>>,
             <<Overlay("imx477"), AutoDetect("1"), Comment, Overlay("imx477"), AutoDetect("1")>>}

(* Files with each kind of line last and no newline after it. *)
Unfinished == {<<Section, Comment>>,
               <<KMS, AutoDetect("1"), Comment>>,
               <<Overlay("imx219"), Comment, AutoDetect("1")>>,
               <<AutoDetect("1"), Comment, Overlay("imx477")>>,
               <<Comment, Overlay("imx477")>>,
               <<Overlay("imx708"), KMS>>}

Files == [lines : Finished, newline : {TRUE}] \cup [lines : Unfinished, newline : {FALSE}]
=============================================================================
