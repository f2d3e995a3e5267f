--------------------------- MODULE CameraOverlay ---------------------------
(***************************************************************************)
(* The scripts that edit the boot configuration config.txt:                *)
(* configure_camera_overlay.sh, repair_camera_stack.sh, and                *)
(* fix_imx219_camera.sh, which runs the second and then the first.  They   *)
(* may be run again and again, and any run may end at any of its commands: *)
(* a command fails (set -e), the user interrupts it, the power goes.       *)
(*                                                                         *)
(* A line is a key with a value and keeps the number it was written with:  *)
(* a file is a function from the numbers of its lines, in their order, and *)
(* sed's d leaves a gap.  sed -i replaces the file as a whole, and tee -a  *)
(* appends in one write.  What it appends is a line of its own only if the *)
(* file ended in a newline: otherwise it is stuck to the last line, which  *)
(* still matches what it matched, as sed and grep look at its beginning.   *)
(* A backup is named by the second in which it is made; a run starts in a  *)
(* second of its own, but the two backups of fix_imx219_camera.sh may fall *)
(* into one.                                                               *)
(***************************************************************************)
EXTENDS Functions, Sequences, Integers

CONSTANTS Sensors,   \* the arguments configure_camera_overlay.sh may be given
          Available, \* the sensors that have a .dtbo file
          Listed,    \* the overlays the script's sed expression matches
          Values,    \* the values of lines
          Configs,   \* what config.txt may be at first
          MaxRuns    \* bound on the runs of scripts

Lines == [key : {"camera_auto_detect", "dtoverlay", "other"}, value : Values,
          glued : BOOLEAN]  \* whether other text is stuck to its end

Whole(line) == ~line.glued

ASSUME OverlayAssumption ==
    /\ Available \subseteq Sensors /\ "imx219" \in Sensors /\ MaxRuns \in Nat
    /\ {"0", "1", "vc4-kms-v3d"} \cup Sensors \subseteq Values
    /\ Configs \subseteq [lines : Seq({line \in Lines : Whole(line)}), newline : BOOLEAN]
    /\ \A f \in Configs : f.lines = <<>> => f.newline

VARIABLES config,    \* the lines of config.txt
          end,       \* the number of the line written to it last
          newline,   \* whether it is empty or ends in a newline
          original,  \* the file before the first run
          stuck,     \* whether a line of this script was stuck to another
          script,    \* the script being run
          step,      \* the command it comes to
          sensor,    \* SENSOR
          result,    \* what the run has completed: "repaired", "configured" or "none"
          runs,      \* number of runs so far
          backups    \* the backups, in the order of their names

file == <<config, end, newline>>
fixed == <<original, sensor, runs>>
vars == <<file, fixed, stuck, script, step, result, backups>>

Scripts == {"repair", "configure", "fix"}

AutoDetect(v) == [key |-> "camera_auto_detect", value |-> v, glued |-> FALSE]

Overlay(s) == [key |-> "dtoverlay", value |-> s, glued |-> FALSE]

(* With or without parameters. *)
KMS == Overlay("vc4-kms-v3d")

Glue(line) == [line EXCEPT !.glued = TRUE]

IsAuto(line) == line.key = "camera_auto_detect"
IsListed(line) == line.key = "dtoverlay" /\ line.value \in Listed
IsOther(line) == ~IsAuto(line) /\ line.key # "dtoverlay"

Init == /\ original \in Configs /\ config = original.lines /\ end = Len(config)
        /\ newline = original.newline /\ stuck = FALSE
        /\ script = "none" /\ step = "none" /\ sensor = "imx219"
        /\ result = "none" /\ runs = 0 /\ backups = <<>>

Goto(from, to) == step = from /\ step' = to

-----------------------------------------------------------------------------
Run(s, x) == /\ script = "none" /\ runs < MaxRuns
             /\ script' = s /\ runs' = runs + 1
             /\ sensor' = IF s = "configure" THEN x ELSE "imx219"
             /\ step' = IF s = "configure" THEN "check" ELSE "install"
             /\ result' = "none"
             /\ UNCHANGED <<file, original, stuck, backups>>

(* Mutant: all backups have one name. *)
BackupOver(lines) == backups' = <<lines>>

(* cp writes lines: to a new file, or over the backup that the first script  *)
(* of fix_imx219_camera.sh has made in the same second.                      *)
Backup(lines) == \/ backups' = Append(backups, lines)
                 \/ /\ result = "repaired"
                    /\ backups' = [backups EXCEPT ![Len(backups)] = lines]

(* Any command fails, or the script is interrupted; a cp may be cut off. *)
Abort == /\ script # "none"
         /\ \/ UNCHANGED backups
            \/ /\ step \in {"install", "check"}
               /\ \E n \in 0..end : Backup(Restrict(config, {i \in DOMAIN config : i <= n}))
         /\ script' = "none" /\ step' = "none"
         /\ UNCHANGED <<file, stuck, result, fixed>>

(* apt, usermod and the backup; without config.txt the rest is skipped. *)
Install == /\ Goto("install", "auto")
           /\ Backup(config)
           /\ stuck' = FALSE
           /\ UNCHANGED <<file, script, result, fixed>>

(* The overlay must exist; then the backup is made. *)
CheckOverlay == /\ Goto("check", "auto") /\ sensor \in Available
                /\ script' = "configure"
                /\ Backup(config)
                /\ stuck' = FALSE
                /\ UNCHANGED <<file, result, fixed>>

NewLine(line) == /\ newline
                 /\ end' = end + 1
                 /\ config' = [n \in DOMAIN config \cup {end + 1} |->
                                  IF n = end + 1 THEN line ELSE config[n]]
                 /\ UNCHANGED <<newline, stuck>>

(* The text goes to the end of the unfinished last line. *)
StickToLast == /\ ~newline
               /\ config' = [config EXCEPT ![end] = Glue(@)]
               /\ newline' = TRUE /\ stuck' = TRUE
               /\ UNCHANGED end

AppendLine(line) == NewLine(line) \/ StickToLast

SetAutoDetect(v) ==
    IF \E n \in DOMAIN config : IsAuto(config[n])
    THEN /\ config' = [n \in DOMAIN config |->
                          IF IsAuto(config[n]) THEN AutoDetect(v) ELSE config[n]]
         /\ UNCHANGED <<end, newline, stuck>>
    ELSE AppendLine(AutoDetect(v))

ForceAutoDetect == /\ \/ script = "configure" /\ Goto("auto", "delete") /\ SetAutoDetect("0")
                      \/ script # "configure" /\ Goto("auto", "kms") /\ SetAutoDetect("1")
                   /\ UNCHANGED <<script, result, fixed, backups>>

(* repair_camera_stack.sh ends here; fix_imx219_camera.sh goes on. *)
EnsureKMS == /\ step = "kms"
             /\ IF \E n \in DOMAIN config : config[n] \in {KMS, Glue(KMS)}
                THEN UNCHANGED <<file, stuck>>
                ELSE AppendLine(KMS)
             /\ result' = "repaired"
             /\ script' = IF script = "fix" THEN "configure" ELSE "none"
             /\ step' = IF script = "fix" THEN "check" ELSE "none"
             /\ UNCHANGED <<fixed, backups>>

(* Keeps the lines whose numbers are in S; a newline is missing after the    *)
(* last line only if that is kept.                                           *)
Keep(S) == /\ Goto("delete", "append")
           /\ config' = Restrict(config, S)
           /\ newline' = (newline \/ end \notin S)
           /\ UNCHANGED <<end, stuck, script, result, fixed, backups>>

(* Mutants: only the overlay being configured is deleted; or all of them. *)
DeleteSame == Keep({n \in DOMAIN config : config[n] # Overlay(sensor)})
DeleteByKey == Keep({n \in DOMAIN config : IsOther(config[n])})

DeleteListed == Keep({n \in DOMAIN config : ~IsListed(config[n])})

AppendOverlay == /\ Goto("append", "none")
                 /\ AppendLine(Overlay(sensor))
                 /\ result' = "configured" /\ script' = "none"
                 /\ UNCHANGED <<fixed, backups>>

Next == \/ \E s \in Scripts, x \in Sensors : Run(s, x)
        \/ Abort
        \/ Install \/ CheckOverlay
        \/ ForceAutoDetect \/ EnsureKMS \/ DeleteListed \/ AppendOverlay

Spec == Init /\ [][Next]_vars

-----------------------------------------------------------------------------
(* What configure_camera_overlay.sh is for: of the overlays it knows only    *)
(* the sensor's own is there, once, as the last line, and auto detection is  *)
(* off wherever it is mentioned (configure_camera_overlay.sh:50-57).         *)
Right == /\ {n \in DOMAIN config : IsListed(config[n])}
              = IF sensor \in Listed THEN {end} ELSE {}
         /\ end \in DOMAIN config /\ config[end] = Overlay(sensor)
         /\ \A n \in DOMAIN config : n <= end
         /\ AutoDetect("0") \in Range(config)
         /\ \A n \in DOMAIN config : IsAuto(config[n]) => config[n] = AutoDetect("0")

(* After any history of interrupted and repeated runs a completed            *)
(* configuration is right, unless it was the one that found a config.txt     *)
(* without a newline at its end and had its text stuck to the last line; the *)
(* file ends in a newline then, and the next completed run makes it right.   *)
ConfiguredRight == result = "configured" => newline /\ (stuck \/ Right)

(* Whether lines still have the original line n, or the last one of a file   *)
(* without a newline at its end with text stuck to it; new lines come after. *)
Has(lines, n) ==
    /\ n \in DOMAIN lines
    /\ \/ lines[n] = original.lines[n]
       \/ /\ lines[n] = Glue(original.lines[n])
          /\ n = Len(original.lines) /\ ~original.newline

Originals == DOMAIN original.lines

(* Wherever a run is cut off, the lines that are none of the scripts'        *)
(* business are all there in their order, overlays of other devices among    *)
(* them, nothing but overlays and camera_auto_detect is new, and text is     *)
(* stuck to no line but the last of a file that did not end in a newline     *)
(* (configure_camera_overlay.sh:50-57, repair_camera_stack.sh:24-32).        *)
OthersKept ==
    /\ \A n \in Originals :
          IsAuto(original.lines[n]) \/ IsListed(original.lines[n]) \/ Has(config, n)
    /\ \A n \in DOMAIN config :
          /\ IsOther(config[n]) => n \in Originals
          /\ Whole(config[n]) \/ (n = Len(original.lines) /\ ~original.newline)

HasAll(lines) == \A n \in Originals : IsAuto(original.lines[n]) \/ Has(lines, n)

(* Wherever the scripts are cut off, in a cp or after it, config.txt or one  *)
(* of the backups still has every line of the original file in its order but *)
(* for the camera_auto_detect ones; those an overwritten backup may lose, as *)
(* it may have text stuck to a last line that had no newline                 *)
(* (configure_camera_overlay.sh:47, repair_camera_stack.sh:22).              *)
OriginalRecoverable == \E lines \in {config} \cup Range(backups) : HasAll(lines)
=============================================================================
