----------------------- MODULE CameraOverlay_proofs -----------------------
(***************************************************************************)
(* What the set-up scripts make of config.txt, for every file they may     *)
(* find, every set of sensors and any number of runs.                      *)
(***************************************************************************)
EXTENDS CameraOverlay, TLAPS

Contents == UNION {[D -> Lines] : D \in SUBSET Nat}

(* Types, and the numbers of lines: those of the original file come first.   *)
(* Without a newline at its end the file still ends with its original last   *)
(* line.                                                                     *)
FileOK ==
    /\ end \in Nat /\ newline \in BOOLEAN /\ stuck \in BOOLEAN
    /\ config \in [DOMAIN config -> Lines] /\ DOMAIN config \subseteq 1..end
    /\ original.lines \in Seq(Lines) /\ Originals \subseteq 1..end
    /\ ~newline => /\ end \in DOMAIN config
                   /\ end = Len(original.lines) /\ ~original.newline

OverlayTypeOK == FileOK /\ backups \in Seq(Contents) /\ sensor \in Sensors

(* Where a run of each script can be. *)
Phases ==
    /\ script \in Scripts \cup {"none"}
    /\ step \in {"none", "install", "check", "auto", "kms", "delete", "append"}
    /\ script = "none" <=> step = "none"
    /\ step \in {"delete", "append"} => script = "configure"
    /\ step \in {"install", "kms"} => script # "configure"
    /\ script \in {"repair", "fix"} => result = "none"
    /\ result = "configured" => script = "none"

(* What the edits made so far have established, if they came to lines of     *)
(* their own.                                                                *)
AutoOff == /\ AutoDetect("0") \in Range(config)
           /\ \A n \in DOMAIN config : IsAuto(config[n]) => config[n] = AutoDetect("0")

Edited == /\ step \in {"delete", "append"} => stuck \/ AutoOff
          /\ step = "append" => \A n \in DOMAIN config : ~IsListed(config[n])

(* The last backup may be overwritten; a backup before it may not. *)
Older == /\ Len(backups) >= 1
         /\ HasAll(config) \/ \E i \in 1..(Len(backups) - 1) : HasAll(backups[i])

(* Nothing is deleted before there is a backup that is not overwritten any   *)
(* more.                                                                     *)
BackedUp ==
    /\ HasAll(config) \/ \E i \in 1..Len(backups) : HasAll(backups[i])
    /\ script # "configure" /\ step \in {"auto", "kms"} => Older
    /\ step = "check" /\ result = "repaired" => Older
    /\ script = "configure" /\ step \in {"auto", "delete", "append"}
         => \E i \in 1..Len(backups) : HasAll(backups[i])

IInv == /\ OverlayTypeOK /\ Phases /\ Edited /\ BackedUp
        /\ ConfiguredRight /\ OthersKept

-----------------------------------------------------------------------------
(* Records of the two keys. *)
LEMMA KindsOfLines ==
    /\ \A v : IsAuto(AutoDetect(v)) /\ ~IsListed(AutoDetect(v)) /\ ~IsOther(AutoDetect(v))
    /\ \A s : ~IsAuto(Overlay(s)) /\ ~IsOther(Overlay(s)) /\ (IsListed(Overlay(s)) <=> s \in Listed)
    /\ \A line : ~(IsAuto(line) /\ IsListed(line))
  BY DEF IsAuto, IsListed, IsOther, AutoDetect, Overlay

(* What a line is does not depend on what is stuck to it. *)
LEMMA GluedLines ==
    \A line \in Lines :
        /\ Glue(line) \in Lines /\ Glue(Glue(line)) = Glue(line)
        /\ IsAuto(Glue(line)) <=> IsAuto(line)
        /\ IsListed(Glue(line)) <=> IsListed(line)
        /\ IsOther(Glue(line)) <=> IsOther(line)
  BY DEF Glue, Lines, IsAuto, IsListed, IsOther

(* tee -a to a file that ends in a newline: a new line after all others.     *)
LEMMA Appended ==
    ASSUME FileOK, NEW line \in Lines, NewLine(line), UNCHANGED original
    PROVE  /\ FileOK' /\ newline' /\ end' \notin DOMAIN config
           /\ DOMAIN config' = DOMAIN config \cup {end'}
           /\ config'[end'] = line
           /\ \A n \in DOMAIN config : config'[n] = config[n]
  BY DEF FileOK, Originals, NewLine

(* tee -a to any other file: the last line, an original one, gets longer.    *)
LEMMA Stuck ==
    ASSUME FileOK, StickToLast, UNCHANGED original
    PROVE  /\ FileOK' /\ newline' /\ stuck'
           /\ end' = end /\ end \in DOMAIN config
           /\ DOMAIN config' = DOMAIN config
           /\ config'[end] = Glue(config[end]) /\ config[end] \in Lines
           /\ \A n \in DOMAIN config : n # end => config'[n] = config[n]
           /\ end = Len(original.lines) /\ ~original.newline
<1>1. /\ end \in DOMAIN config /\ config[end] \in Lines
      /\ config' = [config EXCEPT ![end] = Glue(config[end])]
      /\ newline' = TRUE /\ stuck' = TRUE /\ end' = end
      /\ end = Len(original.lines) /\ ~original.newline
  BY DEF FileOK, StickToLast
<1>2. Glue(config[end]) \in Lines
  BY <1>1, GluedLines
<1>3. DOMAIN config' = DOMAIN config /\ config' \in [DOMAIN config -> Lines]
  BY <1>1, <1>2 DEF FileOK
<1>4. FileOK'
  BY <1>1, <1>3 DEF FileOK, Originals
<1> QED
  BY <1>1, <1>3, <1>4 DEF FileOK

(* Either way nothing is lost. *)
LEMMA AppendKeeps ==
    ASSUME FileOK, OthersKept, NEW line \in Lines, AppendLine(line),
           ~IsOther(line), Whole(line), UNCHANGED original
    PROVE  /\ FileOK' /\ newline'
           /\ OthersKept' /\ (HasAll(config) => HasAll(config)')
<1>1. CASE NewLine(line)
  BY <1>1, Appended DEF OthersKept, HasAll, Has, Originals
<1>2. CASE StickToLast
  <2>1. ASSUME NEW n \in Originals, Has(config, n) PROVE Has(config, n)'
    <3>1. CASE n # end
      BY <1>2, <2>1, <3>1, Stuck DEF Has
    <3>2. CASE n = end
      <4>1. original.lines[n] \in Lines
        BY DEF FileOK, Originals
      <4>2. config'[n] = Glue(original.lines[n]) /\ n \in DOMAIN config'
        BY <1>2, <2>1, <3>2, <4>1, GluedLines, Stuck DEF Has
      <4> QED
        BY <1>2, <3>2, <4>2, Stuck DEF Has
    <3> QED
      BY <3>1, <3>2
  <2>2. ASSUME NEW n \in DOMAIN config'
        PROVE  /\ IsOther(config'[n]) => n \in Originals
               /\ Whole(config'[n]) \/ (n = Len(original.lines) /\ ~original.newline)
    <3>1. CASE n # end
      BY <1>2, <2>2, <3>1, Stuck DEF OthersKept
    <3>2. CASE n = end
      BY <1>2, <2>2, <3>2, GluedLines, Stuck DEF OthersKept
    <3> QED
      BY <3>1, <3>2
  <2>3. OthersKept'
    BY <2>1, <2>2 DEF OthersKept, Originals
  <2>4. HasAll(config) => HasAll(config)'
    BY <2>1 DEF HasAll, Originals
  <2> QED
    BY <1>2, <2>3, <2>4, Stuck
<1> QED
  BY <1>1, <1>2 DEF AppendLine

(* The values given to camera_auto_detect are the only ones of it, if they   *)
(* came to a line of their own.                                              *)
LEMMA SetsAutoDetect ==
    ASSUME FileOK, OthersKept, NEW v \in {"0", "1"}, SetAutoDetect(v), UNCHANGED original
    PROVE  /\ FileOK' /\ OthersKept' /\ (HasAll(config) => HasAll(config)')
           /\ \/ stuck'
              \/ /\ AutoDetect(v) \in Range(config')
                 /\ \A n \in DOMAIN config' : IsAuto(config'[n]) => config'[n] = AutoDetect(v)
<1>1. AutoDetect(v) \in Lines /\ Whole(AutoDetect(v)) /\ ~IsOther(AutoDetect(v))
  BY OverlayAssumption DEF AutoDetect, Lines, Whole, IsOther, IsAuto
<1>2. CASE \E n \in DOMAIN config : IsAuto(config[n])
  <2>1. /\ config' = [n \in DOMAIN config |->
                        IF IsAuto(config[n]) THEN AutoDetect(v) ELSE config[n]]
        /\ end' = end /\ newline' = newline /\ stuck' = stuck
    BY <1>2 DEF SetAutoDetect
  <2>2. FileOK'
    BY <1>1, <2>1 DEF FileOK, Originals
  <2>3. AutoDetect(v) \in Range(config')
    BY <1>2, <2>1 DEF Range
  <2>4. \A n \in DOMAIN config' : IsAuto(config'[n]) => config'[n] = AutoDetect(v)
    BY <2>1
  <2>5. ASSUME NEW n \in Originals, Has(config, n), ~IsAuto(original.lines[n])
        PROVE  Has(config, n)'
    <3>1. ~IsAuto(config[n])
      BY <2>5, GluedLines DEF Has, FileOK, Originals
    <3> QED
      BY <2>1, <2>5, <3>1 DEF Has
  <2>6. HasAll(config) => HasAll(config)'
    BY <2>5 DEF HasAll, Originals
  <2>7. ASSUME NEW n \in DOMAIN config'
        PROVE  /\ n \in DOMAIN config
               /\ IsOther(config'[n]) => IsOther(config[n])
               /\ Whole(config[n]) => Whole(config'[n])
    BY <1>1, <2>1, <2>7
  <2>8. OthersKept'
    <3>1. \A n \in DOMAIN config' :
            /\ IsOther(config'[n]) => n \in Originals
            /\ Whole(config'[n]) \/ (n = Len(original.lines) /\ ~original.newline)
      BY <2>7 DEF OthersKept
    <3> QED
      BY <2>5, <3>1 DEF OthersKept, Originals
  <2> QED
    BY <2>2, <2>3, <2>4, <2>6, <2>8
<1>3. CASE ~\E n \in DOMAIN config : IsAuto(config[n])
  <2>1. AppendLine(AutoDetect(v))
    BY <1>3 DEF SetAutoDetect
  <2>2. FileOK' /\ OthersKept' /\ (HasAll(config) => HasAll(config)')
    BY <1>1, <2>1, AppendKeeps
  <2>3. CASE NewLine(AutoDetect(v))
    <3>1. \A n \in DOMAIN config' : IsAuto(config'[n]) => config'[n] = AutoDetect(v)
      BY <1>1, <1>3, <2>3, Appended
    <3>2. AutoDetect(v) \in Range(config')
      BY <1>1, <2>3, Appended DEF Range
    <3> QED
      BY <2>2, <3>1, <3>2
  <2>4. CASE StickToLast
    BY <2>2, <2>4, Stuck
  <2> QED
    BY <2>1, <2>3, <2>4 DEF AppendLine
<1> QED
  BY <1>2, <1>3

(* cp: all backups but perhaps the last one stay, and the last is new. *)
LEMMA BackupKeeps ==
    ASSUME backups \in Seq(Contents), NEW lines \in Contents, Backup(lines),
           result = "repaired" => Len(backups) >= 1
    PROVE  /\ backups' \in Seq(Contents) /\ Len(backups') >= 1
           /\ backups'[Len(backups')] = lines
           /\ \A i \in 1..(Len(backups) - 1) : i \in 1..Len(backups') /\ backups'[i] = backups[i]
           /\ result # "repaired" =>
                \A i \in 1..Len(backups) : i \in 1..(Len(backups') - 1) /\ backups'[i] = backups[i]
  BY DEF Backup

(* The part of config.txt that a cp has written before it was cut off. *)
LEMMA CopiesAreContents ==
    ASSUME OverlayTypeOK
    PROVE  /\ config \in Contents
           /\ \A n : Restrict(config, {i \in DOMAIN config : i <= n}) \in Contents
<1>1. config \in Contents
  BY DEF OverlayTypeOK, FileOK, Contents
<1>2. ASSUME NEW S \in SUBSET DOMAIN config PROVE Restrict(config, S) \in Contents
  <2>1. Restrict(config, S) \in [S -> Lines] /\ S \in SUBSET Nat
    BY DEF OverlayTypeOK, FileOK, Restrict
  <2> QED
    BY <2>1 DEF Contents
<1> QED
  BY <1>1, <1>2

-----------------------------------------------------------------------------
LEMMA OverlayInit == Init => IInv
<1> SUFFICES ASSUME Init PROVE IInv
  OBVIOUS
<1>1. /\ original.lines \in Seq(Lines) /\ original.newline \in BOOLEAN
      /\ original.lines = <<>> => original.newline
      /\ \A n \in DOMAIN original.lines : Whole(original.lines[n])
      /\ config = original.lines /\ end = Len(config) /\ newline = original.newline
      /\ stuck = FALSE
  <2>1. /\ original \in [lines : Seq({line \in Lines : Whole(line)}), newline : BOOLEAN]
        /\ original.lines = <<>> => original.newline
    BY OverlayAssumption DEF Init
  <2>2. original.lines \in Seq({line \in Lines : Whole(line)})
    BY <2>1
  <2>3. /\ original.lines \in Seq(Lines)
        /\ \A n \in DOMAIN original.lines : Whole(original.lines[n])
    BY <2>2
  <2> QED
    BY <2>1, <2>3 DEF Init
<1>2. OverlayTypeOK
  <2>1. backups \in Seq(Contents) /\ sensor \in Sensors
    BY OverlayAssumption DEF Init
  <2>2. ~newline => end \in DOMAIN config
    BY <1>1
  <2>3. /\ config \in [DOMAIN config -> Lines] /\ DOMAIN config = 1..end
        /\ end \in Nat
    BY <1>1
  <2>4. FileOK
    BY <1>1, <2>2, <2>3 DEF FileOK, Originals
  <2> QED
    BY <2>1, <2>4 DEF OverlayTypeOK
<1>3. HasAll(config) /\ OthersKept
  BY <1>1 DEF HasAll, OthersKept, Has, Originals
<1> QED
  BY <1>2, <1>3 DEF Init, IInv, Phases, Edited, BackedUp, ConfiguredRight, Scripts

(* Steps that leave config.txt alone leave its original lines there. *)
LEMMA FileKept ==
    ASSUME UNCHANGED <<file, original>>
    PROVE  /\ OthersKept => OthersKept'
           /\ HasAll(config)' <=> HasAll(config)
           /\ AutoOff' <=> AutoOff
           /\ stuck' \in BOOLEAN /\ FileOK => FileOK'
           /\ Right /\ UNCHANGED sensor => Right'
  BY DEF file, OthersKept, HasAll, Has, Originals, AutoOff, FileOK, Right

LEMMA RunStep ==
    ASSUME IInv, NEW s \in Scripts, NEW x \in Sensors, Run(s, x) PROVE IInv'
<1>1. /\ script = "none" /\ script' = s /\ result' = "none"
      /\ sensor' \in Sensors
      /\ step' = IF s = "configure" THEN "check" ELSE "install"
      /\ UNCHANGED <<file, original, stuck, backups>> /\ UNCHANGED <<file, original>>
      /\ UNCHANGED config
  BY OverlayAssumption DEF Run, file
<1>2. OverlayTypeOK'
  BY <1>1, FileKept DEF IInv, OverlayTypeOK, FileOK
<1>3. Phases' /\ Edited' /\ ConfiguredRight'
  BY <1>1 DEF Phases, Edited, ConfiguredRight, Scripts
<1>4. BackedUp'
  BY <1>1, FileKept DEF IInv, BackedUp, HasAll, Has, Originals
<1>5. OthersKept'
  BY <1>1, FileKept DEF IInv
<1> QED
  BY <1>2, <1>3, <1>4, <1>5 DEF IInv

(* The end of a run at any command; what a cut-off cp overwrites is not the  *)
(* only copy.                                                                *)
LEMMA AbortStep == ASSUME IInv, Abort PROVE IInv'
<1>1. /\ script # "none" /\ script' = "none" /\ step' = "none"
      /\ UNCHANGED <<file, original>> /\ UNCHANGED <<config, newline, stuck, original, sensor, result>>
  BY DEF Abort, file, fixed
<1>2. \/ UNCHANGED backups
      \/ /\ step \in {"install", "check"}
         /\ \E lines \in Contents : Backup(lines)
  BY CopiesAreContents DEF Abort, IInv
<1>3. result = "repaired" /\ step \in {"install", "check"} => Older
  BY DEF IInv, Phases, BackedUp, Scripts
<1>4. backups' \in Seq(Contents) /\ (HasAll(config) \/ \E i \in 1..Len(backups) : HasAll(backups[i]))'
  <2>1. CASE UNCHANGED backups
    BY <1>1, <2>1 DEF IInv, OverlayTypeOK, BackedUp, HasAll, Has, Originals
  <2>2. CASE step \in {"install", "check"} /\ \E lines \in Contents : Backup(lines)
    <3>1. PICK lines \in Contents : Backup(lines)
      BY <2>2
    <3>2. result = "repaired" => Len(backups) >= 1
      BY <1>3, <2>2 DEF Older
    <3>3. backups \in Seq(Contents)
      BY DEF IInv, OverlayTypeOK
    <3>4. CASE HasAll(config)
      BY <1>1, <3>1, <3>2, <3>3, <3>4, BackupKeeps, FileKept
    <3>5. CASE ~HasAll(config)
      <4>1. PICK i \in 1..Len(backups) :
              HasAll(backups[i]) /\ (result = "repaired" => i \in 1..(Len(backups) - 1))
        BY <1>3, <2>2, <3>3, <3>5 DEF IInv, BackedUp, Older
      <4>2. i \in 1..Len(backups') /\ backups'[i] = backups[i]
        BY <3>1, <3>2, <3>3, <4>1, BackupKeeps
      <4>3. HasAll(backups[i])'
        BY <1>1, <4>1, <4>2 DEF HasAll, Has, Originals
      <4>4. backups' \in Seq(Contents)
        BY <3>1, <3>2, <3>3, BackupKeeps
      <4> QED
        BY <4>2, <4>3, <4>4
    <3> QED
      BY <3>4, <3>5
  <2> QED
    BY <1>2, <2>1, <2>2
<1>5. OverlayTypeOK'
  BY <1>1, <1>4, FileKept DEF IInv, OverlayTypeOK, FileOK
<1>6. Phases' /\ Edited'
  BY <1>1 DEF Phases, Edited, Scripts
<1>7. BackedUp'
  BY <1>1, <1>4 DEF BackedUp
<1>8. ConfiguredRight' /\ OthersKept'
  BY <1>1, FileKept DEF IInv, ConfiguredRight
<1> QED
  BY <1>5, <1>6, <1>7, <1>8 DEF IInv

(* A complete backup: from here on something may be deleted. *)
LEMMA BackupSteps == ASSUME IInv, Install \/ CheckOverlay PROVE IInv'
<1>1. /\ step' = "auto" /\ Backup(config)
      /\ UNCHANGED <<file, original>> /\ UNCHANGED <<config, original, sensor, result>>
      /\ stuck' = FALSE
  BY DEF Install, CheckOverlay, Goto, file, fixed
<1>2. \/ step = "install" /\ script # "configure" /\ script' = script /\ script # "none"
      \/ step = "check" /\ script' = "configure" /\ script # "none"
  BY DEF Install, CheckOverlay, Goto, IInv, Phases
<1>3. result = "repaired" => Older
  BY <1>2 DEF IInv, Phases, BackedUp, Scripts
<1>4. /\ backups \in Seq(Contents) /\ config \in Contents
      /\ result = "repaired" => Len(backups) >= 1
  BY <1>3, CopiesAreContents DEF IInv, OverlayTypeOK, Older
<1>5. /\ backups' \in Seq(Contents) /\ Len(backups') >= 1 /\ Len(backups') \in Nat
      /\ backups'[Len(backups')] = config
  BY <1>1, <1>4, BackupKeeps
<1>6. HasAll(config) \/ \E i \in 1..Len(backups) :
                           HasAll(backups[i]) /\ (result = "repaired" => i \in 1..(Len(backups) - 1))
  BY <1>3, <1>4 DEF IInv, BackedUp, Older
<1>7. HasAll(config)' \/ \E i \in 1..Len(backups') :
        HasAll(backups[i])' /\ (result # "repaired" => i \in 1..(Len(backups') - 1))
  <2>1. CASE HasAll(config)
    BY <1>1, <2>1, FileKept
  <2>2. CASE ~HasAll(config)
    <3>1. PICK i \in 1..Len(backups) :
            HasAll(backups[i]) /\ (result = "repaired" => i \in 1..(Len(backups) - 1))
      BY <1>6, <2>2
    <3>2. /\ i \in 1..Len(backups') /\ backups'[i] = backups[i]
          /\ result # "repaired" => i \in 1..(Len(backups') - 1)
      BY <1>1, <1>4, <1>5, <3>1, BackupKeeps
    <3>3. HasAll(backups[i])'
      BY <1>1, <3>1, <3>2 DEF HasAll, Has, Originals
    <3> QED
      BY <3>2, <3>3
  <2> QED
    BY <2>1, <2>2
<1>8. HasAll(config)' => HasAll(backups[Len(backups)])' /\ Len(backups') \in 1..Len(backups')
  BY <1>1, <1>5 DEF HasAll, Has, Originals
<1>9. (\E i \in 1..Len(backups) : HasAll(backups[i]))'
  BY <1>7, <1>8
<1>10. result # "repaired" => Older'
  BY <1>5, <1>7 DEF Older
<1>11. script' # "configure" => result' # "repaired"
  BY <1>1, <1>2 DEF IInv, Phases, Scripts
<1>12. BackedUp'
  BY <1>1, <1>9, <1>10, <1>11 DEF BackedUp
<1>13. OverlayTypeOK'
  BY <1>1, <1>5, FileKept DEF IInv, OverlayTypeOK
<1>14. Phases' /\ Edited' /\ ConfiguredRight'
  BY <1>1, <1>2 DEF IInv, Phases, Edited, ConfiguredRight, Scripts
<1>15. OthersKept'
  BY <1>1, FileKept DEF IInv
<1> QED
  BY <1>12, <1>13, <1>14, <1>15 DEF IInv

(* Edits that delete nothing keep what the backups are worth. *)
LEMMA SafeEdit ==
    ASSUME IInv, UNCHANGED <<original, backups>>, HasAll(config) => HasAll(config)'
    PROVE  /\ Older => Older'
           /\ (HasAll(config) \/ \E i \in 1..Len(backups) : HasAll(backups[i]))'
           /\ (\E i \in 1..Len(backups) : HasAll(backups[i]))
                => (\E i \in 1..Len(backups) : HasAll(backups[i]))'
<1>1. \A i : HasAll(backups[i])' <=> HasAll(backups[i])
  BY DEF HasAll, Has, Originals
<1> QED
  BY <1>1 DEF IInv, BackedUp, Older

LEMMA AutoDetectStep == ASSUME IInv, ForceAutoDetect PROVE IInv'
<1>1. /\ step = "auto" /\ script' = script /\ script # "none"
      /\ UNCHANGED <<original, sensor, result, backups>>
      /\ result # "configured"
  BY DEF ForceAutoDetect, Goto, fixed, IInv, Phases
<1>2. \/ script = "configure" /\ step' = "delete" /\ SetAutoDetect("0")
      \/ script # "configure" /\ step' = "kms" /\ SetAutoDetect("1")
  BY DEF ForceAutoDetect, Goto
<1>3. PICK v \in {"0", "1"} : SetAutoDetect(v) /\ (script = "configure" => v = "0")
  BY <1>2
<1>4. FileOK /\ OthersKept
  BY DEF IInv, OverlayTypeOK
<1>5. /\ FileOK' /\ OthersKept' /\ (HasAll(config) => HasAll(config)')
      /\ \/ stuck'
         \/ /\ AutoDetect(v) \in Range(config')
            /\ \A n \in DOMAIN config' : IsAuto(config'[n]) => config'[n] = AutoDetect(v)
  BY <1>1, <1>3, <1>4, SetsAutoDetect
<1>6. OverlayTypeOK'
  BY <1>1, <1>5 DEF IInv, OverlayTypeOK
<1>7. script = "configure" => stuck' \/ AutoOff'
  BY <1>3, <1>5 DEF AutoOff
<1>8. Phases' /\ Edited' /\ ConfiguredRight'
  BY <1>1, <1>2, <1>7 DEF IInv, Phases, Edited, ConfiguredRight, Scripts
<1>9. BackedUp'
  BY <1>1, <1>2, <1>5, SafeEdit DEF IInv, BackedUp
<1> QED
  BY <1>5, <1>6, <1>8, <1>9 DEF IInv

LEMMA KMSStep == ASSUME IInv, EnsureKMS PROVE IInv'
<1>1. /\ step = "kms" /\ result' = "repaired" /\ script \in {"repair", "fix"}
      /\ UNCHANGED <<original, sensor, backups>>
      /\ script' = IF script = "fix" THEN "configure" ELSE "none"
      /\ step' = IF script = "fix" THEN "check" ELSE "none"
  BY DEF EnsureKMS, fixed, IInv, Phases, Scripts
<1>2. KMS \in Lines /\ ~IsOther(KMS) /\ Whole(KMS)
  BY OverlayAssumption DEF KMS, Overlay, Lines, IsOther, IsAuto, Whole
<1>3. FileOK /\ OthersKept
  BY DEF IInv, OverlayTypeOK
<1>4. OverlayTypeOK' /\ OthersKept' /\ (HasAll(config) => HasAll(config)')
  <2>1. FileOK' /\ OthersKept' /\ (HasAll(config) => HasAll(config)')
    <3>1. CASE UNCHANGED <<file, stuck>>
      BY <1>1, <1>3, <3>1, FileKept DEF FileOK
    <3>2. CASE AppendLine(KMS)
      BY <1>1, <1>2, <1>3, <3>2, AppendKeeps
    <3> QED
      BY <3>1, <3>2 DEF EnsureKMS
  <2> QED
    BY <1>1, <2>1 DEF IInv, OverlayTypeOK
<1>5. Older'
  BY <1>1, <1>4, SafeEdit DEF IInv, BackedUp
<1>6. BackedUp'
  BY <1>1, <1>4, <1>5, SafeEdit DEF BackedUp
<1>7. Phases' /\ Edited' /\ ConfiguredRight'
  BY <1>1 DEF Phases, Edited, ConfiguredRight, Scripts
<1> QED
  BY <1>4, <1>6, <1>7 DEF IInv

(* The only step that loses lines; the backup was made before. *)
LEMMA DeleteStep == ASSUME IInv, DeleteListed PROVE IInv'
<1>1. /\ step = "delete" /\ step' = "append" /\ script = "configure"
      /\ config' = Restrict(config, {n \in DOMAIN config : ~IsListed(config[n])})
      /\ newline' = (newline \/ end \notin {n \in DOMAIN config : ~IsListed(config[n])})
      /\ UNCHANGED <<end, stuck, script, result, original, sensor, backups>>
  BY DEF DeleteListed, Keep, Goto, fixed, IInv, Phases
<1>2. /\ DOMAIN config' = {n \in DOMAIN config : ~IsListed(config[n])}
      /\ \A n \in DOMAIN config' : config'[n] = config[n]
      /\ config' = [n \in DOMAIN config' |-> config[n]]
  BY <1>1 DEF Restrict
<1>3. OverlayTypeOK'
  <2>1. newline' \in BOOLEAN /\ (~newline' => ~newline /\ end \in DOMAIN config')
    BY <1>1, <1>2 DEF IInv, OverlayTypeOK, FileOK
  <2>2. FileOK'
    BY <1>1, <1>2, <2>1 DEF IInv, OverlayTypeOK, FileOK, Originals
  <2> QED
    BY <1>1, <2>2 DEF IInv, OverlayTypeOK
<1>4. stuck' \/ AutoOff'
  <2>1. stuck \/ AutoOff
    BY <1>1 DEF IInv, Edited
  <2>2. CASE stuck
    BY <1>1, <2>2
  <2>3. CASE AutoOff
    <3>1. PICK n \in DOMAIN config : config[n] = AutoDetect("0")
      BY <2>3 DEF AutoOff, Range
    <3>2. n \in DOMAIN config' /\ config'[n] = AutoDetect("0")
      BY <1>2, <3>1, KindsOfLines
    <3>3. AutoDetect("0") \in Range(config')
      BY <3>2 DEF Range
    <3> QED
      BY <1>1, <1>2, <2>3, <3>3 DEF AutoOff
  <2> QED
    BY <2>1, <2>2, <2>3
<1>5. OthersKept'
  <2>1. ASSUME NEW n \in Originals, Has(config, n), ~IsListed(original.lines[n])
        PROVE  Has(config, n)'
    <3>1. ~IsListed(config[n])
      BY <2>1, GluedLines DEF Has, IInv, OverlayTypeOK, FileOK, Originals
    <3> QED
      BY <1>1, <1>2, <2>1, <3>1 DEF Has
  <2>2. \A n \in DOMAIN config' :
          /\ IsOther(config'[n]) => n \in Originals
          /\ Whole(config'[n]) \/ (n = Len(original.lines) /\ ~original.newline)
    BY <1>2 DEF IInv, OthersKept
  <2> QED
    BY <1>1, <2>1, <2>2 DEF IInv, OthersKept, Originals
<1>6. BackedUp'
  <2>1. \A i : HasAll(backups[i])' <=> HasAll(backups[i])
    BY <1>1 DEF HasAll, Has, Originals
  <2> QED
    BY <1>1, <2>1 DEF IInv, BackedUp
<1>7. Edited'
  BY <1>1, <1>2, <1>4 DEF Edited
<1>8. Phases' /\ ConfiguredRight'
  BY <1>1 DEF IInv, Phases, ConfiguredRight, Scripts
<1> QED
  BY <1>3, <1>5, <1>6, <1>7, <1>8 DEF IInv

LEMMA OverlayStep == ASSUME IInv, AppendOverlay PROVE IInv'
<1>1. /\ step = "append" /\ step' = "none" /\ script' = "none" /\ script = "configure"
      /\ AppendLine(Overlay(sensor)) /\ result' = "configured"
      /\ UNCHANGED <<original, sensor, backups>>
  BY DEF AppendOverlay, Goto, fixed, IInv, Phases
<1>2. Overlay(sensor) \in Lines /\ Whole(Overlay(sensor)) /\ ~IsOther(Overlay(sensor))
  BY OverlayAssumption, KindsOfLines DEF Overlay, Lines, Whole, IInv, OverlayTypeOK
<1>3. /\ FileOK /\ OthersKept /\ (stuck \/ AutoOff)
      /\ \A n \in DOMAIN config : ~IsListed(config[n])
  BY <1>1 DEF IInv, OverlayTypeOK, Edited
<1>4. /\ OverlayTypeOK' /\ OthersKept' /\ (HasAll(config) => HasAll(config)')
      /\ FileOK' /\ newline'
  BY <1>1, <1>2, <1>3, AppendKeeps DEF IInv, OverlayTypeOK
<1>5. ConfiguredRight'
  <2>1. CASE stuck \/ StickToLast
    <3>1. stuck'
      BY <1>1, <1>3, <2>1, Stuck DEF AppendLine, NewLine
    <3> QED
      BY <1>4, <3>1 DEF ConfiguredRight
  <2>2. CASE ~stuck /\ NewLine(Overlay(sensor))
    <3>1. /\ DOMAIN config' = DOMAIN config \cup {end'} /\ end' \notin DOMAIN config
          /\ config'[end'] = Overlay(sensor) /\ sensor' = sensor
          /\ \A n \in DOMAIN config : config'[n] = config[n]
      BY <1>1, <1>2, <1>3, <2>2, Appended
    <3>2. {n \in DOMAIN config' : IsListed(config'[n])}
            = IF sensor \in Listed THEN {end'} ELSE {}
      BY <1>3, <3>1, KindsOfLines
    <3>3. \A n \in DOMAIN config' : n <= end'
      BY <1>4 DEF FileOK
    <3>4. AutoDetect("0") \in Range(config')
      <4>1. PICK n \in DOMAIN config : config[n] = AutoDetect("0")
        BY <1>3, <2>2 DEF AutoOff, Range
      <4> QED
        BY <3>1, <4>1 DEF Range
    <3>5. \A n \in DOMAIN config' : IsAuto(config'[n]) => config'[n] = AutoDetect("0")
      BY <1>3, <2>2, <3>1, KindsOfLines DEF AutoOff
    <3>6. Right'
      BY <3>1, <3>2, <3>3, <3>4, <3>5 DEF Right
    <3> QED
      BY <1>4, <3>6 DEF ConfiguredRight
  <2> QED
    BY <1>1, <2>1, <2>2 DEF AppendLine
<1>6. BackedUp'
  BY <1>1, <1>4, SafeEdit DEF BackedUp
<1>7. Phases' /\ Edited'
  BY <1>1 DEF Phases, Edited, Scripts
<1> QED
  BY <1>4, <1>5, <1>6, <1>7 DEF IInv

LEMMA OverlayNext == IInv /\ [Next]_vars => IInv'
<1> SUFFICES ASSUME IInv, [Next]_vars PROVE IInv'
  OBVIOUS
<1>1. CASE UNCHANGED vars
  <2>1. /\ UNCHANGED <<config, newline, stuck, original, sensor, script, step, result, backups>>
        /\ UNCHANGED <<file, original>>
    BY <1>1 DEF vars, file, fixed
  <2>2. OverlayTypeOK'
    <3>1. stuck' \in BOOLEAN /\ FileOK
      BY <2>1 DEF IInv, OverlayTypeOK, FileOK
    <3>2. FileOK'
      BY <2>1, <3>1, FileKept
    <3> QED
      BY <2>1, <3>2 DEF IInv, OverlayTypeOK
  <2>3. Phases' /\ Edited' /\ ConfiguredRight'
    BY <2>1, FileKept DEF IInv, Phases, Edited, ConfiguredRight
  <2>4. BackedUp'
    BY <2>1, FileKept, SafeEdit DEF IInv, BackedUp
  <2>5. OthersKept'
    BY <2>1, FileKept DEF IInv
  <2> QED
    BY <2>2, <2>3, <2>4, <2>5 DEF IInv
<1>2. CASE Next
  BY <1>2, RunStep, AbortStep, BackupSteps, AutoDetectStep, KMSStep, DeleteStep, OverlayStep
  DEF Next
<1> QED
  BY <1>1, <1>2

LEMMA OverlayInvariant == Spec => []IInv
  BY OverlayInit, OverlayNext, PTL DEF Spec

-----------------------------------------------------------------------------
(* However often and in whatever order the scripts were run and cut off, a   *)
(* completed configure_camera_overlay.sh leaves its overlay as the last line *)
(* and no other one it knows, and auto detection off, for every file that    *)
(* ended in a newline or had been appended to before.                        *)
THEOREM ConfigurationIsRight == Spec => []ConfiguredRight
<1>1. IInv => ConfiguredRight
  BY DEF IInv
<1> QED
  BY <1>1, OverlayInvariant, PTL

(* No script, cut off or not, loses or adds a line that is none of its       *)
(* business, nor sticks text to one but the last of an unfinished file.      *)
THEOREM OtherLinesKept == Spec => []OthersKept
<1>1. IInv => OthersKept
  BY DEF IInv
<1> QED
  BY <1>1, OverlayInvariant, PTL

(* The original lines survive every history of runs, in config.txt or in a   *)
(* backup, although a backup may be overwritten or cut off; the last line of *)
(* an unfinished file may be left with text stuck to it only.                *)
THEOREM OriginalSurvives == Spec => []OriginalRecoverable
<1>1. IInv => OriginalRecoverable
  <2> SUFFICES ASSUME IInv PROVE OriginalRecoverable
    OBVIOUS
  <2>1. CASE HasAll(config)
    BY <2>1 DEF OriginalRecoverable
  <2>2. CASE \E i \in 1..Len(backups) : HasAll(backups[i])
    BY <2>2 DEF OriginalRecoverable, Range, IInv, OverlayTypeOK
  <2> QED
    BY <2>1, <2>2 DEF IInv, BackedUp
<1> QED
  BY <1>1, OverlayInvariant, PTL
=============================================================================
