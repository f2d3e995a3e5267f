----------------------- MODULE CameraFallback_proofs -----------------------
(***************************************************************************)
(* For any list of different devices: a child main no longer waits for is  *)
(* terminated or ending, and main returns after a device only if that      *)
(* device gave a frame.                                                    *)
(***************************************************************************)
EXTENDS CameraFallback, TLAPS

(* Devices main has not come to have no child yet, and come only once. *)
FreshDevices ==
    /\ \A i \in DOMAIN left : /\ child[left[i]] = "none"
                              /\ message[left[i]] = <<>>
                              /\ left[i] # current
    /\ \A i, j \in DOMAIN left : left[i] = left[j] => i = j

Holds(d, m) == \E i \in DOMAIN message[d] : message[d][i] = m

(* A message is as true when it is read as when it was put. *)
MessagesTrue ==
    \A d \in Devices : /\ Holds(d, "ready") => d \in framed
                       /\ Holds(d, "error") => child[d] \in {"leaving", "gone"}

(* How many messages a child can have put, by where it is. *)
MessageCount ==
    \A d \in Devices :
        /\ child[d] \in {"none", "opening", "reading"} => message[d] = <<>>
        /\ child[d] \in {"drawing", "showing", "failing"} => Len(message[d]) <= 1

(* What main knows of the device it tried last. *)
ParentKnows ==
    /\ main \in {"raw", "picamera2"} => current = NoDevice
    /\ main = "watching" => current \in framed
    /\ main = "closing" => current \in terminated \/ child[current] \in {"leaving", "gone"}

IInv == /\ TypeOK /\ FreshDevices /\ MessagesTrue /\ MessageCount
        /\ ParentKnows /\ LeftoversAreDying /\ ReturnsAfterFrame

-----------------------------------------------------------------------------
(* Lemmas on the sequences of devices and of messages. *)

LEMMA TailOf ==
    ASSUME NEW S, NEW s \in Seq(S), s # <<>>
    PROVE  /\ Tail(s) \in Seq(S) /\ Head(s) \in S /\ Head(s) = s[1] /\ 1 \in DOMAIN s
           /\ \A i \in DOMAIN Tail(s) : i + 1 \in DOMAIN s /\ Tail(s)[i] = s[i + 1] /\ i + 1 # 1
           /\ Len(Tail(s)) = Len(s) - 1
  OBVIOUS

LEMMA AppendOf ==
    ASSUME NEW S, NEW s \in Seq(S), NEW e \in S
    PROVE  /\ Append(s, e) \in Seq(S)
           /\ Len(Append(s, e)) = Len(s) + 1
           /\ \A i \in DOMAIN Append(s, e) :
                 (i \in DOMAIN s /\ Append(s, e)[i] = s[i]) \/ Append(s, e)[i] = e
  OBVIOUS

LEMMA PrefixOf ==
    ASSUME NEW S, NEW s \in Seq(S), NEW n \in 0..Len(s)
    PROVE  /\ SubSeq(s, 1, n) \in Seq(S)
           /\ Len(SubSeq(s, 1, n)) <= Len(s)
           /\ \A i \in DOMAIN SubSeq(s, 1, n) : i \in DOMAIN s /\ SubSeq(s, 1, n)[i] = s[i]
  OBVIOUS
-----------------------------------------------------------------------------
(* Initially no device has a child. *)
LEMMA FallbackInit == Init => IInv
<1> SUFFICES ASSUME Init PROVE IInv
  OBVIOUS
<1>1. left = VideoDevices /\ current = NoDevice
  BY DEF Init
<1>2. \A i \in DOMAIN left : left[i] \in Devices
  BY <1>1 DEF Devices
<1>3. TypeOK
  <2>1. main \in MainPC /\ main \notin Probing /\ "none" \in ChildPC
    BY DEF Init, MainPC, Probing, ChildPC
  <2>2. \A d \in Devices : message[d] = <<>> /\ Len(message[d]) <= 2
    BY DEF Init
  <2>3. message \in [Devices -> Seq({"ready", "error"})]
    BY DEF Init
  <2> QED
    BY <1>1, <2>1, <2>2, <2>3, DeviceAssumption DEF Init, TypeOK
<1>4. FreshDevices
  BY <1>1, <1>2, DeviceAssumption DEF Init, FreshDevices
<1>5. MessagesTrue /\ MessageCount
  BY DEF Init, MessagesTrue, MessageCount, Holds
<1>6. ParentKnows /\ LeftoversAreDying /\ ReturnsAfterFrame
  BY DEF Init, ParentKnows, LeftoversAreDying, ReturnsAfterFrame, Alive
<1> QED
  BY <1>3, <1>4, <1>5, <1>6 DEF IInv

(* A step of main that starts no child and touches no queue keeps what does  *)
(* not speak of main.                                                        *)
LEMMA MainMoves ==
    ASSUME IInv, UNCHANGED <<gui, picamera2, left, current, child, message>>,
           main' \in MainPC, main' \in Probing => main \in Probing,
           terminated' \in {terminated, terminated \cup {current}},
           terminated' # terminated => main \in Probing,
           framed \subseteq framed', framed' \subseteq Devices \cup {"raw", "picamera2"},
           quit' \in BOOLEAN
    PROVE  TypeOK' /\ FreshDevices' /\ MessagesTrue' /\ MessageCount'
<1>1. TypeOK'
  BY DEF IInv, TypeOK
<1>2. FreshDevices'
  BY DEF IInv, FreshDevices
<1>3. MessagesTrue' /\ MessageCount'
  BY DEF IInv, MessagesTrue, MessageCount, Holds
<1> QED
  BY <1>1, <1>2, <1>3

(* The steps of the backends before OpenCV and the end of the list. *)
LEMMA BackendSteps ==
    ASSUME IInv,
           RawRaises \/ RawShows \/ RawStreamEnds \/ RawQuit \/ Picamera2Fails
             \/ Picamera2Quit \/ NoBackend \/ Exit
    PROVE  IInv'
<1> USE DEF MainGoto, parentVars, childVars
<1>1. /\ main \notin Probing /\ main' \notin Probing /\ main' \in MainPC
      /\ terminated' = terminated
      /\ UNCHANGED <<gui, picamera2, left, current, child, message>>
  BY DEF RawRaises, RawShows, RawStreamEnds, RawQuit, Picamera2Fails, Picamera2Quit,
         NoBackend, Exit, Probing, MainPC
<1>2. /\ framed \subseteq framed' /\ framed' \subseteq Devices \cup {"raw", "picamera2"}
      /\ quit' \in BOOLEAN
  BY DEF RawRaises, RawShows, RawStreamEnds, RawQuit, Picamera2Fails, Picamera2Quit,
         NoBackend, Exit, IInv, TypeOK
<1>3. TypeOK' /\ FreshDevices' /\ MessagesTrue' /\ MessageCount'
  BY <1>1, <1>2, MainMoves
<1>4. ParentKnows'
  BY <1>1 DEF RawRaises, RawShows, RawStreamEnds, RawQuit, Picamera2Fails, Picamera2Quit,
              NoBackend, Exit, IInv, ParentKnows, Probing
<1>5. LeftoversAreDying'
  BY <1>1 DEF IInv, LeftoversAreDying
<1>6. main' = "returned" => main \in {"raw", "picamera2"}
  BY DEF RawRaises, RawShows, RawStreamEnds, RawQuit, Picamera2Fails, Picamera2Quit, NoBackend,
         Exit
<1>7. ReturnsAfterFrame'
  BY <1>1, <1>6 DEF IInv, ReturnsAfterFrame, ParentKnows
<1> QED
  BY <1>3, <1>4, <1>5, <1>7 DEF IInv

LEMMA SkipStep == ASSUME IInv, SkipDevice PROVE IInv'
<1>1. /\ left' = Tail(left) /\ left # <<>> /\ left \in Seq(Devices) /\ main = "opencv"
      /\ UNCHANGED <<gui, picamera2, main, current, terminated, child, message, framed, quit>>
  BY DEF SkipDevice, IInv, TypeOK, childVars
<1>2. TypeOK'
  BY <1>1, TailOf DEF IInv, TypeOK
<1>3. FreshDevices'
  BY <1>1, TailOf DEF IInv, FreshDevices
<1>4. MessagesTrue' /\ MessageCount'
  BY <1>1 DEF IInv, MessagesTrue, MessageCount, Holds
<1>5. ParentKnows' /\ LeftoversAreDying' /\ ReturnsAfterFrame'
  BY <1>1 DEF IInv, ParentKnows, LeftoversAreDying, ReturnsAfterFrame
<1> QED
  BY <1>2, <1>3, <1>4, <1>5 DEF IInv

(* The only step that begins to wait for a device: the one before it is      *)
(* among the dying.                                                          *)
LEMMA StartStep == ASSUME IInv, StartChild PROVE IInv'
<1> DEFINE d == Head(left)
<1>1. /\ left' = Tail(left) /\ left # <<>> /\ left \in Seq(Devices)
      /\ main = "opencv" /\ main' = "waiting" /\ current' = d
      /\ child' = [child EXCEPT ![d] = "opening"]
      /\ UNCHANGED <<gui, picamera2, message, terminated, framed, quit>>
  BY DEF StartChild, MainGoto, IInv, TypeOK
<1>2. /\ d \in Devices /\ d = left[1] /\ 1 \in DOMAIN left
      /\ \A i \in DOMAIN left' : i + 1 \in DOMAIN left /\ left'[i] = left[i + 1] /\ i + 1 # 1
  BY <1>1, TailOf
<1>3. child[d] = "none" /\ message[d] = <<>>
  BY <1>2 DEF IInv, FreshDevices
<1> HIDE DEF d
<1>4. \A e \in Devices : child'[e] = IF e = d THEN "opening" ELSE child[e]
  BY <1>1 DEF IInv, TypeOK
<1>5. TypeOK'
  BY <1>1, <1>2, TailOf DEF IInv, TypeOK, MainPC, Probing, ChildPC, Alive
<1>6. FreshDevices'
  <2>1. \A i \in DOMAIN left' : left'[i] # d
    BY <1>2 DEF IInv, FreshDevices
  <2>2. \A i \in DOMAIN left' : left'[i] \in Devices
    BY <1>1, <1>2, TailOf
  <2>3. \A i \in DOMAIN left' : /\ child'[left'[i]] = "none"
                               /\ message'[left'[i]] = <<>>
                               /\ left'[i] # current'
    BY <1>1, <1>2, <1>4, <2>1, <2>2 DEF IInv, FreshDevices
  <2>4. DOMAIN left' \subseteq Nat
    BY <1>5 DEF TypeOK
  <2>5. \A i, j \in DOMAIN left' : left'[i] = left'[j] => i = j
    BY <1>2, <2>4 DEF IInv, FreshDevices
  <2> QED
    BY <2>3, <2>5 DEF FreshDevices
<1>7. MessagesTrue' /\ MessageCount'
  <2>1. ~Holds(d, "error")
    BY <1>3 DEF Holds
  <2>2. \A e \in Devices, m \in {"ready", "error"} : Holds(e, m)' <=> Holds(e, m)
    BY <1>1 DEF Holds
  <2>3. MessagesTrue'
    BY <1>1, <1>4, <2>1, <2>2 DEF IInv, MessagesTrue
  <2>4. MessageCount'
    BY <1>1, <1>3, <1>4 DEF IInv, MessageCount
  <2> QED
    BY <2>3, <2>4
<1>8. ParentKnows' /\ ReturnsAfterFrame'
  BY <1>1 DEF ParentKnows, ReturnsAfterFrame
<1>9. LeftoversAreDying'
  BY <1>1, <1>4 DEF IInv, LeftoversAreDying, Probing
<1> QED
  BY <1>5, <1>6, <1>7, <1>8, <1>9 DEF IInv

(* A message that is read is true: "ready" means a frame was given, and      *)
(* after "error" the child only leaves.                                      *)
LEMMA TakeStep == ASSUME IInv, TakeMessage PROVE IInv'
<1> DEFINE c == current
<1>1. /\ main = "waiting" /\ c \in Devices /\ message[c] # <<>>
      /\ message[c] \in Seq({"ready", "error"})
      /\ main' = IF Head(message[c]) = "ready" THEN "watching" ELSE "closing"
      /\ message' = [message EXCEPT ![c] = Tail(@)]
      /\ UNCHANGED <<gui, picamera2, left, current, terminated, child, framed, quit>>
  BY DEF TakeMessage, IInv, TypeOK, Probing
<1> HIDE DEF c
<1>2. /\ Head(message[c]) \in {"ready", "error"} /\ Head(message[c]) = message[c][1]
      /\ 1 \in DOMAIN message[c]
      /\ Tail(message[c]) \in Seq({"ready", "error"})
      /\ \A i \in DOMAIN Tail(message[c]) :
            i + 1 \in DOMAIN message[c] /\ Tail(message[c])[i] = message[c][i + 1]
      /\ Len(Tail(message[c])) = Len(message[c]) - 1
  BY <1>1, TailOf
<1>3. \A e \in Devices : message'[e] = IF e = c THEN Tail(message[c]) ELSE message[e]
  BY <1>1 DEF IInv, TypeOK
<1>4. \A e \in Devices, m \in {"ready", "error"} : Holds(e, m)' => Holds(e, m)
  <2> SUFFICES ASSUME NEW e \in Devices, NEW m \in {"ready", "error"}, Holds(e, m)'
               PROVE  Holds(e, m)
    OBVIOUS
  <2>1. PICK i \in DOMAIN message'[e] : message'[e][i] = m
    BY DEF Holds
  <2>2. CASE e = c
    <3>1. i + 1 \in DOMAIN message[c] /\ message[c][i + 1] = m
      BY <1>2, <1>3, <2>1, <2>2
    <3> QED
      BY <2>2, <3>1 DEF Holds
  <2>3. CASE e # c
    BY <1>3, <2>1, <2>3 DEF Holds
  <2> QED
    BY <2>2, <2>3
<1>5. Len(message[c]) \in Nat /\ Len(message'[c]) <= Len(message[c])
  BY <1>1, <1>2, <1>3
<1>6. TypeOK'
  <2>1. message' \in [Devices -> Seq({"ready", "error"})]
    BY <1>1, <1>2 DEF IInv, TypeOK
  <2>2. \A e \in Devices : Len(message'[e]) <= 2
    BY <1>1, <1>2, <1>3, <1>5 DEF IInv, TypeOK
  <2>3. main' \in MainPC /\ main \in Probing
    BY <1>1 DEF MainPC, Probing
  <2> QED
    BY <1>1, <2>1, <2>2, <2>3 DEF IInv, TypeOK
<1>7. FreshDevices'
  <2>1. \A i \in DOMAIN left : left[i] \in Devices /\ left[i] # c
    BY DEF IInv, TypeOK, FreshDevices, c
  <2> QED
    BY <1>1, <1>3, <2>1 DEF IInv, FreshDevices
<1>8. MessagesTrue'
  BY <1>1, <1>4 DEF IInv, MessagesTrue
<1>9. MessageCount'
  <2>1. child[c] \notin {"none", "opening", "reading"}
    BY <1>1 DEF IInv, MessageCount
  <2>2. \A e \in Devices \ {c} : message'[e] = message[e]
    BY <1>3
  <2>3. child[c] \in {"drawing", "showing", "failing"} => Len(message'[c]) <= 1
    BY <1>1, <1>5, <1>3, <1>2 DEF IInv, MessageCount
  <2> QED
    BY <1>1, <2>1, <2>2, <2>3 DEF IInv, MessageCount
<1>10. Head(message[c]) = "ready" => c \in framed
  BY <1>1, <1>2 DEF IInv, MessagesTrue, Holds
<1>11. Head(message[c]) = "error" => child[c] \in {"leaving", "gone"}
  BY <1>1, <1>2 DEF IInv, MessagesTrue, Holds
<1>12. ParentKnows' /\ ReturnsAfterFrame'
  BY <1>1, <1>2, <1>10, <1>11 DEF ParentKnows, ReturnsAfterFrame, c
<1>13. LeftoversAreDying'
  BY <1>1 DEF IInv, LeftoversAreDying, Probing
<1> QED
  BY <1>6, <1>7, <1>8, <1>9, <1>12, <1>13 DEF IInv

(* Waiting for a child, in one of the three ways. *)
LEMMA WaitSteps == ASSUME IInv, Timeout \/ JoinBriefly \/ JoinChild PROVE IInv'
<1>1. /\ main \in Probing /\ main' \in MainPC
      /\ terminated' \in {terminated, terminated \cup {current}}
      /\ UNCHANGED <<gui, picamera2, left, current, child, message, framed, quit>>
  BY DEF Timeout, JoinBriefly, JoinChild, MainGoto, Probing, MainPC, childVars
<1>2. TypeOK' /\ FreshDevices' /\ MessagesTrue' /\ MessageCount'
  <2>1. framed \subseteq framed' /\ framed' \subseteq Devices \cup {"raw", "picamera2"}
        /\ quit' \in BOOLEAN
    BY <1>1 DEF IInv, TypeOK
  <2> QED
    BY <1>1, <2>1, MainMoves
<1>3. ParentKnows'
  BY <1>1 DEF Timeout, JoinBriefly, JoinChild, MainGoto, ParentKnows
<1>4. LeftoversAreDying'
  <2>1. CASE Timeout
    BY <2>1, <1>1 DEF Timeout, IInv, LeftoversAreDying, Probing
  <2>2. CASE JoinBriefly
    <3>1. current \in terminated \/ child[current] \in {"leaving", "gone"}
      BY <2>2 DEF JoinBriefly, MainGoto, IInv, ParentKnows
    <3> QED
      BY <2>2, <3>1, <1>1 DEF JoinBriefly, IInv, LeftoversAreDying, Alive
  <2>3. CASE JoinChild
    BY <2>3, <1>1 DEF JoinChild, IInv, LeftoversAreDying, Alive
  <2> QED
    BY <2>1, <2>2, <2>3
<1>5. ReturnsAfterFrame'
  BY <1>1 DEF Timeout, JoinBriefly, JoinChild, MainGoto, IInv, ParentKnows, ReturnsAfterFrame
<1> QED
  BY <1>2, <1>3, <1>4, <1>5 DEF IInv

(* What a child does is of no concern to the other devices. *)
LEMMA ChildStep ==
    ASSUME IInv, NEW d \in Devices,
           child[d] \in Alive,
           child'[d] \in Alive \cup {"gone"},
           \A e \in Devices \ {d} : child'[e] = child[e] /\ message'[e] = message[e],
           child' \in [Devices -> ChildPC],
           message' \in [Devices -> Seq({"ready", "error"})],
           UNCHANGED <<gui, picamera2, main, left, current, terminated>>,
           framed \subseteq framed', framed' \subseteq framed \cup {d},
           quit' \in BOOLEAN,
           Len(message'[d]) <= 2,
           Holds(d, "ready")' => d \in framed',
           Holds(d, "error")' => child'[d] \in {"leaving", "gone"},
           child'[d] \in {"opening", "reading"} => message'[d] = <<>>,
           child'[d] \in {"drawing", "showing", "failing"} => Len(message'[d]) <= 1,
           child[d] = "leaving" => child'[d] = "gone"
    PROVE  IInv'
<1>1. child[d] \notin {"none", "gone"}
  BY DEF Alive
<1>2. TypeOK'
  BY DEF IInv, TypeOK
<1>3. FreshDevices'
  <2>1. \A i \in DOMAIN left : left[i] \in Devices /\ left[i] # d
    BY <1>1 DEF IInv, TypeOK, FreshDevices
  <2> QED
    BY <2>1 DEF IInv, FreshDevices
<1>4. MessagesTrue'
  <2>1. \A e \in Devices \ {d}, m \in {"ready", "error"} : Holds(e, m)' <=> Holds(e, m)
    BY DEF Holds
  <2> QED
    BY <2>1 DEF IInv, MessagesTrue
<1>5. MessageCount'
  BY <1>1 DEF IInv, MessageCount, Alive
<1>6. ParentKnows'
  BY DEF IInv, ParentKnows, Alive, TypeOK, Probing
<1>7. LeftoversAreDying'
  BY DEF IInv, LeftoversAreDying, Alive
<1>8. ReturnsAfterFrame'
  BY <1>1 DEF IInv, TypeOK, ReturnsAfterFrame
<1> QED
  BY <1>2, <1>3, <1>4, <1>5, <1>6, <1>7, <1>8 DEF IInv

(* Steps of a child that put no message. *)
LEMMA SilentSteps ==
    ASSUME IInv, NEW d \in Devices,
           Opened(d) \/ FirstPicture(d) \/ Raises(d) \/ ChildExit(d) \/ UserQuits(d)
    PROVE  IInv'
<1> USE DEF ChildGoto, parentVars
<1>1. /\ child[d] \in Alive /\ child'[d] \in Alive \cup {"gone"}
      /\ child' \in [Devices -> ChildPC]
      /\ \A e \in Devices \ {d} : child'[e] = child[e]
      /\ UNCHANGED <<gui, picamera2, main, left, current, message, terminated, framed>>
      /\ quit' \in BOOLEAN
  BY DEF Opened, FirstPicture, Raises, ChildExit, UserQuits, IInv, TypeOK, Alive, ChildPC
<1>2. /\ message' \in [Devices -> Seq({"ready", "error"})] /\ Len(message'[d]) <= 2
      /\ framed' \subseteq framed \cup {d}
  BY <1>1 DEF IInv, TypeOK
<1>3. /\ Holds(d, "ready") => d \in framed
      /\ Holds(d, "error") => child[d] \in {"leaving", "gone"}
      /\ Holds(d, "ready")' <=> Holds(d, "ready")
      /\ Holds(d, "error")' <=> Holds(d, "error")
  BY <1>1 DEF IInv, MessagesTrue, Holds
<1>4. /\ child'[d] \in {"opening", "reading"} => message'[d] = <<>>
      /\ child'[d] \in {"drawing", "showing", "failing"} => Len(message'[d]) <= 1
      /\ child[d] = "leaving" => child'[d] = "gone"
      /\ child[d] # "gone" /\ (child[d] = "leaving" => child'[d] = "gone")
  BY <1>1 DEF Opened, FirstPicture, Raises, ChildExit, UserQuits, IInv, TypeOK, MessageCount
<1> QED
  BY <1>1, <1>2, <1>3, <1>4, ChildStep

(* Steps of a child that put a message. *)
LEMMA MessageSteps ==
    ASSUME IInv, NEW d \in Devices, FirstFrame(d) \/ ReportError(d)
    PROVE  IInv'
<1> USE DEF ChildGoto, parentVars
<1> DEFINE m == IF child[d] = "reading" THEN "ready" ELSE "error"
<1>1. /\ child[d] \in Alive /\ child'[d] \in Alive
      /\ child' \in [Devices -> ChildPC]
      /\ \A e \in Devices \ {d} : child'[e] = child[e]
      /\ UNCHANGED <<gui, picamera2, main, left, current, terminated, quit>>
      /\ framed \subseteq framed' /\ framed' \subseteq framed \cup {d}
      /\ m = "ready" => child'[d] = "drawing" /\ d \in framed'
      /\ m = "error" => child[d] = "failing" /\ child'[d] = "leaving"
      /\ message' = [message EXCEPT ![d] = Append(@, m)]
  <2>1. child \in [Devices -> ChildPC]
    BY DEF IInv, TypeOK
  <2>2. CASE FirstFrame(d)
    <3>1. m = "ready" /\ child' = [child EXCEPT ![d] = "drawing"] /\ child[d] = "reading"
      BY <2>2 DEF FirstFrame
    <3> QED
      BY <2>1, <2>2, <3>1 DEF FirstFrame, Alive, ChildPC
  <2>3. CASE ReportError(d)
    <3>1. m = "error" /\ child' = [child EXCEPT ![d] = "leaving"] /\ child[d] = "failing"
      BY <2>3 DEF ReportError
    <3> QED
      BY <2>1, <2>3, <3>1 DEF ReportError, Alive, ChildPC
  <2> QED
    BY <2>2, <2>3
<1>2. m \in {"ready", "error"}
  OBVIOUS
<1> HIDE DEF m
<1>3. message \in [Devices -> Seq({"ready", "error"})]
  BY DEF IInv, TypeOK
<1>4. /\ message'[d] \in Seq({"ready", "error"})
      /\ Len(message'[d]) = Len(message[d]) + 1
      /\ \A i \in DOMAIN message'[d] :
            (i \in DOMAIN message[d] /\ message'[d][i] = message[d][i]) \/ message'[d][i] = m
  BY <1>1, <1>2, <1>3, AppendOf
<1>5. /\ message' \in [Devices -> Seq({"ready", "error"})]
      /\ \A e \in Devices \ {d} : message'[e] = message[e]
  BY <1>1, <1>3, <1>4
<1>6. CASE m = "ready"
  <2>1. child[d] = "reading" /\ message[d] = <<>>
    <3>1. child[d] = "reading"
      BY <1>6 DEF m
    <3> QED
      BY <3>1 DEF IInv, MessageCount
  <2>2. Len(message'[d]) = 1
    BY <1>4, <2>1
  <2>3. ~Holds(d, "error")'
    BY <1>4, <1>6, <2>1 DEF Holds
  <2>4. child[d] # "leaving" /\ child'[d] = "drawing" /\ d \in framed' /\ Len(message'[d]) <= 2
    BY <1>1, <1>6, <2>1, <2>2
  <2>5. quit' \in BOOLEAN
    BY <1>1 DEF IInv, TypeOK
  <2> QED
    BY <1>1, <1>5, <2>2, <2>3, <2>4, <2>5, ChildStep
<1>7. CASE m = "error"
  <2>1. child[d] = "failing" /\ child'[d] = "leaving" /\ Len(message[d]) <= 1
    BY <1>1, <1>7 DEF IInv, MessageCount
  <2>2. Len(message[d]) \in Nat
    BY <1>3
  <2>3. Len(message'[d]) <= 2
    BY <1>4, <2>1, <2>2
  <2>4. Holds(d, "ready")' => Holds(d, "ready")
    BY <1>4, <1>7 DEF Holds
  <2>5. Holds(d, "ready") => d \in framed
    BY DEF IInv, MessagesTrue
  <2> QED
    BY <1>1, <1>5, <2>1, <2>3, <2>4, <2>5, ChildStep DEF IInv, TypeOK
<1> QED
  BY <1>2, <1>6, <1>7

(* A child that dies loses the messages that have not been written. *)
LEMMA DeathStep == ASSUME IInv, NEW d \in Devices, ChildDies(d) PROVE IInv'
<1>1. PICK n \in 0..Len(message[d]) :
        message' = [message EXCEPT ![d] = SubSeq(@, 1, n)]
  BY DEF ChildDies
<1>2. /\ child[d] \in Alive /\ child' = [child EXCEPT ![d] = "gone"]
      /\ UNCHANGED <<gui, picamera2, main, left, current, terminated, framed, quit>>
  BY DEF ChildDies, parentVars
<1>3. message \in [Devices -> Seq({"ready", "error"})] /\ Len(message[d]) <= 2
  BY DEF IInv, TypeOK
<1>4. /\ message'[d] \in Seq({"ready", "error"})
      /\ Len(message'[d]) <= Len(message[d])
      /\ \A i \in DOMAIN message'[d] : i \in DOMAIN message[d] /\ message'[d][i] = message[d][i]
  BY <1>1, <1>3, PrefixOf
<1>5. /\ message' \in [Devices -> Seq({"ready", "error"})]
      /\ \A e \in Devices \ {d} : message'[e] = message[e]
  BY <1>1, <1>3, <1>4
<1>6. Len(message'[d]) <= 2
  <2>1. Len(message[d]) \in Nat /\ Len(message'[d]) \in Nat
    BY <1>3, <1>4
  <2> QED
    BY <1>3, <1>4, <2>1
<1>7. /\ child' \in [Devices -> ChildPC] /\ child'[d] = "gone"
      /\ \A e \in Devices \ {d} : child'[e] = child[e]
  BY <1>2 DEF IInv, TypeOK, ChildPC
<1>8. Holds(d, "ready")' => d \in framed
  BY <1>4 DEF Holds, IInv, MessagesTrue
<1> QED
  BY <1>2, <1>5, <1>6, <1>7, <1>8, ChildStep DEF IInv, TypeOK

LEMMA FallbackStep == IInv /\ [Next]_vars => IInv'
<1> SUFFICES ASSUME IInv, [Next]_vars PROVE IInv'
  OBVIOUS
<1>1. CASE UNCHANGED vars
  <2>1. TypeOK' /\ FreshDevices' /\ ParentKnows' /\ LeftoversAreDying' /\ ReturnsAfterFrame'
    BY <1>1 DEF vars, IInv, TypeOK, FreshDevices, ParentKnows, LeftoversAreDying, ReturnsAfterFrame
  <2>2. MessagesTrue' /\ MessageCount'
    BY <1>1 DEF vars, IInv, MessagesTrue, MessageCount, Holds
  <2> QED
    BY <2>1, <2>2 DEF IInv
<1>2. CASE Next
  BY <1>2, BackendSteps, SkipStep, StartStep, TakeStep, WaitSteps, SilentSteps, MessageSteps,
     DeathStep DEF Next, ParentStep
<1> QED
  BY <1>1, <1>2

LEMMA FallbackInvariant == Spec => []IInv
  BY FallbackInit, FallbackStep, PTL DEF Spec

-----------------------------------------------------------------------------
(* Type correctness of the search for a backend: in particular a child       *)
(* reports at most twice.                                                    *)
THEOREM FallbackTypeCorrect == Spec => []TypeOK
<1>1. IInv => TypeOK
  BY DEF IInv
<1> QED
  BY <1>1, FallbackInvariant, PTL

(* Whatever hangs, crashes or answers late, a child main no longer waits for *)
(* has been terminated or is ending (try_opencv_device).                     *)
THEOREM NoChildLeftBehind == Spec => []LeftoversAreDying
<1>1. IInv => LeftoversAreDying
  BY DEF IInv
<1> QED
  BY <1>1, FallbackInvariant, PTL

(* main returns after a device only when that device gave a frame and its    *)
(* child has ended (try_opencv_device).                                      *)
THEOREM FrameBeforeReturn == Spec => []ReturnsAfterFrame
<1>1. IInv => ReturnsAfterFrame
  BY DEF IInv
<1> QED
  BY <1>1, FallbackInvariant, PTL
=============================================================================
