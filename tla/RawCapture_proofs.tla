-------------------------- MODULE RawCapture_proofs --------------------------
(***************************************************************************)
(* For any number of requests, any size of frame and pipe: viewers see     *)
(* whole frames, a stream ends only with its v4l2-ctl, and no v4l2-ctl is  *)
(* left behind.                                                            *)
(*                                                                         *)
(* The inductive invariant ties the bytes in read_exact's hands to the     *)
(* number taken from the pipe: they are the last ones taken, and begin     *)
(* with the first byte of a frame.                                         *)
(***************************************************************************)
EXTENDS RawCapture, TLAPS

(* The first byte read_exact has, or waits for. *)
Start(r) == taken[r] - Len(got[r])

PipeOK(r) == /\ taken[r] <= written[r] /\ written[r] <= taken[r] + PipeSize
             /\ Len(got[r]) <= FrameBytes
             /\ client[r] = "decoded" => Len(got[r]) = FrameBytes
             /\ client[r] = "yielded" => Len(got[r]) = 0

InHand(r) == /\ Start(r) \in Nat /\ StartsFrame(Start(r))
             /\ \A i \in 1..Len(got[r]) : got[r][i] = Start(r) + i - 1

SentFrame(r, i) ==
    /\ StartsFrame(sent[r][i][1]) /\ sent[r][i] = FrameFrom(sent[r][i][1])
    /\ sent[r][i][1] + FrameBytes <= Start(r)
    /\ \A j \in 1..(i - 1) : sent[r][j][1] < sent[r][i][1]

ProcessOK(r) == /\ client[r] \in {"idle", "configuring", "refused"} => proc[r] = "none"
                /\ client[r] \in {"waiting", "done"} => signal[r] # "none"
                /\ r \notin left /\ client[r] \in {"closing", "waiting", "done"}
                       => proc[r] = "ended" /\ taken[r] = written[r]

Types == /\ client \in [Requests -> ClientPC]
         /\ proc \in [Requests -> {"none", "ended"} \cup Live]
         /\ signal \in [Requests -> {"none", "term", "kill"}]
         /\ written \in [Requests -> Nat] /\ taken \in [Requests -> Nat]
         /\ got \in [Requests -> Seq(Nat)]
         /\ sent \in [Requests -> Seq(Seq(Nat))]
         /\ gone \subseteq Requests /\ left \subseteq gone

RawInv == /\ Types
          /\ \A r \in Requests : /\ PipeOK(r) /\ InHand(r) /\ ProcessOK(r)
                                 /\ \A i \in DOMAIN sent[r] : SentFrame(r, i)

-----------------------------------------------------------------------------
(* The frame after one that starts at a frame boundary starts at one too. *)
LEMMA NextFrameStarts ==
    ASSUME NEW n \in Nat, StartsFrame(n)
    PROVE  StartsFrame(n + FrameBytes)
<1>1. PICK f \in 0..n : n = f * FrameBytes
  BY DEF StartsFrame
<1>2. n + FrameBytes = (f + 1) * FrameBytes
  BY <1>1, RawAssumption
<1>3. f + 1 \in 0..(n + FrameBytes)
  BY RawAssumption
<1> QED
  BY <1>2, <1>3 DEF StartsFrame

(* So does one that is renumbered. *)
LEMMA RenumberedStarts ==
    ASSUME NEW n \in Nat, StartsFrame(n), n >= MaxFrames * FrameBytes
    PROVE  n - MaxFrames * FrameBytes \in Nat /\ StartsFrame(n - MaxFrames * FrameBytes)
<1> DEFINE m == MaxFrames
<1>1. PICK f \in 0..n : n = f * FrameBytes
  BY DEF StartsFrame
<1>2. m \in Nat /\ FrameBytes \in Nat /\ FrameBytes >= 1 /\ m * FrameBytes \in Nat
  BY RawAssumption
<1>3. n >= m * FrameBytes
  OBVIOUS
<1> HIDE DEF m
<1>4. f >= m
  <2>1. SUFFICES ASSUME f < m PROVE FALSE
    BY <1>2
  <2>2. PICK k \in Nat : m = f + 1 + k
    <3>1. m - f - 1 \in Nat /\ m = f + 1 + (m - f - 1)
      BY <1>2, <2>1
    <3> QED
      BY <3>1
  <2>3. m * FrameBytes = f * FrameBytes + FrameBytes + k * FrameBytes /\ k * FrameBytes \in Nat
    BY <1>2, <2>2
  <2> QED
    BY <1>1, <1>2, <1>3, <2>3
<1>5. PICK k \in Nat : f = m + k
  <2>1. f - m \in Nat /\ f = m + (f - m)
    BY <1>2, <1>4
  <2> QED
    BY <2>1
<1>6. n - m * FrameBytes = k * FrameBytes
  BY <1>1, <1>2, <1>5
<1>7. k <= k * FrameBytes /\ k * FrameBytes \in Nat
  <2>1. PICK b \in Nat : FrameBytes = b + 1
    <3>1. FrameBytes - 1 \in Nat /\ FrameBytes = (FrameBytes - 1) + 1
      BY <1>2
    <3> QED
      BY <3>1
  <2>2. k * FrameBytes = k * b + k /\ k * b \in Nat
    BY <2>1
  <2> QED
    BY <2>2
<1>8. n - m * FrameBytes \in Nat /\ StartsFrame(n - m * FrameBytes)
  BY <1>6, <1>7 DEF StartsFrame
<1> QED
  BY <1>8 DEF m

(* Byte 0 starts a frame. *)
LEMMA ZeroStarts == StartsFrame(0)
<1>1. 0 = 0 * FrameBytes
  BY RawAssumption
<1> QED
  BY <1>1 DEF StartsFrame

LEMMA RawInit == Init => RawInv
<1> SUFFICES ASSUME Init PROVE RawInv
  OBVIOUS
<1>1. Types
  BY DEF Init, Types, ClientPC
<1>2. ASSUME NEW r \in Requests
      PROVE  PipeOK(r) /\ InHand(r) /\ ProcessOK(r) /\ \A i \in DOMAIN sent[r] : SentFrame(r, i)
  <2>1. Start(r) = 0 /\ got[r] = <<>> /\ sent[r] = <<>> /\ taken[r] = 0 /\ written[r] = 0
    BY DEF Init, Start
  <2>2. PipeOK(r) /\ ProcessOK(r)
    BY <2>1, RawAssumption DEF Init, PipeOK, ProcessOK
  <2>3. InHand(r)
    BY <2>1, ZeroStarts DEF InHand
  <2> QED
    BY <2>1, <2>2, <2>3
<1> QED
  BY <1>1, <1>2 DEF RawInv
-----------------------------------------------------------------------------
(* The three steps that touch the bytes; the others leave them alone. *)

LEMMA ConcatBytes ==
    ASSUME NEW s \in Seq(Nat), NEW t \in Seq(Nat)
    PROVE  s \o t \in Seq(Nat) /\ Len(s \o t) = Len(s) + Len(t)
OBVIOUS

LEMMA ReadKeeps ==
    ASSUME RawInv, NEW r \in Requests, ReadExact(r) PROVE RawInv'
<1> USE RawAssumption
<1>1. PICK k \in 1..(FrameBytes - Len(got[r])) :
         /\ taken[r] + k <= written[r]
         /\ taken' = [taken EXCEPT ![r] = @ + k]
         /\ got' = [got EXCEPT ![r] = @ \o Chunk(r, k)]
  BY DEF ReadExact
<1>2. /\ client[r] = "reading"
      /\ client' = [client EXCEPT ![r] = IF Len(got'[r]) = FrameBytes THEN "decoded" ELSE @]
      /\ UNCHANGED <<proc, signal, written, sent, gone, left>>
  BY DEF ReadExact, procVars
<1>3. Types /\ PipeOK(r) /\ InHand(r) /\ ProcessOK(r)
  BY DEF RawInv
<1>4. /\ Chunk(r, k) \in Seq(Nat) /\ Len(Chunk(r, k)) = k
      /\ \A i \in 1..k : Chunk(r, k)[i] = taken[r] + i - 1
  BY <1>3 DEF Chunk, Types
<1>5. got[r] \in Seq(Nat) /\ Len(got[r]) \in Nat /\ taken[r] \in Nat /\ k \in Nat
  BY <1>3, <1>1 DEF Types, PipeOK
<1>6. /\ got'[r] = got[r] \o Chunk(r, k) /\ got'[r] \in Seq(Nat)
      /\ Len(got'[r]) = Len(got[r]) + k /\ taken'[r] = taken[r] + k
  <2>1. got'[r] = got[r] \o Chunk(r, k) /\ taken'[r] = taken[r] + k
    BY <1>1, <1>3 DEF Types
  <2> QED
    BY <2>1, <1>4, <1>5, ConcatBytes
<1>7. Types'
  <2>1. client' \in [Requests -> ClientPC]
    BY <1>2, <1>3 DEF Types, ClientPC
  <2>2. taken' \in [Requests -> Nat]
    BY <1>1, <1>3, <1>5 DEF Types
  <2>3. got' \in [Requests -> Seq(Nat)]
    BY <1>1, <1>3, <1>6 DEF Types
  <2> QED
    BY <2>1, <2>2, <2>3, <1>2, <1>3 DEF Types
<1>8. (Start(r))' = Start(r)
  BY <1>5, <1>6 DEF Start
<1>9. PipeOK(r)'
  BY <1>1, <1>2, <1>3, <1>5, <1>6 DEF PipeOK, Types
<1>10. InHand(r)'
  <2>1. ASSUME NEW i \in 1..Len(got'[r]) PROVE got'[r][i] = Start(r) + i - 1
    <3>1. CASE i <= Len(got[r])
      BY <3>1, <1>3, <1>4, <1>5, <1>6 DEF InHand
    <3>2. CASE i > Len(got[r])
      <4>1. i - Len(got[r]) \in 1..k
        BY <3>2, <1>5, <1>6
      <4>2. got'[r][i] = Chunk(r, k)[i - Len(got[r])]
        BY <3>2, <1>4, <1>5, <1>6
      <4> QED
        BY <4>1, <4>2, <1>4, <1>5 DEF Start
    <3> QED
      BY <3>1, <3>2, <1>5, <1>6
  <2> QED
    BY <2>1, <1>3, <1>8 DEF InHand
<1>11. ProcessOK(r)'
  BY <1>2, <1>3 DEF ProcessOK, Types
<1>12. ASSUME NEW i \in DOMAIN sent'[r] PROVE SentFrame(r, i)'
  BY <1>2, <1>8 DEF RawInv, SentFrame
<1>13. ASSUME NEW q \in Requests \ {r}
       PROVE  /\ PipeOK(q)' /\ InHand(q)' /\ ProcessOK(q)'
              /\ \A i \in DOMAIN sent'[q] : SentFrame(q, i)'
  <2>1. /\ client'[q] = client[q] /\ taken'[q] = taken[q] /\ got'[q] = got[q]
    BY <1>1, <1>2, <1>3 DEF Types
  <2>2. (Start(q))' = Start(q)
    BY <2>1 DEF Start
  <2> QED
    BY <1>2, <2>1, <2>2 DEF RawInv, PipeOK, InHand, ProcessOK, SentFrame
<1> QED
  BY <1>7, <1>9, <1>10, <1>11, <1>12, <1>13 DEF RawInv

(* YieldFrame is done with a frame: the next one begins where it ended.      *)
LEMMA FrameDoneStarts ==
    ASSUME RawInv, NEW r \in Requests, client[r] = "decoded",
           got' = [got EXCEPT ![r] = <<>>], UNCHANGED taken
    PROVE  /\ (Start(r))' = Start(r) + FrameBytes /\ InHand(r)'
           /\ got[r] = FrameFrom(Start(r))
           /\ got' \in [Requests -> Seq(Nat)] /\ Len(got'[r]) = 0
<1> USE RawAssumption
<1>1. Types /\ PipeOK(r) /\ InHand(r)
  BY DEF RawInv
<1>2. got'[r] = <<>> /\ got' \in [Requests -> Seq(Nat)]
  BY <1>1 DEF Types
<1>3. Len(got[r]) = FrameBytes /\ taken[r] \in Nat /\ taken'[r] = taken[r] /\ got[r] \in Seq(Nat)
  BY <1>1 DEF PipeOK, Types
<1>4. Start(r) \in Nat /\ (Start(r))' = taken[r] /\ Start(r) = taken[r] - FrameBytes
  BY <1>1, <1>2, <1>3 DEF Start, InHand
<1>5. (Start(r))' = Start(r) + FrameBytes
  BY <1>3, <1>4
<1>6. StartsFrame(Start(r) + FrameBytes)
  <2> HIDE DEF Start
  <2> QED
    BY <1>1, <1>4, NextFrameStarts DEF InHand
<1>7. InHand(r)'
  BY <1>2, <1>4, <1>5, <1>6 DEF InHand
<1>8. got[r] = FrameFrom(Start(r))
  BY <1>1, <1>3 DEF InHand, FrameFrom
<1> QED
  BY <1>2, <1>5, <1>7, <1>8

LEMMA YieldKeeps ==
    ASSUME RawInv, NEW r \in Requests, YieldFrame(r) PROVE RawInv'
<1> USE RawAssumption
<1>1. /\ client[r] = "decoded" /\ client' = [client EXCEPT ![r] = "yielded"]
      /\ got' = [got EXCEPT ![r] = <<>>]
      /\ sent' = [sent EXCEPT ![r] = Append(@, got[r])]
      /\ UNCHANGED <<proc, signal, written, taken, gone, left>>
  BY DEF YieldFrame, Goto, procVars
<1>2. Types /\ PipeOK(r) /\ InHand(r) /\ ProcessOK(r)
  BY DEF RawInv
<1>3. /\ (Start(r))' = Start(r) + FrameBytes /\ InHand(r)'
      /\ got[r] = FrameFrom(Start(r))
      /\ got' \in [Requests -> Seq(Nat)] /\ Len(got'[r]) = 0
  BY <1>1, FrameDoneStarts
<1>4. /\ sent[r] \in Seq(Seq(Nat)) /\ got[r] \in Seq(Nat)
      /\ sent'[r] = Append(sent[r], got[r]) /\ sent' \in [Requests -> Seq(Seq(Nat))]
  BY <1>1, <1>2 DEF Types
<1>5. Types'
  BY <1>1, <1>2, <1>3, <1>4 DEF Types, ClientPC
<1>6. PipeOK(r)' /\ ProcessOK(r)'
  BY <1>1, <1>2, <1>3 DEF PipeOK, ProcessOK, Types
<1>7. ASSUME NEW i \in DOMAIN sent'[r] PROVE SentFrame(r, i)'
  <2>1. Start(r) \in Nat /\ got[r][1] = Start(r)
    BY <1>2, <1>3 DEF InHand, FrameFrom
  <2>2. PICK n \in Nat : n = Len(sent[r])
    BY <1>4
  <2>3. i \in 1..(n + 1) /\ sent'[r][n + 1] = got[r] /\ \A j \in 1..n : sent'[r][j] = sent[r][j]
    BY <1>4, <2>2
  <2>4. \A j \in 1..n : SentFrame(r, j)
    BY <1>4, <2>2 DEF RawInv
  <2>5. \A j \in 1..n : sent[r][j][1] \in Nat /\ sent[r][j][1] + FrameBytes <= Start(r)
    BY <2>4 DEF SentFrame, StartsFrame
  <2>6. CASE i = n + 1
    <3>1. \A j \in 1..n : sent[r][j][1] < Start(r)
      BY <2>1, <2>5
    <3>2. sent'[r][i] = got[r] /\ sent'[r][i][1] = Start(r)
      BY <2>1, <2>3, <2>6
    <3>3. StartsFrame(Start(r)) /\ (Start(r))' = Start(r) + FrameBytes
      BY <1>2, <1>3 DEF InHand
    <3>4. \A j \in 1..(i - 1) : sent'[r][j][1] < sent'[r][i][1]
      BY <2>3, <2>6, <3>1, <3>2
    <3>5. StartsFrame(sent'[r][i][1]) /\ sent'[r][i] = FrameFrom(sent'[r][i][1])
      BY <1>3, <3>2, <3>3
    <3>6. sent'[r][i][1] + FrameBytes <= (Start(r))'
      BY <2>1, <3>2, <3>3
    <3> QED
      BY <3>4, <3>5, <3>6 DEF SentFrame
  <2>7. CASE i \in 1..n
    <3>1. SentFrame(r, i)
      BY <2>4, <2>7
    <3>2. sent[r][i][1] + FrameBytes <= (Start(r))'
      BY <1>3, <2>1, <2>5, <2>7
    <3>3. \A j \in 1..(i - 1) : j \in 1..n
      BY <2>7
    <3> QED
      BY <2>3, <2>7, <3>1, <3>2, <3>3 DEF SentFrame
  <2> QED
    BY <2>3, <2>6, <2>7
<1>8. ASSUME NEW q \in Requests \ {r}
      PROVE  /\ PipeOK(q)' /\ InHand(q)' /\ ProcessOK(q)'
             /\ \A i \in DOMAIN sent'[q] : SentFrame(q, i)'
  <2>1. client'[q] = client[q] /\ got'[q] = got[q] /\ sent'[q] = sent[q]
    BY <1>1, <1>2 DEF Types
  <2>2. (Start(q))' = Start(q)
    BY <1>1, <2>1 DEF Start
  <2> QED
    BY <1>1, <2>1, <2>2 DEF RawInv, PipeOK, InHand, ProcessOK, SentFrame
<1> QED
  BY <1>3, <1>5, <1>6, <1>7, <1>8 DEF RawInv

(* Back to read_exact: the next frame begins with the next byte, however     *)
(* that is numbered.                                                         *)
LEMMA NextFrameKeeps ==
    ASSUME RawInv, NEW r \in Requests, SkipFrame(r) \/ FrameSent(r) PROVE RawInv'
<1> USE RawAssumption
<1> DEFINE horizon == MaxFrames * FrameBytes
<1>1. /\ client[r] \in {"decoded", "yielded"} /\ client' = [client EXCEPT ![r] = "reading"]
      /\ got' = [got EXCEPT ![r] = <<>>] \/ (client[r] = "yielded" /\ got' = got)
      /\ Renumber(r)
      /\ UNCHANGED <<proc, signal, gone, left>>
  BY DEF SkipFrame, FrameSent, Goto
<1>2. Types /\ PipeOK(r) /\ InHand(r) /\ ProcessOK(r)
  BY DEF RawInv
<1>3. /\ got' \in [Requests -> Seq(Nat)] /\ Len(got'[r]) = 0
      /\ \A q \in Requests \ {r} : got'[q] = got[q]
  <2>1. got \in [Requests -> Seq(Nat)]
    BY <1>2 DEF Types
  <2>2. CASE got' = [got EXCEPT ![r] = <<>>]
    BY <2>1, <2>2
  <2>3. CASE client[r] = "yielded" /\ got' = got
    BY <1>2, <2>1, <2>3 DEF PipeOK
  <2> QED
    BY <1>1, <2>2, <2>3
<1>4. /\ taken[r] \in Nat /\ StartsFrame(taken[r]) /\ Start(r) <= taken[r]
      /\ written[r] \in Nat /\ Start(r) \in Nat
  <2>1. taken[r] \in Nat /\ written[r] \in Nat /\ Start(r) \in Nat /\ StartsFrame(Start(r))
    BY <1>2 DEF Types, InHand
  <2>2. CASE client[r] = "yielded"
    <3>1. Start(r) = taken[r]
      BY <1>2, <2>1, <2>2 DEF PipeOK, Start
    <3> QED
      BY <2>1, <3>1
  <2>3. CASE client[r] = "decoded"
    <3>1. taken[r] = Start(r) + FrameBytes
      BY <1>2, <2>1, <2>3 DEF PipeOK, Start
    <3> HIDE DEF Start
    <3> QED
      BY <2>1, <3>1, NextFrameStarts
  <2> QED
    BY <1>1, <2>2, <2>3
<1>5. horizon \in Nat
  OBVIOUS
<1> HIDE DEF Start
<1>6. ASSUME NEW q \in Requests \ {r}
      PROVE  /\ PipeOK(q)' /\ InHand(q)' /\ ProcessOK(q)'
             /\ \A i \in DOMAIN sent'[q] : SentFrame(q, i)'
  <2>1. /\ client'[q] = client[q] /\ got'[q] = got[q] /\ sent'[q] = sent[q]
        /\ taken'[q] = taken[q] /\ written'[q] = written[q]
    BY <1>1, <1>2, <1>3 DEF Types, Renumber
  <2>2. (Start(q))' = Start(q)
    BY <2>1 DEF Start
  <2> QED
    BY <1>1, <2>1, <2>2 DEF RawInv, PipeOK, InHand, ProcessOK, SentFrame
<1>7. CASE taken[r] < horizon
  <2>1. UNCHANGED <<written, taken, sent>>
    BY <1>1, <1>7 DEF Renumber
  <2>2. (Start(r))' = taken[r]
    BY <1>3, <1>4, <2>1 DEF Start
  <2>3. Types'
    BY <1>1, <1>2, <1>3, <2>1 DEF Types, ClientPC
  <2>4. PipeOK(r)' /\ InHand(r)' /\ ProcessOK(r)'
    BY <1>1, <1>2, <1>3, <1>4, <2>1, <2>2 DEF PipeOK, InHand, ProcessOK, Types
  <2>5. ASSUME NEW i \in DOMAIN sent'[r] PROVE SentFrame(r, i)'
    <3>1. SentFrame(r, i)
      BY <2>1 DEF RawInv
    <3>2. sent[r][i][1] + FrameBytes <= (Start(r))'
      BY <1>4, <2>2, <3>1 DEF SentFrame, StartsFrame
    <3> QED
      BY <2>1, <3>1, <3>2 DEF SentFrame
  <2> QED
    BY <1>6, <2>3, <2>4, <2>5 DEF RawInv
<1>8. CASE taken[r] >= horizon
  <2>1. /\ written' = [written EXCEPT ![r] = @ - horizon]
        /\ taken' = [taken EXCEPT ![r] = @ - horizon]
        /\ sent' = [sent EXCEPT ![r] = <<>>]
    BY <1>1, <1>4, <1>5, <1>8 DEF Renumber
  <2>2. taken[r] - horizon \in Nat /\ StartsFrame(taken[r] - horizon)
    BY <1>4, <1>8, RenumberedStarts
  <2> HIDE DEF horizon
  <2>3. /\ taken'[r] = taken[r] - horizon /\ written'[r] = written[r] - horizon
        /\ sent'[r] = <<>> /\ written'[r] \in Nat
    BY <1>2, <1>4, <1>5, <2>1, <2>2 DEF Types, PipeOK
  <2>4. (Start(r))' = taken[r] - horizon
    BY <1>3, <1>4, <1>5, <2>3 DEF Start
  <2>5. Types'
    <3>1. written' \in [Requests -> Nat] /\ taken' \in [Requests -> Nat]
      BY <1>2, <2>1, <2>2, <2>3 DEF Types
    <3>2. sent' \in [Requests -> Seq(Seq(Nat))]
      BY <1>2, <2>1 DEF Types
    <3>3. client' \in [Requests -> ClientPC]
      BY <1>1, <1>2 DEF Types, ClientPC
    <3> QED
      BY <1>1, <1>2, <1>3, <3>1, <3>2, <3>3 DEF Types
  <2>6. client'[r] = "reading"
    BY <1>1, <1>2 DEF Types
  <2>7. PipeOK(r)'
    BY <1>2, <1>3, <1>4, <1>5, <2>3, <2>6 DEF PipeOK
  <2>8. InHand(r)'
    BY <1>3, <2>2, <2>4 DEF InHand
  <2>9. ProcessOK(r)'
    BY <2>6 DEF ProcessOK
  <2> QED
    BY <1>6, <2>3, <2>5, <2>7, <2>8, <2>9 DEF RawInv
<1> QED
  BY <1>4, <1>5, <1>7, <1>8

-----------------------------------------------------------------------------
(* The other steps *)

LEMMA BytesUntouched ==
    ASSUME RawInv, UNCHANGED <<taken, got, sent>>,
           Types', \A q \in Requests : PipeOK(q)' /\ ProcessOK(q)'
    PROVE  RawInv'
<1>1. ASSUME NEW q \in Requests
      PROVE  InHand(q)' /\ \A i \in DOMAIN sent'[q] : SentFrame(q, i)'
  <2>1. (Start(q))' = Start(q)
    BY DEF Start
  <2> QED
    BY <2>1 DEF RawInv, InHand, SentFrame
<1> QED
  BY <1>1 DEF RawInv

LEMMA ClientKeeps ==
    ASSUME RawInv, NEW r \in Requests,
           \/ Request(r) \/ ConfigureFails(r) \/ Popen(r) \/ EndOfStream(r)
           \/ ViewerGoes(r) \/ ViewerLeft(r)
           \/ Terminate(r) \/ WaitEnds(r) \/ WaitTimesOut(r)
    PROVE  RawInv'
<1> USE RawAssumption
<1>1. Types /\ \A q \in Requests : PipeOK(q) /\ ProcessOK(q)
  BY DEF RawInv
<1>2. CASE Request(r) \/ ConfigureFails(r)
  <2>1. Types' /\ UNCHANGED <<taken, got, sent>>
    BY <1>1, <1>2 DEF Types, ClientPC, Request, ConfigureFails, Goto, procVars, readVars
  <2>2. ASSUME NEW q \in Requests PROVE PipeOK(q)' /\ ProcessOK(q)'
    BY <1>1, <1>2 DEF Types, PipeOK, ProcessOK, Request, ConfigureFails, Goto,
                      procVars, readVars
  <2> QED
    BY <2>1, <2>2, BytesUntouched
<1>3. CASE Popen(r)
  <2>1. Types' /\ UNCHANGED <<taken, got, sent>>
    BY <1>1, <1>3 DEF Types, ClientPC, Live, Popen, Goto, readVars
  <2>2. ASSUME NEW q \in Requests PROVE PipeOK(q)' /\ ProcessOK(q)'
    BY <1>1, <1>3 DEF Types, PipeOK, ProcessOK, Popen, Goto, readVars
  <2> QED
    BY <2>1, <2>2, BytesUntouched
<1>4. CASE EndOfStream(r)
  <2>1. Types' /\ UNCHANGED <<taken, got, sent>>
    BY <1>1, <1>4 DEF Types, ClientPC, EndOfStream, Goto, procVars, readVars
  <2>2. ASSUME NEW q \in Requests PROVE PipeOK(q)' /\ ProcessOK(q)'
    BY <1>1, <1>4 DEF Types, PipeOK, ProcessOK, EndOfStream, Goto, procVars, readVars
  <2> QED
    BY <2>1, <2>2, BytesUntouched
<1>5. CASE ViewerLeft(r)
  <2>1. Types'
    BY <1>1, <1>5 DEF Types, ClientPC, ViewerLeft, Goto, procVars
  <2>2. UNCHANGED <<taken, got, sent>>
    BY <1>5 DEF ViewerLeft
  <2>3. ASSUME NEW q \in Requests PROVE PipeOK(q)' /\ ProcessOK(q)'
    BY <1>1, <1>5 DEF Types, PipeOK, ProcessOK, ViewerLeft, Goto, procVars
  <2> QED
    BY <2>1, <2>2, <2>3, BytesUntouched
<1>6. CASE Terminate(r) \/ WaitEnds(r) \/ WaitTimesOut(r)
  <2>1. Types' /\ UNCHANGED <<taken, got, sent>>
    BY <1>1, <1>6 DEF Types, ClientPC, Terminate, WaitEnds, WaitTimesOut, Goto,
                      procVars, readVars
  <2>2. ASSUME NEW q \in Requests PROVE PipeOK(q)' /\ ProcessOK(q)'
    BY <1>1, <1>6 DEF Types, PipeOK, ProcessOK, Terminate, WaitEnds, WaitTimesOut,
                      Goto, procVars, readVars
  <2> QED
    BY <2>1, <2>2, BytesUntouched
<1>7. CASE ViewerGoes(r)
  <2>1. Types' /\ UNCHANGED <<taken, got, sent>>
    BY <1>1, <1>7 DEF Types, ViewerGoes, procVars
  <2>2. ASSUME NEW q \in Requests PROVE PipeOK(q)' /\ ProcessOK(q)'
    BY <1>1, <1>7 DEF Types, PipeOK, ProcessOK, ViewerGoes, procVars
  <2> QED
    BY <2>1, <2>2, BytesUntouched
<1> QED
  BY <1>2, <1>3, <1>4, <1>5, <1>6, <1>7

LEMMA ProcessKeeps ==
    ASSUME RawInv, NEW r \in Requests,
           GetsCamera(r) \/ WriteBytes(r) \/ Ends(r) \/ Killed(r)
    PROVE  RawInv'
<1> USE RawAssumption
<1>1. Types /\ \A q \in Requests : PipeOK(q) /\ ProcessOK(q)
  BY DEF RawInv
<1>2. CASE GetsCamera(r)
  <2>1. Types' /\ UNCHANGED <<taken, got, sent>>
    BY <1>1, <1>2 DEF Types, Live, GetsCamera, readVars
  <2>2. ASSUME NEW q \in Requests PROVE PipeOK(q)' /\ ProcessOK(q)'
    BY <1>1, <1>2 DEF Types, PipeOK, ProcessOK, GetsCamera, readVars
  <2> QED
    BY <2>1, <2>2, BytesUntouched
<1>3. CASE WriteBytes(r)
  <2>1. PICK k \in 1..PipeSize : /\ written[r] + k <= taken[r] + PipeSize
                                 /\ written' = [written EXCEPT ![r] = @ + k]
    BY <1>3 DEF WriteBytes
  <2>2. /\ proc[r] = "streaming" /\ UNCHANGED <<client, proc, signal, taken, got, sent, gone, left>>
    BY <1>3 DEF WriteBytes, readVars
  <2>3. Types'
    BY <1>1, <2>1, <2>2 DEF Types
  <2>4. ASSUME NEW q \in Requests PROVE PipeOK(q)' /\ ProcessOK(q)'
    BY <1>1, <2>1, <2>2 DEF Types, PipeOK, ProcessOK
  <2> QED
    BY <2>2, <2>3, <2>4, BytesUntouched
<1>4. CASE Ends(r) \/ Killed(r)
  <2>1. Types' /\ UNCHANGED <<taken, got, sent>>
    BY <1>1, <1>4 DEF Types, Live, Ends, Killed, readVars
  <2>2. ASSUME NEW q \in Requests PROVE PipeOK(q)' /\ ProcessOK(q)'
    BY <1>1, <1>4 DEF Types, PipeOK, ProcessOK, Live, Ends, Killed, readVars
  <2> QED
    BY <2>1, <2>2, BytesUntouched
<1> QED
  BY <1>2, <1>3, <1>4

LEMMA RawStutter ==
    ASSUME RawInv, UNCHANGED vars PROVE RawInv'
BY DEF RawInv, Types, PipeOK, InHand, ProcessOK, SentFrame, Start, vars

LEMMA RawInvariant == Spec => []RawInv
<1>1. ASSUME RawInv, Next PROVE RawInv'
  <2>1. PICK r \in Requests :
            \/ Request(r) \/ ConfigureFails(r) \/ Popen(r)
            \/ ReadExact(r) \/ EndOfStream(r) \/ YieldFrame(r) \/ SkipFrame(r)
            \/ FrameSent(r) \/ ViewerGoes(r) \/ ViewerLeft(r)
            \/ Terminate(r) \/ WaitEnds(r) \/ WaitTimesOut(r)
            \/ GetsCamera(r) \/ WriteBytes(r) \/ Ends(r) \/ Killed(r)
    BY <1>1 DEF Next, ClientStep
  <2> QED
    BY <1>1, <2>1, ReadKeeps, YieldKeeps, NextFrameKeeps, ClientKeeps, ProcessKeeps
<1> QED
  BY RawInit, RawStutter, <1>1, PTL DEF Spec

-----------------------------------------------------------------------------
(* No pipe is overfull, read_exact never has more than a frame, and every    *)
(* variable keeps its type, for any sizes of frame and pipe (read_exact,     *)
(* testcamera.py:192-204).                                                   *)
THEOREM RawTypeCorrect == Spec => []TypeOK
<1>1. RawInv => TypeOK
  BY DEF RawInv, Types, PipeOK, TypeOK
<1> QED
  BY <1>1, RawInvariant, PTL

(* Viewers are shown whole frames of the camera, in order and none twice,    *)
(* however many bytes a read gives (iter_raw_frames, testcamera.py:242-247). *)
THEOREM FramesAreWhole == Spec => []WholeFrames
<1>1. RawInv => WholeFrames
  BY DEF RawInv, SentFrame, WholeFrames
<1> QED
  BY <1>1, RawInvariant, PTL

(* A stream ends under a viewer who stays only when v4l2-ctl has ended and   *)
(* all it wrote was looked at (testcamera.py:196-200, 245).                  *)
THEOREM StreamEndsWithProcess == Spec => []EndsWithProcess
<1>1. RawInv => EndsWithProcess
  BY DEF RawInv, ProcessOK, EndsWithProcess
<1> QED
  BY <1>1, RawInvariant, PTL

(* No v4l2-ctl is left without a generator or a signal, for any number of    *)
(* requests (iter_raw_frames, testcamera.py:242-253).                        *)
THEOREM NoProcessOrphaned == Spec => []NoOrphan
<1>1. RawInv => NoOrphan
  <2> SUFFICES ASSUME RawInv, NEW r \in Requests, proc[r] \in Live,
                      client[r] \notin {"reading", "decoded", "yielded", "closing"}
               PROVE  signal[r] # "none"
    BY DEF NoOrphan
  <2> QED
    BY DEF RawInv, Types, ClientPC, ProcessOK, Live
<1> QED
  BY <1>1, RawInvariant, PTL
=============================================================================
