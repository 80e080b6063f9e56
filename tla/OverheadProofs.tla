--------------------------- MODULE OverheadProofs ---------------------------
(***************************************************************************)
(* Machine-checked proofs about module Overhead, for any set of threads.   *)
(*                                                                         *)
(* IInv is the inductive strengthening the theorems rest on.  Its core is  *)
(* that a thread is in no calibration, in the steady clock's, or in the    *)
(* thread clock's within the steady clock's (Shape), that each mutex's     *)
(* depth is the number of calls its owner is suspended in (MutexCount),    *)
(* and that an overhead that was asked for but is not measured is being    *)
(* measured by the mutex's owner (Progress).                               *)
(***************************************************************************)
EXTENDS Overhead, SequenceTheorems, TLAPS

\* Thread t is calibrating clock c.
Within(t, c) == Len(frames[t]) >= (IF c = "steady" THEN 1 ELSE 2)

\* Thread t is in a GetOverhead< c >() call that it is not suspended in.
InCall(t, c) == pc[t] \in {"test", "unlock"} /\ clk[t] = c

\* How often thread t has acquired the mutex of clock c.
Held(t, c) ==
  (IF Within(t, c) THEN 1 ELSE 0) + (IF InCall(t, c) THEN 1 ELSE 0)

Shape ==
  \A t \in Thread :
    /\ Len(frames[t]) \in {0, 1, 2}
    /\ Len(frames[t]) = 1 => frames[t][1].clock = "steady"
    /\ Len(frames[t]) = 2 => /\ frames[t][1].clock = "thread"
                             /\ frames[t][1].steady = "zero"
                             /\ frames[t][2].clock = "steady"
    /\ pc[t] = "idle" => Len(frames[t]) = 0
    /\ pc[t] = "autotime" => Len(frames[t]) # 0

MutexCount ==
  \A c \in Clock :
    /\ \A t \in Thread : IF owner[c] = t THEN depth[c] = Held(t, c) /\ depth[c] > 0
                                         ELSE Held(t, c) = 0
    /\ owner[c] = NoThread => depth[c] = 0

Progress ==
  /\ \A c \in Clock :
       /\ overhead[c] = "measured" => called[c]
       /\ called[c] /\ overhead[c] = "zero" =>
            \E t \in Thread : owner[c] = t /\ Within(t, c)
       /\ \A t \in Thread : Within(t, c) => called[c] /\ overhead[c] = "zero"
       /\ \A t \in Thread : pc[t] = "unlock" /\ clk[t] = c => called[c]
  /\ overhead["steady"] = "measured" => overhead["thread"] = "measured"

\* What End() knows of the steady overhead when it asks for the other one.
LocalSteady ==
  \A t \in Thread :
    pc[t] \in {"lock", "test", "unlock"} /\ clk[t] = "thread" =>
      /\ steady[t] = IF Len(frames[t]) = 0 THEN "measured" ELSE "zero"
      /\ Len(frames[t]) = 0 => overhead["steady"] = "measured"

\* The corrections of the samples, from the innermost calibration outwards.
Corrections ==
  \A t \in Thread :
    /\ Len(frames[t]) = 1 =>
         /\ frames[t][1].corr \subseteq {<<"zero", "measured">>}
         /\ frames[t][1].corr # {} => overhead["thread"] = "measured"
    /\ Len(frames[t]) = 2 =>
         /\ frames[t][1].corr \subseteq {<<"zero", "zero">>}
         /\ frames[t][2].corr = {}

IInv ==
  /\ TypeOK
  /\ Shape
  /\ MutexCount
  /\ Progress
  /\ LocalSteady
  /\ Corrections
  /\ OutermostCorrected

-----------------------------------------------------------------------------

LEMMA PushFrame ==
  ASSUME NEW s \in Seq(Frame), NEW f \in Frame
  PROVE  /\ <<f>> \o s \in Seq(Frame)
         /\ Len(<<f>> \o s) = Len(s) + 1
         /\ (<<f>> \o s)[1] = f
         /\ Len(s) >= 1 => (<<f>> \o s)[2] = s[1]
  OBVIOUS

LEMMA PopFrame ==
  ASSUME NEW s \in Seq(Frame), Len(s) > 0
  PROVE  /\ Tail(s) \in Seq(Frame)
         /\ Len(Tail(s)) = Len(s) - 1
         /\ Head(s) = s[1]
         /\ Head(s) \in Frame
         /\ Len(s) >= 2 => Tail(s)[1] = s[2]
  OBVIOUS

LEMMA CorrectFrame ==
  ASSUME NEW s \in Seq(Frame), Len(s) > 0, NEW p \in Value \X Value
  PROVE  LET r == [s EXCEPT ![1].corr = @ \cup {p}]
         IN /\ r \in Seq(Frame)
            /\ Len(r) = Len(s)
            /\ r[1] = [s[1] EXCEPT !.corr = @ \cup {p}]
            /\ r[1].clock = s[1].clock
            /\ r[1].steady = s[1].steady
            /\ r[1].corr = s[1].corr \cup {p}
            /\ Len(s) >= 2 => r[2] = s[2]
<1> DEFINE r == [s EXCEPT ![1].corr = @ \cup {p}]
<1>1. s[1] \in Frame
  OBVIOUS
<1>2. [s[1] EXCEPT !.corr = @ \cup {p}] \in Frame
  BY <1>1 DEF Frame
<1>3. r \in Seq(Frame) /\ Len(r) = Len(s)
  BY <1>2
<1>4. 1 \in DOMAIN s /\ (Len(s) >= 2 => 2 \in DOMAIN s)
  OBVIOUS
<1>5. r[1] = [s[1] EXCEPT !.corr = @ \cup {p}]
  BY <1>4
<1>6. Len(s) >= 2 => r[2] = s[2]
  BY <1>4
<1> QED
  BY <1>1, <1>3, <1>5, <1>6 DEF Frame

LEMMA EmptyFrames ==
  ASSUME NEW s \in Seq(Frame)
  PROVE  s = <<>> <=> Len(s) = 0
  OBVIOUS

LEMMA TypeStep == TypeOK /\ Shape /\ MutexCount /\ [Next]_vars => TypeOK'
<1> SUFFICES ASSUME TypeOK, Shape, MutexCount, [Next]_vars PROVE TypeOK'
  OBVIOUS
<1> USE DEF TypeOK
<1>1. ASSUME NEW t \in Thread, Time(t) PROVE TypeOK'
  BY <1>1 DEF Time, EnterEnd, Clock
<1>2. ASSUME NEW t \in Thread, Lock(t) PROVE TypeOK'
  BY <1>2 DEF Lock, MayLock, Deeper
<1>3. ASSUME NEW t \in Thread, AlreadyCalled(t) PROVE TypeOK'
  BY <1>3 DEF AlreadyCalled
<1>4. ASSUME NEW t \in Thread, BeginCalibration(t) PROVE TypeOK'
  <2> DEFINE f == [clock |-> clk[t], steady |-> steady[t], corr |-> {}]
  <2>1. f \in Frame
    BY DEF Frame
  <2>2. <<f>> \o frames[t] \in Seq(Frame)
    BY <2>1, PushFrame
  <2> QED
    BY <1>4, <2>2 DEF BeginCalibration, Flagged
<1>5. ASSUME NEW t \in Thread, Sample(t) PROVE TypeOK'
  BY <1>5 DEF Sample, EnterEnd, Clock
<1>6. ASSUME NEW t \in Thread, EndCalibration(t) PROVE TypeOK'
  <2>1. Len(frames[t]) > 0
    BY <1>6 DEF EndCalibration, HasSamples, Shape
  <2>2. Tail(frames[t]) \in Seq(Frame) /\ Head(frames[t]) \in Frame
    BY <2>1, PopFrame
  <2> QED
    BY <1>6, <2>2 DEF EndCalibration, HasSamples, Frame, Value
<1>7. ASSUME NEW c \in Clock, NEW t \in Thread, InCall(t, c), Release(c)
      PROVE  owner' \in [Clock -> Thread \cup {NoThread}] /\ depth' \in [Clock -> Nat]
  <2>1. Held(t, c) # 0
    BY <1>7 DEF Held
  <2>2. depth[c] \in Nat /\ depth[c] > 0
    BY <2>1 DEF MutexCount
  <2> QED
    BY <1>7, <2>2 DEF Release
<1>8. ASSUME NEW t \in Thread, ReturnSteady(t) PROVE TypeOK'
  <2>1. InCall(t, "steady") /\ Release("steady")
    BY <1>8 DEF ReturnSteady, InCall
  <2> QED
    BY <1>7, <1>8, <2>1 DEF ReturnSteady, Clock
<1>9. ASSUME NEW t \in Thread, ReturnOutermost(t) PROVE TypeOK'
  <2>1. InCall(t, "thread") /\ Release("thread")
    BY <1>9 DEF ReturnOutermost, InCall
  <2> QED
    BY <1>7, <1>9, <2>1 DEF ReturnOutermost, Clock
<1>10. ASSUME NEW t \in Thread, ReturnNested(t) PROVE TypeOK'
  <2>1. InCall(t, "thread") /\ Release("thread")
    BY <1>10 DEF ReturnNested, InCall
  <2>2. Len(frames[t]) > 0
    BY <1>10, EmptyFrames DEF ReturnNested
  <2>3. <<steady[t], overhead["thread"]>> \in Value \X Value
    BY DEF Clock
  <2>4. [frames[t] EXCEPT ![1].corr = @ \cup {<<steady[t], overhead["thread"]>>}] \in Seq(Frame)
    BY <2>2, <2>3, CorrectFrame
  <2> QED
    BY <1>7, <1>10, <2>1, <2>4 DEF ReturnNested, Clock
<1>11. CASE UNCHANGED vars
  BY <1>11 DEF vars
<1> QED
  BY <1>1, <1>2, <1>3, <1>4, <1>5, <1>6, <1>8, <1>9, <1>10, <1>11 DEF Next, Step

-----------------------------------------------------------------------------

LEMMA TimeStep ==
  ASSUME IInv, NEW t \in Thread, Time(t)
  PROVE  Shape' /\ MutexCount' /\ Progress' /\ LocalSteady' /\ Corrections' /\ OutermostCorrected'
<1> USE DEF IInv, TypeOK, Time, EnterEnd, Within, InCall
<1>1. Shape'
  BY DEF Shape
<1>2. MutexCount'
  BY DEF MutexCount, Held, Clock
<1>3. Progress'
  BY DEF Progress
<1>4. LocalSteady'
  BY DEF LocalSteady
<1>5. Corrections' /\ OutermostCorrected'
  BY DEF Corrections, OutermostCorrected
<1> QED
  BY <1>1, <1>2, <1>3, <1>4, <1>5

LEMMA LockStep ==
  ASSUME IInv, NEW t \in Thread, Lock(t)
  PROVE  Shape' /\ MutexCount' /\ Progress' /\ LocalSteady' /\ Corrections' /\ OutermostCorrected'
<1> USE ThreadAssumption DEF IInv, TypeOK, Lock, MayLock, Deeper, Within, InCall
<1>1. Shape'
  BY DEF Shape
<1>2. MutexCount'
  BY DEF MutexCount, Held, Clock
<1>3. Progress'
  BY DEF Progress
<1>4. LocalSteady'
  BY DEF LocalSteady
<1>5. Corrections' /\ OutermostCorrected'
  BY DEF Corrections, OutermostCorrected
<1> QED
  BY <1>1, <1>2, <1>3, <1>4, <1>5

LEMMA AlreadyCalledStep ==
  ASSUME IInv, NEW t \in Thread, AlreadyCalled(t)
  PROVE  Shape' /\ MutexCount' /\ Progress' /\ LocalSteady' /\ Corrections' /\ OutermostCorrected'
<1> USE DEF IInv, TypeOK, AlreadyCalled, Within, InCall
<1>1. Shape'
  BY DEF Shape
<1>2. MutexCount'
  BY DEF MutexCount, Held, Clock
<1>3. Progress'
  BY DEF Progress
<1>4. LocalSteady'
  BY DEF LocalSteady
<1>5. Corrections' /\ OutermostCorrected'
  BY DEF Corrections, OutermostCorrected
<1> QED
  BY <1>1, <1>2, <1>3, <1>4, <1>5

LEMMA SampleStep ==
  ASSUME IInv, NEW t \in Thread, Sample(t)
  PROVE  Shape' /\ MutexCount' /\ Progress' /\ LocalSteady' /\ Corrections' /\ OutermostCorrected'
<1> USE DEF IInv, TypeOK, Sample, EnterEnd, Within, InCall
<1>1. Shape'
  BY DEF Shape
<1>2. MutexCount'
  BY DEF MutexCount, Held, Clock
<1>3. Progress'
  BY DEF Progress
<1>4. LocalSteady'
  BY DEF LocalSteady
<1>5. Corrections' /\ OutermostCorrected'
  BY DEF Corrections, OutermostCorrected
<1> QED
  BY <1>1, <1>2, <1>3, <1>4, <1>5

LEMMA BeginCalibrationStep ==
  ASSUME IInv, NEW t \in Thread, BeginCalibration(t)
  PROVE  Shape' /\ MutexCount' /\ Progress' /\ LocalSteady' /\ Corrections' /\ OutermostCorrected'
<1> DEFINE f == [clock |-> clk[t], steady |-> steady[t], corr |-> {}]
<1> USE DEF IInv
<1>1. /\ frames[t] \in Seq(Frame) /\ frames'[t] = <<f>> \o frames[t]
      /\ \A u \in Thread : u # t => frames'[u] = frames[u]
  BY DEF BeginCalibration, Flagged, TypeOK
<1>2. f \in Frame
  BY DEF TypeOK, Frame
<1>3. /\ Len(frames'[t]) = Len(frames[t]) + 1
      /\ frames'[t][1] = f
      /\ Len(frames[t]) >= 1 => frames'[t][2] = frames[t][1]
  BY <1>1, <1>2, PushFrame
<1>4. owner[clk[t]] = t /\ pc[t] = "test" /\ ~called[clk[t]] /\ clk[t] \in Clock
  BY DEF BeginCalibration, Flagged, TypeOK, MutexCount, Held, InCall, Clock
<1>5. overhead[clk[t]] = "zero"
  BY <1>4 DEF Progress, TypeOK, Value
<1>6. \/ clk[t] = "steady" /\ Len(frames[t]) = 0
      \/ clk[t] = "thread" /\ Len(frames[t]) = 1 /\ steady[t] = "zero"
  <2>1. CASE clk[t] = "steady"
    BY <1>4, <2>1 DEF Progress, Within, Shape, Clock
  <2>2. CASE clk[t] = "thread"
    <3>1. Len(frames[t]) # 2
      BY <1>4, <2>2 DEF Progress, Within, Clock
    <3>2. Len(frames[t]) # 0
      BY <1>4, <2>2 DEF Progress, LocalSteady, Clock
    <3> QED
      BY <1>4, <2>2, <3>1, <3>2 DEF Shape, LocalSteady
  <2> QED
    BY <1>4, <2>1, <2>2 DEF Clock
<1>7. Shape'
  BY <1>1, <1>3, <1>6 DEF Shape, BeginCalibration, Flagged, TypeOK
<1>8. MutexCount'
  BY <1>1, <1>3, <1>4, <1>6 DEF MutexCount, Held, Within, InCall, BeginCalibration, Flagged, TypeOK, Clock
<1>9. Progress'
  BY <1>1, <1>3, <1>4, <1>5, <1>6 DEF Progress, Within, BeginCalibration, Flagged, TypeOK, Clock
<1>10. LocalSteady'
  BY <1>1 DEF LocalSteady, BeginCalibration, Flagged, TypeOK
<1>11. Corrections'
  BY <1>1, <1>3, <1>4, <1>5, <1>6 DEF Corrections, BeginCalibration, Flagged, TypeOK, Value
<1>12. OutermostCorrected'
  BY DEF OutermostCorrected, BeginCalibration, Flagged
<1> QED
  BY <1>7, <1>8, <1>9, <1>10, <1>11, <1>12

LEMMA EndCalibrationStep ==
  ASSUME IInv, NEW t \in Thread, EndCalibration(t)
  PROVE  Shape' /\ MutexCount' /\ Progress' /\ LocalSteady' /\ Corrections' /\ OutermostCorrected'
<1> USE DEF IInv
<1>1. /\ frames[t] \in Seq(Frame) /\ Len(frames[t]) \in {1, 2}
      /\ pc[t] = "autotime"
      /\ frames'[t] = Tail(frames[t])
      /\ \A u \in Thread : u # t => frames'[u] = frames[u]
  BY DEF EndCalibration, HasSamples, TypeOK, Shape
<1>2. /\ Len(frames'[t]) = Len(frames[t]) - 1
      /\ Head(frames[t]) = frames[t][1]
      /\ Len(frames[t]) >= 2 => frames'[t][1] = frames[t][2]
  <2>1. Len(frames[t]) > 0
    BY <1>1
  <2>2. /\ Len(Tail(frames[t])) = Len(frames[t]) - 1
        /\ Head(frames[t]) = frames[t][1]
        /\ Len(frames[t]) >= 2 => Tail(frames[t])[1] = frames[t][2]
    BY <1>1, <2>1, PopFrame
  <2> QED
    BY <1>1, <2>2
<1>3. \A c \in Clock : Within(t, c) => owner[c] = t /\ called[c] /\ overhead[c] = "zero"
  BY DEF MutexCount, Held, Within, Progress
<1>4. pc[t] = "autotime" /\ \A u \in Thread : u # t => frames'[u] = frames[u]
  BY <1>1
<1>5. CASE Len(frames[t]) = 1
  <2>0. Len(frames'[t]) = 0
    BY <1>2, <1>5
  <2>1. /\ overhead' = [overhead EXCEPT !["steady"] = "measured"]
        /\ clk' = [clk EXCEPT ![t] = "steady"]
        /\ pc' = [pc EXCEPT ![t] = "unlock"]
        /\ UNCHANGED <<called, owner, depth, result>>
        /\ \A u \in Thread : u # t => steady'[u] = steady[u]
    BY <1>1, <1>2, <1>5 DEF EndCalibration, HasSamples, Shape, TypeOK
  <2>2. overhead["thread"] = "measured"
    BY <1>2, <1>5 DEF EndCalibration, HasSamples, Corrections
  <2>3. \A u \in Thread : u # t => ~Within(u, "steady")
    BY <1>3, <1>5 DEF MutexCount, Held, Within, Clock
  <2>4. Shape'
    BY <1>4, <2>0, <1>5, <2>1 DEF Shape, TypeOK
  <2>5. MutexCount'
    <3>1. \A u \in Thread, d \in Clock : u # t => Held(u, d)' = Held(u, d)
      BY <1>4, <2>1 DEF Held, Within, InCall, TypeOK
    <3>2. \A d \in Clock : Held(t, d)' = Held(t, d)
      BY <1>4, <1>5, <2>0, <2>1 DEF Held, Within, InCall, TypeOK, Clock
    <3> QED
      BY <2>1, <3>1, <3>2 DEF MutexCount
  <2>6. Progress'
    <3>1. \A u \in Thread, c \in Clock : ~Within(u, c)'
      BY <1>4, <2>0, <2>3 DEF Within, Shape, Clock
    <3>2. called' = called /\ called["steady"] /\ called["thread"]
      BY <1>3, <1>5, <2>1, <2>2 DEF Progress, Within, Clock
    <3>3. \A c \in Clock : overhead'[c] = "measured"
      BY <2>1, <2>2 DEF TypeOK, Clock
    <3> QED
      BY <3>1, <3>2, <3>3 DEF Progress, Clock
  <2>7. LocalSteady'
    BY <1>4, <2>0, <2>1 DEF LocalSteady, TypeOK, Clock
  <2>8. Corrections'
    <3>1. \A u \in Thread : Len(frames'[u]) = 0
      BY <1>4, <2>0, <2>3 DEF Within, Shape
    <3> QED
      BY <3>1 DEF Corrections
  <2>9. OutermostCorrected'
    BY <2>1 DEF OutermostCorrected
  <2> QED
    BY <2>4, <2>5, <2>6, <2>7, <2>8, <2>9
<1>6. CASE Len(frames[t]) = 2
  <2>0. Len(frames'[t]) = 1 /\ frames'[t][1] = frames[t][2]
    BY <1>2, <1>6
  <2>1. /\ overhead' = [overhead EXCEPT !["thread"] = "measured"]
        /\ clk' = [clk EXCEPT ![t] = "thread"]
        /\ steady' = [steady EXCEPT ![t] = "zero"]
        /\ pc' = [pc EXCEPT ![t] = "unlock"]
        /\ UNCHANGED <<called, owner, depth, result>>
    BY <1>1, <1>2, <1>6 DEF EndCalibration, HasSamples, Shape, TypeOK
  <2>2. \A u \in Thread : u # t => ~Within(u, "steady") /\ ~Within(u, "thread")
    BY <1>3, <1>6 DEF MutexCount, Held, Within, Clock
  <2>3. overhead["steady"] = "zero"
    BY <1>3, <1>6 DEF Within, Clock
  <2>4. Shape'
    BY <1>4, <2>0, <1>6, <2>1 DEF Shape, TypeOK
  <2>5. MutexCount'
    <3>1. \A u \in Thread, d \in Clock : u # t => Held(u, d)' = Held(u, d)
      BY <1>4, <2>1 DEF Held, Within, InCall, TypeOK
    <3>2. \A d \in Clock : Held(t, d)' = Held(t, d)
      BY <1>4, <1>6, <2>0, <2>1 DEF Held, Within, InCall, TypeOK, Clock
    <3> QED
      BY <2>1, <3>1, <3>2 DEF MutexCount
  <2>6. Progress'
    <3>1. \A u \in Thread, c \in Clock : Within(u, c)' <=> (u = t /\ c = "steady")
      <4>1. \A u \in Thread : u # t => Len(frames'[u]) = 0
        BY <1>4, <2>2 DEF Within, Shape
      <4> QED
        <5>1. ASSUME NEW u \in Thread, u # t, NEW c \in Clock PROVE ~Within(u, c)'
          BY <4>1, <5>1 DEF Within
        <5>2. Within(t, "steady")' /\ ~Within(t, "thread")'
          BY <2>0 DEF Within
        <5> QED
          BY <5>1, <5>2 DEF Clock
    <3>2. called' = called /\ called["steady"] /\ called["thread"] /\ owner'["steady"] = t
      BY <1>3, <1>6, <2>1 DEF Within, Clock
    <3>3. overhead'["thread"] = "measured" /\ overhead'["steady"] = "zero"
      BY <2>1, <2>3 DEF TypeOK, Clock
    <3> QED
      BY <3>1, <3>2, <3>3 DEF Progress, Clock
  <2>7. LocalSteady'
    BY <1>4, <2>0, <1>6, <2>1 DEF LocalSteady, TypeOK, Clock
  <2>8. Corrections'
    <3>1. \A u \in Thread : u # t => Len(frames'[u]) = 0
      BY <1>4, <2>2 DEF Within, Shape
    <3>2. frames'[t][1].corr = {}
      BY <1>6, <2>0 DEF Corrections
    <3> QED
      BY <2>0, <3>1, <3>2 DEF Corrections
  <2>9. OutermostCorrected'
    BY <2>1 DEF OutermostCorrected
  <2> QED
    BY <2>4, <2>5, <2>6, <2>7, <2>8, <2>9
<1> QED
  BY <1>1, <1>5, <1>6

LEMMA ReleaseStep ==
  ASSUME IInv, NEW t \in Thread, NEW c \in Clock, InCall(t, c), Release(c),
         pc'[t] \notin {"test", "unlock"}, Len(frames'[t]) = Len(frames[t]),
         \A u \in Thread : u # t => pc'[u] = pc[u] /\ clk'[u] = clk[u] /\ frames'[u] = frames[u]
  PROVE  MutexCount'
<1> USE ThreadAssumption DEF IInv, TypeOK
<1>1. owner[c] = t /\ depth[c] = (IF Within(t, c) THEN 2 ELSE 1)
  BY DEF MutexCount, Held
<1>2. \A d \in Clock : Held(t, d)' = (IF Within(t, d) THEN 1 ELSE 0)
  BY DEF Held, Within, InCall
<1>3. \A d \in Clock : d # c => Held(t, d) = (IF Within(t, d) THEN 1 ELSE 0)
  BY DEF Held, InCall
<1>4. \A u \in Thread, d \in Clock : u # t => Held(u, d)' = Held(u, d)
  BY DEF Held, Within, InCall
<1>5. /\ depth'[c] = depth[c] - 1
      /\ owner'[c] = IF depth[c] = 1 THEN NoThread ELSE t
      /\ \A d \in Clock : d # c => owner'[d] = owner[d] /\ depth'[d] = depth[d]
  BY <1>1 DEF Release
<1>6. ASSUME NEW d \in Clock
      PROVE  /\ \A u \in Thread : IF owner'[d] = u THEN depth'[d] = Held(u, d)' /\ depth'[d] > 0
                                                   ELSE Held(u, d)' = 0
             /\ owner'[d] = NoThread => depth'[d] = 0
  <2>1. CASE d = c
    <3>1. \A u \in Thread : u # t => Held(u, c)' = 0
      BY <1>1, <1>4 DEF MutexCount
    <3> QED
      BY <1>1, <1>2, <1>5, <2>1, <3>1
  <2>2. CASE d # c
    <3>1. \A u \in Thread : Held(u, d)' = Held(u, d)
      BY <1>2, <1>3, <1>4, <2>2
    <3> QED
      BY <1>5, <2>2, <3>1 DEF MutexCount
  <2> QED
    BY <2>1, <2>2
<1> QED
  BY <1>6 DEF MutexCount

LEMMA UnlockSteady ==
  ASSUME IInv, NEW t \in Thread, pc[t] = "unlock", clk[t] = "steady"
  PROVE  overhead["steady"] = IF Len(frames[t]) = 0 THEN "measured" ELSE "zero"
<1> USE DEF IInv
<1>1. owner["steady"] = t
  BY DEF MutexCount, Held, InCall, Clock
<1>2. called["steady"]
  BY DEF Progress, Clock
<1> QED
  BY <1>1, <1>2 DEF Progress, Within, Clock, Shape, TypeOK, Value

LEMMA UnlockThread ==
  ASSUME IInv, NEW t \in Thread, pc[t] = "unlock", clk[t] = "thread"
  PROVE  overhead["thread"] = IF Len(frames[t]) = 2 THEN "zero" ELSE "measured"
<1> USE DEF IInv
<1>1. owner["thread"] = t
  BY DEF MutexCount, Held, InCall, Clock
<1>2. called["thread"]
  BY DEF Progress, Clock
<1> QED
  BY <1>1, <1>2 DEF Progress, Within, Clock, Shape, TypeOK, Value

LEMMA ReturnSteadyStep ==
  ASSUME IInv, NEW t \in Thread, ReturnSteady(t)
  PROVE  Shape' /\ MutexCount' /\ Progress' /\ LocalSteady' /\ Corrections' /\ OutermostCorrected'
<1> USE DEF IInv, ReturnSteady, TypeOK
<1>1. overhead["steady"] = IF Len(frames[t]) = 0 THEN "measured" ELSE "zero"
  BY UnlockSteady
<1>2. Shape'
  BY DEF Shape
<1>3. MutexCount'
  BY ReleaseStep DEF InCall, Clock
<1>4. Progress'
  <2>1. owner["steady"] = t /\ depth["steady"] = IF Within(t, "steady") THEN 2 ELSE 1
    BY DEF MutexCount, Held, InCall, Clock
  <2>2. \A c \in Clock : \A u \in Thread :
           owner[c] = u /\ Within(u, c) => owner'[c] = u /\ Within(u, c)'
    BY <2>1 DEF Release, Within, Clock
  <2>3. \A c \in Clock, u \in Thread : Within(u, c)' <=> Within(u, c)
    BY DEF Within
  <2> QED
    BY <2>2, <2>3 DEF Progress, Clock
<1>5. LocalSteady'
  BY <1>1 DEF LocalSteady
<1>6. Corrections' /\ OutermostCorrected'
  BY DEF Corrections, OutermostCorrected
<1> QED
  BY <1>2, <1>3, <1>4, <1>5, <1>6

LEMMA ReturnOutermostStep ==
  ASSUME IInv, NEW t \in Thread, ReturnOutermost(t)
  PROVE  Shape' /\ MutexCount' /\ Progress' /\ LocalSteady' /\ Corrections' /\ OutermostCorrected'
<1>1. Len(frames[t]) = 0 /\ pc[t] = "unlock" /\ clk[t] = "thread"
  BY DEF ReturnOutermost
<1>2. overhead["thread"] = "measured" /\ steady[t] = "measured"
  <2>1. overhead["thread"] = "measured"
    BY <1>1, UnlockThread
  <2>2. steady[t] = "measured"
    BY <1>1 DEF IInv, LocalSteady
  <2> QED
    BY <2>1, <2>2
<1>3. owner["thread"] = t
  BY <1>1 DEF IInv, MutexCount, Held, InCall, Clock
<1> USE DEF IInv, ReturnOutermost, TypeOK
<1>4. Shape'
  BY <1>1 DEF Shape
<1>5. MutexCount'
  BY ReleaseStep DEF InCall, Clock
<1>6. Progress'
  <2>1. \A c \in Clock : \A u \in Thread :
           owner[c] = u /\ Within(u, c) => owner'[c] = u /\ Within(u, c)'
    BY <1>1, <1>3 DEF Release, Within, Clock
  <2>2. \A c \in Clock, u \in Thread : Within(u, c)' <=> Within(u, c)
    BY DEF Within
  <2> QED
    BY <2>1, <2>2 DEF Progress, Clock
<1>7. LocalSteady' /\ Corrections'
  BY DEF LocalSteady, Corrections
<1>8. OutermostCorrected'
  BY <1>2 DEF OutermostCorrected
<1> QED
  BY <1>4, <1>5, <1>6, <1>7, <1>8

LEMMA ReturnNestedStep ==
  ASSUME IInv, NEW t \in Thread, ReturnNested(t)
  PROVE  Shape' /\ MutexCount' /\ Progress' /\ LocalSteady' /\ Corrections' /\ OutermostCorrected'
<1> DEFINE p == <<steady[t], overhead["thread"]>>
<1> USE DEF IInv
<1>1. /\ pc[t] = "unlock" /\ clk[t] = "thread" /\ Release("thread")
      /\ frames[t] \in Seq(Frame) /\ Len(frames[t]) \in {1, 2} /\ Len(frames[t]) > 0
      /\ pc' = [pc EXCEPT ![t] = "autotime"]
      /\ UNCHANGED <<called, overhead, clk, steady, result>>
      /\ frames'[t] = [frames[t] EXCEPT ![1].corr = @ \cup {p}]
      /\ \A u \in Thread : u # t => frames'[u] = frames[u]
  BY DEF ReturnNested, TypeOK, Shape
<1>2. p \in Value \X Value
  BY DEF TypeOK, Clock
<1>3. /\ Len(frames'[t]) = Len(frames[t])
      /\ frames'[t][1].clock = frames[t][1].clock
      /\ frames'[t][1].steady = frames[t][1].steady
      /\ frames'[t][1].corr = frames[t][1].corr \cup {p}
      /\ Len(frames[t]) >= 2 => frames'[t][2] = frames[t][2]
  <2>1. frames[t] \in Seq(Frame) /\ Len(frames[t]) > 0
    BY <1>1
  <2>2. LET r == [frames[t] EXCEPT ![1].corr = @ \cup {p}]
        IN /\ Len(r) = Len(frames[t])
           /\ r[1].clock = frames[t][1].clock
           /\ r[1].steady = frames[t][1].steady
           /\ r[1].corr = frames[t][1].corr \cup {p}
           /\ Len(frames[t]) >= 2 => r[2] = frames[t][2]
    BY <1>2, <2>1, CorrectFrame
  <2> QED
    BY <1>1, <2>2
<1>4. p = IF Len(frames[t]) = 2 THEN <<"zero", "zero">> ELSE <<"zero", "measured">>
  BY <1>1, UnlockThread DEF LocalSteady
<1>5. \A u \in Thread : Len(frames'[u]) = Len(frames[u])
  BY <1>1, <1>3
<1>6. Shape'
  <2>1. ASSUME NEW u \in Thread, u # t
        PROVE  pc'[u] = pc[u] /\ frames'[u] = frames[u]
    BY <1>1, <2>1 DEF TypeOK
  <2>2. pc'[t] = "autotime" /\ Len(frames[t]) # 0
    BY <1>1 DEF TypeOK
  <2>3. \/ Len(frames'[t]) = 1 /\ frames'[t][1].clock = "steady"
        \/ /\ Len(frames'[t]) = 2
           /\ frames'[t][1].clock = "thread"
           /\ frames'[t][1].steady = "zero"
           /\ frames'[t][2].clock = "steady"
    BY <1>3, <2>2 DEF Shape
  <2> QED
    BY <2>1, <2>2, <2>3 DEF Shape
<1>7. MutexCount'
  BY <1>1, <1>5, ReleaseStep DEF InCall, Clock, TypeOK
<1>8. Progress'
  <2>1. owner["thread"] = t /\ depth["thread"] = IF Within(t, "thread") THEN 2 ELSE 1
    BY <1>1 DEF MutexCount, Held, InCall, Clock
  <2>2. \A c \in Clock, u \in Thread : Within(u, c)' <=> Within(u, c)
    BY <1>5 DEF Within
  <2>3. \A c \in Clock : \A u \in Thread :
           owner[c] = u /\ Within(u, c) => owner'[c] = u
    BY <1>1, <2>1 DEF Release, TypeOK, Clock
  <2> QED
    BY <1>1, <2>2, <2>3 DEF Progress, TypeOK, Clock
<1>9. LocalSteady'
  BY <1>1, <1>5 DEF LocalSteady, TypeOK
<1>10. Corrections'
  <2>1. ASSUME NEW u \in Thread, u # t
        PROVE  /\ Len(frames[u]) = 1 =>
                    /\ frames'[u][1].corr \subseteq {<<"zero", "measured">>}
                    /\ frames'[u][1].corr # {} => overhead'["thread"] = "measured"
               /\ Len(frames[u]) = 2 =>
                    /\ frames'[u][1].corr \subseteq {<<"zero", "zero">>}
                    /\ frames'[u][2].corr = {}
    BY <1>1, <2>1 DEF Corrections
  <2>2. CASE Len(frames[t]) = 1
    <3>1. overhead'["thread"] = "measured"
      BY <1>1, <2>2, UnlockThread
    <3>2. frames'[t][1].corr \subseteq {<<"zero", "measured">>}
      BY <1>3, <1>4, <2>2 DEF Corrections
    <3> QED
      BY <1>5, <2>1, <2>2, <3>1, <3>2 DEF Corrections
  <2>3. CASE Len(frames[t]) = 2
    BY <1>3, <1>4, <1>5, <2>1, <2>3 DEF Corrections
  <2> QED
    BY <1>1, <2>2, <2>3
<1>11. OutermostCorrected'
  BY <1>1 DEF OutermostCorrected
<1> QED
  BY <1>6, <1>7, <1>8, <1>9, <1>10, <1>11

-----------------------------------------------------------------------------

LEMMA InitIInv == Init => IInv
<1> SUFFICES ASSUME Init PROVE IInv
  OBVIOUS
<1> USE ThreadAssumption DEF Init
<1>1. TypeOK
  BY DEF TypeOK, Value, Clock
<1>2. \A t \in Thread : Len(frames[t]) = 0
  OBVIOUS
<1>3. Shape /\ LocalSteady /\ Corrections /\ OutermostCorrected
  BY <1>2 DEF Shape, LocalSteady, Corrections, OutermostCorrected
<1>4. \A t \in Thread, c \in Clock : ~Within(t, c) /\ ~InCall(t, c) /\ Held(t, c) = 0
  BY <1>2 DEF Held, Within, InCall, Clock
<1>5. MutexCount
  BY <1>4 DEF MutexCount
<1>6. Progress
  BY <1>4 DEF Progress, Clock
<1> QED
  BY <1>1, <1>3, <1>5, <1>6 DEF IInv

LEMMA StepIInv == IInv /\ [Next]_vars => IInv'
<1> SUFFICES ASSUME IInv, [Next]_vars PROVE IInv'
  OBVIOUS
<1>1. TypeOK'
  BY TypeStep DEF IInv
<1>2. Shape' /\ MutexCount' /\ Progress' /\ LocalSteady' /\ Corrections' /\ OutermostCorrected'
  <2>1. CASE UNCHANGED vars
    BY <2>1 DEF vars, IInv, Shape, MutexCount, Held, Within, InCall, Progress,
                LocalSteady, Corrections, OutermostCorrected
  <2>2. CASE Next
    BY <2>2, TimeStep, LockStep, AlreadyCalledStep, BeginCalibrationStep, SampleStep,
       EndCalibrationStep, ReturnSteadyStep, ReturnOutermostStep, ReturnNestedStep
       DEF Next, Step
  <2> QED
    BY <2>1, <2>2
<1> QED
  BY <1>1, <1>2 DEF IInv

LEMMA SpecIInv == Spec => []IInv
<1> QED
  BY InitIInv, StepIInv, PTL DEF Spec

-----------------------------------------------------------------------------

(***************************************************************************)
(* Every variable keeps its type; the part that is not obvious is that a   *)
(* recursive mutex is never released more often than it was acquired.      *)
(***************************************************************************)
THEOREM TypeCorrect == Spec => []TypeOK
<1>1. IInv => TypeOK
  BY DEF IInv
<1> QED
  BY <1>1, SpecIInv, PTL

(***************************************************************************)
(* However many threads make the first measurement, no client's End()      *)
(* subtracts an overhead that GetOverhead() has not measured yet.          *)
(***************************************************************************)
THEOREM Corrected == Spec => []OutermostCorrected
<1>1. IInv => OutermostCorrected
  BY DEF IInv
<1> QED
  BY <1>1, SpecIInv, PTL

(***************************************************************************)
(* The recursion of End() and GetOverhead() is bounded: a clock is never   *)
(* calibrated within its own calibration, nor by two threads at once.      *)
(***************************************************************************)
THEOREM NoReentrance == Spec => []NoReentrantCalibration
<1>1. IInv => NoReentrantCalibration
  <2> SUFFICES ASSUME IInv PROVE NoReentrantCalibration
    OBVIOUS
  <2> USE DEF IInv
  <2>1. ASSUME NEW t \in Thread, NEW i \in DOMAIN frames[t], NEW j \in DOMAIN frames[t], i # j
        PROVE  frames[t][i].clock # frames[t][j].clock
    <3>1. frames[t] \in Seq(Frame) /\ Len(frames[t]) \in {0, 1, 2}
      BY DEF TypeOK, Shape
    <3>2. Len(frames[t]) = 2 /\ ((i = 1 /\ j = 2) \/ (i = 2 /\ j = 1))
      BY <2>1, <3>1
    <3> QED
      BY <3>2 DEF Shape
  <2>2. ASSUME NEW t \in Thread, NEW u \in Thread, t # u
        PROVE  frames[t] = <<>> \/ frames[u] = <<>>
    <3>1. ~(Within(t, "steady") /\ Within(u, "steady"))
      BY <2>2 DEF MutexCount, Held, Clock
    <3> QED
      BY <3>1, EmptyFrames DEF Within, TypeOK, Shape
  <2> QED
    BY <2>1, <2>2 DEF NoReentrantCalibration
<1> QED
  BY <1>1, SpecIInv, PTL

(***************************************************************************)
(* All samples of a calibration have the same overheads subtracted, so     *)
(* Estimate() compares durations that are comparable.                      *)
(***************************************************************************)
THEOREM Uniform == Spec => []SamplesUniform
<1>1. IInv => SamplesUniform
  <2> SUFFICES ASSUME IInv, NEW t \in Thread, NEW i \in DOMAIN frames[t]
               PROVE  \A p, q \in frames[t][i].corr : p = q
    BY DEF SamplesUniform
  <2> USE DEF IInv
  <2>1. frames[t] \in Seq(Frame) /\ Len(frames[t]) \in {0, 1, 2}
    BY DEF TypeOK, Shape
  <2>2. (Len(frames[t]) = 1 /\ i = 1) \/ (Len(frames[t]) = 2 /\ i \in {1, 2})
    BY <2>1
  <2> QED
    BY <2>2 DEF Corrections
<1> QED
  BY <1>1, SpecIInv, PTL

(***************************************************************************)
(* A thread that waits for the steady clock's mutex holds no other: the    *)
(* two mutexes of GetOverhead() cannot deadlock, whatever the nesting.     *)
(***************************************************************************)
THEOREM Ordered == Spec => []LockOrder
<1>1. IInv => LockOrder
  BY DEF IInv, LockOrder, MutexCount, Held, Within, InCall, Clock, Shape
<1> QED
  BY <1>1, SpecIInv, PTL

(***************************************************************************)
(* A thread that has returned from the library owns neither mutex.         *)
(***************************************************************************)
THEOREM Released == Spec => []IdleHoldsNothing
<1>1. IInv => IdleHoldsNothing
  BY DEF IInv, IdleHoldsNothing, MutexCount, Held, Within, InCall, Clock, Shape
<1> QED
  BY <1>1, SpecIInv, PTL

-----------------------------------------------------------------------------

Measured == {c \in Clock : overhead[c] = "measured"}
Busy == {t \in Thread : pc[t] # "idle"}

LEMMA AbstractStutter ==
  ASSUME overhead' = overhead, \A u \in Thread : pc'[u] = "idle" <=> pc[u] = "idle"
  PROVE  UNCHANGED Cal!absVars
<1>1. Measured' = Measured
  BY DEF Measured
<1>2. Busy' = Busy
  BY DEF Busy
<1> QED
  BY <1>1, <1>2 DEF Cal!absVars, Measured, Busy

LEMMA AbstractStep == IInv /\ [Next]_vars => [Cal!AbsNext]_(Cal!absVars)
<1> SUFFICES ASSUME IInv, [Next]_vars PROVE Cal!AbsNext \/ UNCHANGED Cal!absVars
  OBVIOUS
<1> USE DEF IInv
<1>1. ASSUME NEW t \in Thread, Time(t) PROVE Cal!AbsNext
  <2>1. Busy' = Busy \cup {t} /\ t \notin Busy /\ Measured' = Measured
    BY <1>1 DEF Busy, Measured, Time, EnterEnd, TypeOK
  <2>2. Cal!Enter(t)
    BY <2>1 DEF Cal!Enter, Busy, Measured
  <2> QED
    BY <2>2 DEF Cal!AbsNext
<1>2. ASSUME NEW t \in Thread, EndCalibration(t) PROVE Cal!AbsNext
  <2>1. Head(frames[t]).clock \in Clock
    <3>1. frames[t] \in Seq(Frame) /\ Len(frames[t]) > 0
      BY <1>2 DEF EndCalibration, HasSamples, TypeOK, Shape
    <3> QED
      BY <3>1, PopFrame DEF Frame
  <2>2. PICK c \in Clock : c = Head(frames[t]).clock
    BY <2>1
  <2>3. /\ pc[t] = "autotime" /\ pc' = [pc EXCEPT ![t] = "unlock"]
        /\ overhead' = [overhead EXCEPT ![c] = "measured"]
        /\ frames[t] \in Seq(Frame) /\ Len(frames[t]) > 0
        /\ Len(frames[t]) = 1 \/ Len(frames[t]) = 2
    BY <1>2, <2>2 DEF EndCalibration, HasSamples, TypeOK, Shape
  <2>4. c = frames[t][1].clock
    BY <2>3, <2>2, PopFrame
  <2>5. \/ c = "steady" /\ overhead["thread"] = "measured"
        \/ c = "thread"
    <3>1. CASE Len(frames[t]) = 1
      <4>1. frames[t][1].corr # {}
        BY <1>2, <2>3, PopFrame DEF EndCalibration, HasSamples
      <4> QED
        BY <2>4, <3>1, <4>1 DEF Corrections, Shape
    <3>2. CASE Len(frames[t]) = 2
      BY <2>4, <3>2 DEF Shape
    <3> QED
      BY <2>3, <3>1, <3>2
  <2>6. overhead[c] = "zero"
    <3>1. Within(t, c)
      BY <2>3, <2>4 DEF Within, Shape
    <3> QED
      BY <2>5, <3>1 DEF Progress, Clock
  <2>7. Measured' = Measured \cup {c} /\ c \notin Measured /\ c \in Clock
    BY <2>3, <2>5, <2>6 DEF Measured, TypeOK, Clock
  <2>8. Busy' = Busy /\ Busy # {}
    BY <2>3 DEF Busy, TypeOK
  <2>9. c = "steady" => "thread" \in Measured
    BY <2>5 DEF Measured, Clock
  <2>10. Cal!Calibrate(c)
    BY <2>7, <2>8, <2>9 DEF Cal!Calibrate, Measured, Busy
  <2> QED
    <3>1. CASE c = "steady"
      BY <2>10, <3>1 DEF Cal!AbsNext
    <3>2. CASE c = "thread"
      BY <2>10, <3>2 DEF Cal!AbsNext
    <3> QED
      BY <2>5, <3>1, <3>2
<1>3. ASSUME NEW t \in Thread, ReturnOutermost(t) PROVE Cal!AbsNext
  <2>1. pc[t] = "unlock" /\ clk[t] = "thread" /\ Len(frames[t]) = 0
    BY <1>3 DEF ReturnOutermost
  <2>2. overhead["thread"] = "measured"
    BY <2>1, UnlockThread
  <2>3. overhead["steady"] = "measured"
    BY <2>1 DEF LocalSteady
  <2>4. Measured = {"steady", "thread"}
    BY <2>2, <2>3 DEF Measured, Clock
  <2>5. Busy' = Busy \ {t} /\ t \in Busy /\ Measured' = Measured
    BY <1>3, <2>1 DEF Busy, Measured, ReturnOutermost, TypeOK
  <2>6. Cal!Return(t)
    BY <2>4, <2>5 DEF Cal!Return, Busy, Measured
  <2>7. \E u \in Thread : Cal!Enter(u) \/ Cal!Return(u)
    BY <2>6
  <2> QED
    BY <2>7 DEF Cal!AbsNext
<1>4. ASSUME NEW t \in Thread,
             \/ Lock(t) \/ AlreadyCalled(t) \/ BeginCalibration(t) \/ Sample(t)
             \/ ReturnSteady(t) \/ ReturnNested(t)
      PROVE  UNCHANGED Cal!absVars
  <2>1. overhead' = overhead
    BY <1>4 DEF Lock, MayLock, Deeper, AlreadyCalled, BeginCalibration, Flagged, Sample, ReturnSteady, ReturnNested
  <2>2. \A u \in Thread : pc'[u] = "idle" <=> pc[u] = "idle"
    BY <1>4 DEF Lock, MayLock, Deeper, AlreadyCalled, BeginCalibration, Flagged, Sample, EnterEnd, ReturnSteady,
                ReturnNested, TypeOK
  <2> QED
    BY <2>1, <2>2, AbstractStutter
<1>5. CASE UNCHANGED vars
  BY <1>5, AbstractStutter DEF vars
<1> QED
  BY <1>1, <1>2, <1>3, <1>4, <1>5 DEF Next, Step

(***************************************************************************)
(* Start() and End(), with their mutexes, flags and recursion, keep the    *)
(* promise of module Calibration: each overhead is measured once, in that  *)
(* order, and nobody's measurement returns before both are.                *)
(***************************************************************************)
THEOREM Refinement == Spec => ImplementsCalibration
<1>1. Init => Cal!AbsInit
  BY DEF Init, Cal!AbsInit, Clock
<1> QED
  BY <1>1, AbstractStep, SpecIInv, PTL DEF Spec, ImplementsCalibration, Cal!AbsSpec
=============================================================================
