--------------------------- MODULE PlaybackProofs ---------------------------
(***************************************************************************)
(* Proofs about SlotAlignment and Playback, for every slot, period,        *)
(* latency, block and frame length and any number of frames and stalls.    *)
(***************************************************************************)
EXTENDS Playback, SequenceTheorems, TLAPS

-----------------------------------------------------------------------------
(***************************************************************************)
(* Alignment.                                                              *)
(***************************************************************************)

LEMMA Division ==
    ASSUME NEW a \in Int, NEW p \in Nat \ {0}
    PROVE  /\ a % p \in 0..(p - 1)
           /\ a \div p \in Int
           /\ a = (a \div p) * p + (a % p)
OBVIOUS

LEMMA Multiple ==
    ASSUME NEW q \in Int, NEW p \in Nat \ {0}
    PROVE  (q * p) % p = 0
OBVIOUS

\* The boundary ahead is a multiple of the period, at most a period away.
LEMMA BoundaryAhead ==
    ASSUME NEW now \in Nat
    PROVE  /\ ToBoundary(now) \in 1..Period
           /\ \E q \in Int : now + ToBoundary(now) = q * Period
<1> USE AlignmentAssumption DEF AlignmentAssumption
<1> DEFINE inSlot == now % Slot
           inPeriod == inSlot % Period
<1>0. Slot \in Nat \ {0} /\ Period \in Nat \ {0} /\ now \in Int
  OBVIOUS
<1>1. PICK s \in Int : now = s * Slot + inSlot
  <2>1. now = (now \div Slot) * Slot + (now % Slot) /\ now \div Slot \in Int
    BY <1>0, Division
  <2> QED BY <2>1
<1>2. PICK k \in Int : Slot = k * Period
  <2>1. Slot = (Slot \div Period) * Period + (Slot % Period) /\ Slot \div Period \in Int
    BY <1>0, Division
  <2>2. Slot = (Slot \div Period) * Period
    BY <2>1
  <2> QED BY <2>1, <2>2
<1>3. inSlot \in Int /\ inSlot >= 0
  BY Division
<1>4. PICK t \in Int : inSlot = t * Period + inPeriod
  <2>1. inSlot = (inSlot \div Period) * Period + inPeriod /\ inSlot \div Period \in Int
    BY <1>3, Division
  <2> QED BY <2>1
<1>5. inPeriod \in 0..(Period - 1)
  BY <1>3, Division
<1>6. ToBoundary(now) = Period - inPeriod
  BY DEF ToBoundary
<1>7. s * Slot = (s * k) * Period
  BY <1>2
<1>8. now + ToBoundary(now) = (s * k + t + 1) * Period
  <2> HIDE DEF inSlot, inPeriod
  <2>1. now + ToBoundary(now) = (s * k) * Period + t * Period + Period
    BY <1>1, <1>3, <1>4, <1>5, <1>6, <1>7
  <2>2. (s * k + t + 1) * Period = (s * k) * Period + t * Period + Period
    OBVIOUS
  <2> QED BY <2>1, <2>2
<1> QED BY <1>5, <1>6, <1>8

\* For every instant and every latency the silence is not negative, and what
\* follows it is heard on a boundary.
THEOREM SilenceAligns ==
    ASSUME NEW now \in Nat
    PROVE  Silence(now) \in Nat /\ OnBoundary(now, Silence(now))
<1> USE AlignmentAssumption DEF AlignmentAssumption
<1> DEFINE left == ToBoundary(now) - Latency
<1>1. ToBoundary(now) \in 1..Period
  BY BoundaryAhead
<1>2. PICK q \in Int : now + ToBoundary(now) = q * Period
  BY BoundaryAhead
<1>3. left \in Int
  BY <1>1
<1>4. PICK j \in Int : left = j * Period + (left % Period)
  <2>1. left = (left \div Period) * Period + (left % Period) /\ left \div Period \in Int
    BY <1>3, Division
  <2> QED BY <2>1
<1>5. left % Period \in Nat
  BY <1>3, Division
<1>6. Silence(now) = IF left >= 0 THEN left ELSE left % Period
  BY DEF Silence
<1>7. CASE left >= 0
  <2>1. Silence(now) = ToBoundary(now) - Latency /\ Silence(now) \in Nat
    BY <1>1, <1>3, <1>6, <1>7
  <2>2. now + Silence(now) + Latency = q * Period
    BY <1>1, <1>2, <2>1
  <2> QED BY <2>1, <2>2, Multiple DEF OnBoundary
<1>8. CASE ~(left >= 0)
  <2>1. Silence(now) = ToBoundary(now) - Latency - j * Period /\ Silence(now) \in Nat
    BY <1>1, <1>4, <1>5, <1>6, <1>8
  <2>2. now + Silence(now) + Latency = (q - j) * Period
    BY <1>1, <1>2, <2>1
  <2> QED BY <2>1, <2>2, Multiple DEF OnBoundary
<1> QED BY <1>7, <1>8

-----------------------------------------------------------------------------
(***************************************************************************)
(* Blocks of samples.                                                      *)
(***************************************************************************)

Sample == Nat \X Nat

LEMMA Smaller ==
    ASSUME NEW a \in Nat, NEW b \in Nat
    PROVE  Min({a, b}) = IF a <= b THEN a ELSE b
<1> DEFINE m == IF a <= b THEN a ELSE b
<1>1. m \in {a, b} /\ \A y \in {a, b} : m <= y
  OBVIOUS
<1>2. \A x \in {a, b} : (\A y \in {a, b} : x <= y) => x = m
  OBVIOUS
<1> HIDE DEF m
<1>3. Min({a, b}) = m
  BY <1>1, <1>2 DEF Min
<1> QED BY <1>3 DEF m

LEMMA ZerosAreSamples ==
    ASSUME NEW n \in Nat
    PROVE  /\ Zeros(n) \in Seq(Sample) /\ Len(Zeros(n)) = n
           /\ \A i \in 1..n : Zeros(n)[i] = Zero
<1>1. Zeros(n) \in [1..n -> Sample]
  BY DEF Zeros, Zero, Sample
<1>2. Zeros(n) \in Seq(Sample)
  BY <1>1, SeqDef
<1>3. Len(Zeros(n)) = n
  BY <1>1, <1>2, LenProperties DEF Zeros
<1> QED BY <1>2, <1>3 DEF Zeros

LEMMA SamplesAreSamples ==
    ASSUME NEW f \in Nat, NEW from \in Nat, NEW n \in Nat
    PROVE  /\ Samples(f, from, n) \in Seq(Sample) /\ Len(Samples(f, from, n)) = n
           /\ \A i \in 1..n : Samples(f, from, n)[i] = <<f, from + i - 1>>
<1>1. Samples(f, from, n) \in [1..n -> Sample]
  BY DEF Samples, Sample
<1>2. Samples(f, from, n) \in Seq(Sample)
  BY <1>1, SeqDef
<1>3. Len(Samples(f, from, n)) = n
  BY <1>1, <1>2, LenProperties DEF Samples
<1> QED BY <1>2, <1>3 DEF Samples

LEMMA WholeFrame ==
    ASSUME NEW f \in Nat, NEW n \in Nat
    PROVE  /\ Samples(f, 0, n) \in Seq(Sample) /\ Len(Samples(f, 0, n)) = n
           /\ \A i \in 1..n : Samples(f, 0, n)[i] = <<f, i - 1>>
<1> DEFINE m == Samples(f, 0, n)
<1>1. m = [i \in 1..n |-> <<f, 0 + i - 1>>]
  BY DEF Samples
<1>2. m \in Seq(Sample) /\ Len(m) = n
  <2>1. PICK z \in Nat : z = 0
    OBVIOUS
  <2>2. Samples(f, z, n) \in Seq(Sample) /\ Len(Samples(f, z, n)) = n
    BY SamplesAreSamples
  <2> QED BY <2>1, <2>2
<1>3. \A i \in 1..n : m[i] = <<f, i - 1>>
  <2> HIDE DEF m
  <2> QED BY <1>1
<1> QED BY <1>2, <1>3

\* What the callback puts behind s: zeros, samples, zeros.
\* t is s with a zeros, b samples of frame f and c zeros behind it.
Extended(s, a, f, from, b, c, t) ==
    /\ Len(t) = Len(s) + a + b + c
    /\ DOMAIN t = 1..(Len(s) + a + b + c)
    /\ \A i \in 1..(Len(s) + a + b + c) :
          t[i] = IF i <= Len(s) THEN s[i]
                 ELSE IF i <= Len(s) + a THEN Zero
                 ELSE IF i <= Len(s) + a + b
                      THEN <<f, (from + (i - Len(s) - a)) - 1>>
                      ELSE Zero

LEMMA Block4 ==
    ASSUME NEW s \in Seq(Sample), NEW a \in Nat, NEW f \in Nat, NEW from \in Nat,
           NEW b \in Nat, NEW c \in Nat,
           NEW t, t = s \o Zeros(a) \o Samples(f, from, b) \o Zeros(c)
    PROVE  t \in Seq(Sample) /\ Extended(s, a, f, from, b, c, t)
<1> DEFINE z == Zeros(a)
           m == Samples(f, from, b)
           y == Zeros(c)
           s1 == s \o z
           s2 == s1 \o m
           s3 == s2 \o y
<1>1. /\ z \in Seq(Sample) /\ Len(z) = a /\ \A i \in 1..a : z[i] = Zero
      /\ y \in Seq(Sample) /\ Len(y) = c /\ \A i \in 1..c : y[i] = Zero
  BY ZerosAreSamples
<1>2. m \in Seq(Sample) /\ Len(m) = b /\ \A i \in 1..b : m[i] = <<f, from + i - 1>>
  <2>1. m \in Seq(Sample) /\ Len(m) = b
    BY SamplesAreSamples
  <2>2. \A i \in 1..b : m[i] = <<f, from + i - 1>>
    BY SamplesAreSamples
  <2> QED BY <2>1, <2>2
<1>3. Len(s) \in Nat
  BY LenProperties
<1> HIDE DEF z, m, y
<1>4. /\ s1 \in Seq(Sample) /\ Len(s1) = Len(s) + a
      /\ \A i \in 1..(Len(s) + a) :
            s1[i] = IF i <= Len(s) THEN s[i] ELSE z[i - Len(s)]
  BY <1>1, ConcatProperties
<1> HIDE DEF s1
<1>5. /\ s2 \in Seq(Sample) /\ Len(s2) = Len(s) + a + b
      /\ \A i \in 1..(Len(s) + a + b) :
            s2[i] = IF i <= Len(s) + a THEN s1[i] ELSE m[i - (Len(s) + a)]
  <2>1. Len(s1) = Len(s) + a /\ Len(m) = b /\ Len(s1) + Len(m) = Len(s) + a + b
    BY <1>2, <1>3, <1>4
  <2>2. /\ s2 \in Seq(Sample) /\ Len(s2) = Len(s1) + Len(m)
        /\ \A i \in 1..(Len(s1) + Len(m)) :
              s2[i] = IF i <= Len(s1) THEN s1[i] ELSE m[i - Len(s1)]
    BY <1>2, <1>4, ConcatProperties
  <2> QED BY <2>1, <2>2
<1> HIDE DEF s2
<1>6. /\ s3 \in Seq(Sample) /\ Len(s3) = Len(s) + a + b + c
      /\ \A i \in 1..(Len(s) + a + b + c) :
            s3[i] = IF i <= Len(s) + a + b THEN s2[i] ELSE y[i - (Len(s) + a + b)]
  <2>1. Len(s2) = Len(s) + a + b /\ Len(y) = c /\ Len(s2) + Len(y) = Len(s) + a + b + c
    BY <1>1, <1>3, <1>5
  <2>2. /\ s3 \in Seq(Sample) /\ Len(s3) = Len(s2) + Len(y)
        /\ \A i \in 1..(Len(s2) + Len(y)) :
              s3[i] = IF i <= Len(s2) THEN s2[i] ELSE y[i - Len(s2)]
    <3>1. s2 \in Seq(Sample) /\ y \in Seq(Sample)
      BY <1>1, <1>5
    <3> QED BY ONLY <3>1, ConcatProperties DEF s3
  <2> QED BY <2>1, <2>2
<1> HIDE DEF s3
<1>7. t = s3
  BY DEF s1, s2, s3, z, m, y
<1>8. DOMAIN t = 1..(Len(s) + a + b + c)
  BY <1>6, <1>7, LenProperties
<1>9. ASSUME NEW i \in 1..(Len(s) + a + b + c)
      PROVE  s3[i] = IF i <= Len(s) THEN s[i]
                     ELSE IF i <= Len(s) + a THEN Zero
                     ELSE IF i <= Len(s) + a + b
                          THEN <<f, (from + (i - Len(s) - a)) - 1>>
                          ELSE Zero
  <2>1. CASE i <= Len(s)
    <3>1. s3[i] = s2[i] /\ s2[i] = s1[i] /\ s1[i] = s[i]
      BY <1>3, <1>4, <1>5, <1>6, <2>1
    <3> QED BY <2>1, <3>1
  <2>2. CASE i > Len(s) /\ i <= Len(s) + a
    <3>1. s3[i] = s2[i] /\ s2[i] = s1[i] /\ s1[i] = z[i - Len(s)]
      BY <1>3, <1>4, <1>5, <1>6, <2>2
    <3>2. i - Len(s) \in 1..a
      BY <1>3, <2>2
    <3>3. z[i - Len(s)] = Zero
      BY <1>1, <3>2
    <3> QED BY <1>3, <2>2, <3>1, <3>3
  <2>3. CASE i > Len(s) + a /\ i <= Len(s) + a + b
    <3>1. s3[i] = s2[i] /\ s2[i] = m[i - (Len(s) + a)]
      BY <1>3, <1>5, <1>6, <2>3
    <3>2. i - (Len(s) + a) \in 1..b
      BY <1>3, <2>3
    <3>3. m[i - (Len(s) + a)] = <<f, (from + (i - (Len(s) + a))) - 1>>
      BY <1>2, <3>2
    <3>4. i - (Len(s) + a) = i - Len(s) - a
      BY <1>3
    <3>5. s3[i] = <<f, (from + (i - Len(s) - a)) - 1>>
      BY <3>1, <3>3, <3>4
    <3>6. ~(i <= Len(s)) /\ ~(i <= Len(s) + a)
      BY <1>3, <2>3
    <3> QED BY <2>3, <3>5, <3>6
  <2>4. CASE i > Len(s) + a + b
    <3>1. s3[i] = y[i - (Len(s) + a + b)]
      BY <1>3, <1>6, <2>4
    <3>2. i - (Len(s) + a + b) \in 1..c
      BY <1>3, <2>4
    <3>3. y[i - (Len(s) + a + b)] = Zero
      BY <1>1, <3>2
    <3> QED BY <1>3, <2>4, <3>1, <3>3
  <2> QED BY <1>3, <2>1, <2>2, <2>3, <2>4
<1> QED BY <1>3, <1>6, <1>7, <1>8, <1>9 DEF Extended

-----------------------------------------------------------------------------
(***************************************************************************)
(* Playback: the inductive invariant.                                      *)
(***************************************************************************)

\* The i-th sample handed over of the frame that was begun last.
Sound(i) == IF i \in (pad + 1)..(pad + length) THEN <<played, i - pad - 1>> ELSE Zero

\* The open stream does not run between frames.
DeviceInv ==
    /\ handle => stream # "closed"
    /\ handle /\ worker \in {"idle", "checked", "armed"} => stream = "stopped"
    /\ handle /\ worker \in {"waiting", "stopping", "draining"} => stream = "running"
    /\ worker \in {"checked", "armed"} => stream # "running"

\* What is armed when a frame is begun is an earlier one.
CheckedInv ==
    /\ worker # "idle" => played > 0
    /\ worker = "checked" => handed = <<>> /\ modulation < played

\* How far the callback is with the frame begun last.
ProgressInv ==
    modulation = played /\ played > 0 =>
        /\ size = length
        /\ silence <= pad
        /\ cursor > 0 => silence = 0
        /\ Len(handed) = (pad - silence) + cursor

OnsetInv ==
    /\ IF played = 0 THEN handed = <<>> ELSE OnBoundary(readAt, pad)
    /\ \A i \in DOMAIN handed : handed[i] = <<played, 0>> => i = pad + 1

\* From arming on what is handed over is the frame, unless it was given up.
Sounding ==
    \/ worker \in {"armed", "waiting"}
    \/ worker \in {"stopping", "draining", "idle"} /\ result = "ok"

SoundInv ==
    /\ worker \in {"stopping", "draining", "idle"} /\ result = "ok" => done
    /\ Sounding =>
          /\ played > 0
          /\ \A i \in DOMAIN handed : handed[i] = Sound(i)
          /\ done => modulation = 0 /\ Len(handed) >= pad + length
          /\ ~done => modulation = played

\* Nothing of a frame that was sent is left in PortAudio's buffer.
HeardInv ==
    worker = "idle" /\ result = "ok" /\ handle /\ ~cut => heard = Len(handed)

PlaybackInv == DeviceInv /\ CheckedInv /\ ProgressInv /\ OnsetInv /\ SoundInv /\ HeardInv

-----------------------------------------------------------------------------
(***************************************************************************)
(* Types, and what one call of the callback does.                          *)
(***************************************************************************)

LEMMA SilenceIsNat == \A now \in Nat : Silence(now) \in Nat
BY SilenceAligns

LEMMA InitTyped == Init => PlaybackTypeOK
<1> SUFFICES ASSUME Init PROVE PlaybackTypeOK
  OBVIOUS
<1>1. handed \in Seq(Nat \X Nat)
  BY EmptySeq DEF Init
<1>2. {handle, asking, done, cut} \subseteq BOOLEAN
  BY Zenon DEF Init
<1>3. {played, readAt, pad, length, stalls, silence, modulation, size, cursor, heard}
          \subseteq Nat
  BY DEF Init
<1>4. modulation <= played /\ cursor <= size /\ heard <= Len(handed)
  BY DEF Init
<1> QED BY <1>1, <1>2, <1>3, <1>4, Zenon DEF Init, PlaybackTypeOK

\* A block is silence, modulation and zeros, each as long as the one before
\* it leaves room for.
LEMMA CallbackBlock ==
    ASSUME PlaybackTypeOK, Callback
    PROVE  \E a, b, c \in Nat :
             /\ a + b + c = Block
             /\ a <= silence /\ silence' = silence - a
             /\ b > 0 => a = silence
             /\ b <= size - cursor /\ cursor' = cursor + b
             /\ c > 0 => a = silence /\ b = size - cursor
             /\ handed' = handed \o Zeros(a) \o Samples(modulation, cursor, b) \o Zeros(c)
             /\ modulation' = IF c > 0 THEN 0 ELSE modulation
             /\ done' <=> (done \/ c > 0)
<1> DEFINE a == Min({Block, silence})
           b == Min({Block - a, size - cursor})
           c == Block - a - b
<1>1. /\ Block \in Nat \ {0}
      /\ silence \in Nat /\ size \in Nat /\ cursor \in Nat /\ cursor <= size
  BY PlaybackAssumption DEF PlaybackAssumption, PlaybackTypeOK
<1>2. a = IF Block <= silence THEN Block ELSE silence
  BY <1>1, Smaller
<1>3. a \in Nat /\ a <= Block /\ a <= silence /\ Block - a \in Nat
  BY <1>1, <1>2
<1>4. size - cursor \in Nat
  BY <1>1
<1>5. b = IF Block - a <= size - cursor THEN Block - a ELSE size - cursor
  <2> HIDE DEF a
  <2> QED BY <1>3, <1>4, Smaller
<1>6. /\ b \in Nat /\ c \in Nat /\ a + b + c = Block
      /\ b <= size - cursor
      /\ b > 0 => a = silence
      /\ c > 0 => a = silence /\ b = size - cursor
  <2> HIDE DEF a, b
  <2> QED BY <1>1, <1>2, <1>3, <1>4, <1>5
<1>7. /\ handed' = handed \o Zeros(a) \o Samples(modulation, cursor, b) \o Zeros(c)
      /\ silence' = silence - a /\ cursor' = cursor + b
      /\ modulation' = IF c > 0 THEN 0 ELSE modulation
      /\ done' <=> (done \/ c > 0)
  BY DEF Callback
<1> HIDE DEF a, b, c
<1> QED BY <1>3, <1>6, <1>7

LEMMA NextTyped == PlaybackTypeOK /\ [Next]_vars => PlaybackTypeOK'
<1> SUFFICES ASSUME PlaybackTypeOK, [Next]_vars PROVE PlaybackTypeOK'
  OBVIOUS
<1> USE DEF PlaybackTypeOK
<1>1. CASE TransmitFrame
  <2>1. handed' \in Seq(Nat \X Nat)
    BY <1>1, EmptySeq DEF TransmitFrame
  <2>2. readAt' \in Nat /\ pad' \in Nat /\ length' \in Nat
    <3>1. PICK now \in Instants, audio \in Audio :
             readAt' = now /\ pad' = Silence(now) /\ length' = ModulationLength(audio)
      BY <1>1 DEF TransmitFrame
    <3>2. now \in Nat /\ audio \in Nat
      BY PlaybackAssumption DEF PlaybackAssumption
    <3>3. Silence(now) \in Nat
      BY <3>2, SilenceIsNat
    <3>4. ModulationLength(audio) \in Nat
      BY <3>2, AlignmentAssumption DEF AlignmentAssumption, ModulationLength
    <3> QED BY <3>1, <3>2, <3>3, <3>4
  <2>3. worker' \in {"idle", "checked"} /\ result' \in {"none", "error"}
    BY <1>1 DEF TransmitFrame, Returns
  <2>4. played' \in Nat /\ modulation' <= played'
    BY <1>1 DEF TransmitFrame
  <2>5. heard' \in Nat /\ cut' \in BOOLEAN /\ heard' <= Len(handed')
    <3>1. heard' = 0 /\ cut' = FALSE /\ handed' = <<>>
      BY <1>1 DEF TransmitFrame
    <3>2. heard' \in Nat /\ heard' <= Len(handed')
      BY ONLY <3>1
    <3>3. cut' \in BOOLEAN
      BY <3>1, Zenon
    <3> QED BY <3>2, <3>3
  <2> QED BY <1>1, <2>1, <2>2, <2>3, <2>4, <2>5 DEF TransmitFrame, deviceVars
<1>2. CASE ArmFrame
  <2>1. {handle', asking', done', cut'} \subseteq BOOLEAN
    BY <1>2, Zenon DEF ArmFrame, deviceVars, cardVars
  <2>2. silence' = pad /\ modulation' = played /\ size' = length /\ cursor' = 0
    BY <1>2 DEF ArmFrame
  <2>3. pad \in Nat /\ played \in Nat /\ length \in Nat
    OBVIOUS
  <2>4. /\ {played', readAt', pad', length', stalls', silence', modulation', size', cursor',
                heard'} \subseteq Nat
        /\ modulation' <= played' /\ cursor' <= size' /\ heard' <= Len(handed')
    BY <1>2, <2>2, <2>3 DEF ArmFrame, deviceVars, cardVars
  <2> QED BY <1>2, <2>1, <2>4, Zenon DEF ArmFrame, deviceVars
<1>3. CASE StartStream
  BY <1>3 DEF StartStream, Returns, frameVars, cardVars
<1>4. CASE FrameDone
  BY <1>4 DEF FrameDone, deviceVars, frameVars, cardVars
<1>5. CASE TimesOut
  BY <1>5 DEF TimesOut, deviceVars, frameVars, cardVars
<1>6. CASE StopStream
  BY <1>6 DEF StopStream, deviceVars, frameVars, cardVars
<1>7. CASE Callback
  <2>1. PICK a, b, c \in Nat :
             /\ a <= silence /\ silence' = silence - a
             /\ b <= size - cursor /\ cursor' = cursor + b
             /\ handed' = handed \o Zeros(a) \o Samples(modulation, cursor, b) \o Zeros(c)
             /\ modulation' = IF c > 0 THEN 0 ELSE modulation
    BY <1>7, CallbackBlock
  <2>0. /\ silence \in Nat /\ cursor \in Nat /\ size \in Nat /\ modulation \in Nat
        /\ played \in Nat /\ modulation <= played
        /\ handed \in Seq(Nat \X Nat)
    OBVIOUS
  <2>2. handed' \in Seq(Nat \X Nat)
    <3>1. handed \in Seq(Sample)
      BY <2>0 DEF Sample
    <3> DEFINE t == handed \o Zeros(a) \o Samples(modulation, cursor, b) \o Zeros(c)
    <3>2. t \in Seq(Sample)
      BY ONLY <2>0, <3>1, a \in Nat, b \in Nat, c \in Nat, Block4
    <3> QED BY <2>1, <3>2 DEF Sample
  <2>3. silence' \in Nat /\ cursor' \in Nat /\ cursor' <= size /\ modulation' \in Nat
        /\ modulation' <= played
    BY ONLY <2>0, <2>1
  <2>4. done' \in BOOLEAN
    BY <1>7 DEF Callback
  <2>5. heard' <= Len(handed') /\ heard' \in Nat /\ cut' \in BOOLEAN
    <3>1. Extended(handed, a, modulation, cursor, b, c, handed')
      <4>1. handed \in Seq(Sample)
        BY <2>0 DEF Sample
      <4> QED BY ONLY <2>0, <2>1, <4>1, a \in Nat, b \in Nat, c \in Nat, Block4
    <3>2. Len(handed') = Len(handed) + a + b + c /\ Len(handed) \in Nat
      BY <3>1, LenProperties DEF Extended
    <3>3. heard' = heard /\ cut' = cut
      BY <1>7 DEF Callback, cardVars
    <3> QED BY <3>2, <3>3
  <2> QED BY <1>7, <2>2, <2>3, <2>4, <2>5 DEF Callback, callVars, deviceVars
<1>8. CASE Stalls
  BY <1>8 DEF Stalls, callVars, frameVars, cardVars
<1>9. CASE TakeStream
  BY <1>9 DEF TakeStream, callVars, frameVars, cardVars
<1>10. CASE AbortStream
  BY <1>10 DEF AbortStream, callVars, frameVars, cardVars
<1>11. CASE Drained
  BY <1>11 DEF Drained, frameVars
<1>12. CASE Plays
  BY <1>12, LenProperties DEF Plays, callVars, deviceVars, frameVars
<1>13. CASE UNCHANGED vars
  BY <1>13 DEF vars, callVars, deviceVars, frameVars, cardVars
<1> QED BY <1>1, <1>2, <1>3, <1>4, <1>5, <1>6, <1>7, <1>8, <1>9, <1>10, <1>11, <1>12, <1>13
        DEF Next

\* Every variable keeps its type, for every card, frame and instant.
THEOREM PlaybackTypeCorrect == Spec => []PlaybackTypeOK
<1>1. Init => PlaybackTypeOK
  BY InitTyped
<1>2. PlaybackTypeOK /\ [Next]_vars => PlaybackTypeOK'
  BY NextTyped
<1> QED BY <1>1, <1>2, PTL DEF Spec

-----------------------------------------------------------------------------
(***************************************************************************)
(* The invariant is inductive.                                             *)
(***************************************************************************)

\* What a call of the callback adds to what was heard, sample by sample.
LEMMA CallbackHands ==
    ASSUME PlaybackTypeOK, Callback
    PROVE  \E a, b, c \in Nat :
             /\ a <= silence /\ silence' = silence - a
             /\ b > 0 => a = silence
             /\ b <= size - cursor /\ cursor' = cursor + b
             /\ c > 0 => a = silence /\ b = size - cursor
             /\ modulation' = IF c > 0 THEN 0 ELSE modulation
             /\ done' <=> (done \/ c > 0)
             /\ Extended(handed, a, modulation, cursor, b, c, handed')
<1>1. PICK a, b, c \in Nat :
             /\ a <= silence /\ silence' = silence - a
             /\ b > 0 => a = silence
             /\ b <= size - cursor /\ cursor' = cursor + b
             /\ c > 0 => a = silence /\ b = size - cursor
             /\ handed' = handed \o Zeros(a) \o Samples(modulation, cursor, b) \o Zeros(c)
             /\ modulation' = IF c > 0 THEN 0 ELSE modulation
             /\ done' <=> (done \/ c > 0)
  BY CallbackBlock
<1>2. handed \in Seq(Sample) /\ modulation \in Nat /\ cursor \in Nat
  BY DEF PlaybackTypeOK, Sample
<1>3. Extended(handed, a, modulation, cursor, b, c, handed')
  BY <1>1, <1>2, Block4
<1> WITNESS a \in Nat, b \in Nat, c \in Nat
<1> QED BY <1>1, <1>3

LEMMA InitPlaybackInv == Init => PlaybackInv
<1> SUFFICES ASSUME Init PROVE PlaybackInv
  OBVIOUS
<1>1. DOMAIN handed = {} /\ Len(handed) = 0
  BY DEF Init
<1>2. DeviceInv
  BY DEF Init, DeviceInv
<1>3. CheckedInv
  BY DEF Init, CheckedInv
<1>4. ProgressInv /\ OnsetInv
  BY <1>1 DEF Init, ProgressInv, OnsetInv
<1>5. SoundInv /\ HeardInv
  BY DEF Init, SoundInv, Sounding, HeardInv
<1> QED BY <1>2, <1>3, <1>4, <1>5 DEF PlaybackInv

\* The steps that leave the frame's variables and what was handed over alone.
LEMMA QuietSteps ==
    ASSUME PlaybackTypeOK, PlaybackInv, UNCHANGED <<frameVars, played, readAt, pad, length>>,
           DeviceInv', CheckedInv', HeardInv',
           worker' \in {"stopping", "draining", "idle"} /\ result' = "ok" => done,
           Sounding' => Sounding
    PROVE  PlaybackInv'
<1>1. ProgressInv'
  BY DEF PlaybackInv, ProgressInv, frameVars
<1>2. OnsetInv'
  BY DEF PlaybackInv, OnsetInv, OnBoundary, frameVars
<1>3. SoundInv'
  BY DEF PlaybackInv, SoundInv, Sound, frameVars
<1> QED BY <1>1, <1>2, <1>3 DEF PlaybackInv

LEMMA TransmitKeeps ==
    ASSUME PlaybackTypeOK, PlaybackInv, TransmitFrame
    PROVE  PlaybackInv'
<1>1. PICK now \in Instants : readAt' = now /\ pad' = Silence(now)
  BY DEF TransmitFrame
<1>2. OnBoundary(readAt', pad')
  BY <1>1, SilenceAligns, PlaybackAssumption DEF PlaybackAssumption
<1>3. /\ worker = "idle" /\ played' = played + 1 /\ handed' = <<>>
      /\ modulation' = modulation /\ handle' = handle /\ stream' = stream
      /\ IF handle THEN worker' = "checked" /\ result' = "none"
                    ELSE worker' = "idle" /\ result' = "error"
  BY DEF TransmitFrame, Returns, deviceVars
<1>4. played \in Nat /\ modulation \in Nat /\ modulation <= played
  BY DEF PlaybackTypeOK
<1>5. DeviceInv'
  BY <1>3 DEF PlaybackInv, DeviceInv
<1>6. CheckedInv'
  BY <1>3, <1>4 DEF CheckedInv
<1>7. ProgressInv'
  BY <1>3, <1>4 DEF ProgressInv
<1>8. DOMAIN handed' = {}
  BY <1>3
<1>9. OnsetInv'
  BY <1>2, <1>8 DEF OnsetInv, OnBoundary
<1>10. SoundInv' /\ HeardInv'
  BY <1>3 DEF SoundInv, Sounding, HeardInv
<1> QED BY <1>5, <1>6, <1>7, <1>9, <1>10 DEF PlaybackInv

LEMMA ArmKeeps ==
    ASSUME PlaybackTypeOK, PlaybackInv, ArmFrame
    PROVE  PlaybackInv'
<1>1. /\ worker = "checked" /\ worker' = "armed"
      /\ silence' = pad /\ modulation' = played /\ size' = length /\ cursor' = 0
      /\ done' = FALSE
      /\ UNCHANGED <<result, played, readAt, pad, length, handle, stream, handed>>
  BY DEF ArmFrame, deviceVars
<1>2. played \in Nat /\ pad \in Nat /\ length \in Nat
  BY DEF PlaybackTypeOK
<1>3. handed = <<>> /\ played > 0
  BY <1>1 DEF PlaybackInv, CheckedInv
<1>4. DOMAIN handed = {} /\ Len(handed) = 0
  BY <1>3
<1>5. DeviceInv'
  BY <1>1 DEF PlaybackInv, DeviceInv
<1>6. CheckedInv'
  BY <1>1, <1>3 DEF CheckedInv
<1>7. ProgressInv'
  BY <1>1, <1>2, <1>4 DEF ProgressInv
<1>8. OnsetInv'
  BY <1>1, <1>3, <1>4 DEF PlaybackInv, OnsetInv, OnBoundary
<1>9. SoundInv' /\ HeardInv'
  BY <1>1, <1>3, <1>4 DEF SoundInv, HeardInv
<1> QED BY <1>5, <1>6, <1>7, <1>8, <1>9 DEF PlaybackInv

LEMMA CallbackKeeps ==
    ASSUME PlaybackTypeOK, PlaybackInv, Callback
    PROVE  PlaybackInv'
<1>1. PICK a, b, c \in Nat :
             /\ a <= silence /\ silence' = silence - a
             /\ b > 0 => a = silence
             /\ b <= size - cursor /\ cursor' = cursor + b
             /\ c > 0 => a = silence /\ b = size - cursor
             /\ modulation' = IF c > 0 THEN 0 ELSE modulation
             /\ done' <=> (done \/ c > 0)
             /\ Extended(handed, a, modulation, cursor, b, c, handed')
  BY CallbackHands
<1>11. /\ Len(handed') = Len(handed) + a + b + c
       /\ DOMAIN handed' = 1..(Len(handed) + a + b + c)
       /\ \A i \in 1..(Len(handed) + a + b + c) :
             handed'[i] = IF i <= Len(handed) THEN handed[i]
                         ELSE IF i <= Len(handed) + a THEN Zero
                         ELSE IF i <= Len(handed) + a + b
                              THEN <<modulation, (cursor + (i - Len(handed) - a)) - 1>>
                              ELSE Zero
  BY <1>1 DEF Extended
<1>2. /\ silence \in Nat /\ cursor \in Nat /\ size \in Nat /\ cursor <= size
      /\ modulation \in Nat /\ played \in Nat /\ pad \in Nat /\ length \in Nat
      /\ modulation <= played
      /\ Len(handed) \in Nat
      /\ DOMAIN handed = 1..Len(handed)
  BY LenProperties DEF PlaybackTypeOK
<1>3. /\ stream = "running" /\ modulation # 0
      /\ UNCHANGED <<worker, result, played, readAt, pad, length, handle, stream, size>>
  BY DEF Callback, Asked, callVars, deviceVars
<1>4. played > 0
  BY <1>2, <1>3
<1>5. DeviceInv'
  BY <1>3 DEF PlaybackInv, DeviceInv
<1>6. CheckedInv'
  BY <1>3, <1>4 DEF PlaybackInv, DeviceInv, CheckedInv
<1>7. modulation = played =>
        /\ size = length
        /\ silence <= pad
        /\ cursor > 0 => silence = 0
        /\ Len(handed) = (pad - silence) + cursor
  BY <1>4 DEF PlaybackInv, ProgressInv
<1>8. ProgressInv'
  <2> SUFFICES ASSUME modulation' = played' 
               PROVE  /\ size' = length'
                      /\ silence' <= pad'
                      /\ cursor' > 0 => silence' = 0
                      /\ Len(handed') = (pad' - silence') + cursor'
    BY DEF ProgressInv
  <2>1. c = 0 /\ modulation = played
    <3>1. modulation' > 0
      BY <1>3, <1>4
    <3>2. modulation' = IF c > 0 THEN 0 ELSE modulation
      BY <1>1, <1>11
    <3>3. c = 0 /\ modulation' = modulation
      BY ONLY <3>1, <3>2, c \in Nat
    <3> QED BY <3>3, <1>3
  <2> QED BY <2>1, <1>1, <1>11, <1>2, <1>3, <1>7
<1>9. OnsetInv'
  <2> SUFFICES ASSUME NEW i \in DOMAIN handed', handed'[i] = <<played, 0>>
               PROVE  i = pad + 1
    BY <1>3, <1>4 DEF PlaybackInv, OnsetInv, OnBoundary
  <2>1. Zero # <<played, 0>>
    BY <1>4 DEF Zero
  <2>2. i \in 1..(Len(handed) + a + b + c)
    BY <1>1, <1>11
  <2>3. CASE i <= Len(handed)
    BY <2>3, <2>2, <1>1, <1>11, <1>2 DEF PlaybackInv, OnsetInv
  <2>4. CASE ~(i <= Len(handed))
    <3>1. ~(i <= Len(handed) + a) /\ i <= Len(handed) + a + b
      BY <2>4, <2>2, <2>1, <1>1, <1>11
    <3>2. <<modulation, (cursor + (i - Len(handed) - a)) - 1>> = <<played, 0>>
      BY <3>1, <2>4, <2>2, <1>1, <1>11
    <3>3. modulation = played /\ (cursor + (i - Len(handed) - a)) - 1 = 0
      BY <3>2
    <3>4. b > 0 /\ cursor = 0 /\ i = Len(handed) + a + 1
      BY ONLY <3>1, <3>3, <2>2, <2>4, <1>2, a \in Nat, b \in Nat, c \in Nat
    <3>5. a = silence /\ Len(handed) = (pad - silence) + cursor
      BY <3>3, <3>4, <1>1, <1>11, <1>7
    <3> QED BY ONLY <3>4, <3>5, <1>2
  <2> QED BY <2>3, <2>4
<1>10. SoundInv'
  <2>1. (worker' \in {"stopping", "draining", "idle"} /\ result' = "ok") => done'
    BY <1>1, <1>11, <1>3 DEF PlaybackInv, SoundInv
  <2>2. SUFFICES ASSUME Sounding'
                 PROVE  /\ \A i \in DOMAIN handed' : handed'[i] = Sound(i)'
                        /\ done' => modulation' = 0 /\ Len(handed') >= pad' + length'
                        /\ ~done' => modulation' = played'
    BY <2>1, <1>3, <1>4 DEF SoundInv
  <2>3. Sounding
    BY <2>2, <1>3 DEF Sounding
  <2>4. ~done /\ modulation = played
    BY <2>3, <1>3 DEF PlaybackInv, SoundInv
  <2>5. /\ size = length /\ silence <= pad
        /\ cursor > 0 => silence = 0
        /\ Len(handed) = (pad - silence) + cursor
    BY <2>4, <1>7
  <2>6. \A i \in DOMAIN handed' : handed'[i] = Sound(i)'
    <3> SUFFICES ASSUME NEW i \in 1..(Len(handed) + a + b + c)
                 PROVE  handed'[i] = IF i \in (pad + 1)..(pad + length)
                                    THEN <<played, i - pad - 1>> ELSE Zero
      BY <1>1, <1>11, <1>3 DEF Sound
    <3>1. CASE i <= Len(handed)
      BY <3>1, <2>3, <1>1, <1>11, <1>2 DEF PlaybackInv, SoundInv, Sound
    <3>2. CASE ~(i <= Len(handed)) /\ i <= Len(handed) + a
      <4>1. handed'[i] = Zero
        BY <3>2, <1>1, <1>11
      <4>2. i <= pad
        BY <3>2, <2>5, <1>1, <1>11, <1>2
      <4> QED BY <4>1, <4>2, <1>2
    <3>3. CASE ~(i <= Len(handed)) /\ ~(i <= Len(handed) + a) /\ i <= Len(handed) + a + b
      <4>1. handed'[i] = <<modulation, (cursor + (i - Len(handed) - a)) - 1>>
        BY <3>3, <1>1, <1>11
      <4>2. a = silence /\ Len(handed) + a = pad + cursor
        <5>1. b > 0
          BY ONLY <3>3, <1>2, i \in 1..(Len(handed) + a + b + c), a \in Nat, b \in Nat, c \in Nat
        <5>2. a = silence
          BY <5>1, <1>1
        <5> QED BY ONLY <5>2, <2>5, <1>2
      <4>3. /\ i \in (pad + 1)..(pad + length)
            /\ (cursor + (i - Len(handed) - a)) - 1 = i - pad - 1
        BY <3>3, <4>2, <2>5, <1>1, <1>11, <1>2
      <4> QED BY <4>1, <4>3, <2>4
    <3>4. CASE ~(i <= Len(handed)) /\ ~(i <= Len(handed) + a) /\ ~(i <= Len(handed) + a + b)
      <4>1. handed'[i] = Zero
        BY <3>4, <1>1, <1>11
      <4>2. c > 0
        BY <3>4, <1>2
      <4>3. i > pad + length
        BY <3>4, <4>2, <2>5, <1>1, <1>11, <1>2
      <4> QED BY <4>1, <4>3, <1>2
    <3> QED BY <3>1, <3>2, <3>3, <3>4
  <2>7. done' => modulation' = 0 /\ Len(handed') >= pad' + length'
    BY <2>4, <2>5, <1>1, <1>11, <1>2, <1>3
  <2>8. ~done' => modulation' = played'
    BY <2>4, <1>1, <1>11, <1>2, <1>3
  <2> QED BY <2>6, <2>7, <2>8
<1>12. HeardInv'
  BY <1>3 DEF PlaybackInv, DeviceInv, HeardInv
<1> QED BY <1>5, <1>6, <1>8, <1>9, <1>10, <1>12 DEF PlaybackInv

LEMMA PlaybackStep == PlaybackTypeOK /\ PlaybackInv /\ [Next]_vars => PlaybackInv'
<1> SUFFICES ASSUME PlaybackTypeOK, PlaybackInv, [Next]_vars PROVE PlaybackInv'
  OBVIOUS
<1>1. CASE TransmitFrame
  BY <1>1, TransmitKeeps
<1>2. CASE ArmFrame
  BY <1>2, ArmKeeps
<1>3. CASE Callback
  BY <1>3, CallbackKeeps
<1>4. CASE StartStream \/ FrameDone \/ TimesOut \/ StopStream \/ Drained \/ Plays
            \/ Stalls \/ TakeStream \/ AbortStream \/ UNCHANGED vars
  <2>1. UNCHANGED <<frameVars, played, readAt, pad, length>>
    BY <1>4 DEF StartStream, FrameDone, TimesOut, StopStream, Drained, Plays, Stalls,
                TakeStream, AbortStream, vars, callVars
  <2>2. DeviceInv'
    <3> USE DEF PlaybackInv, DeviceInv
    <3>1. CASE StartStream
      BY <3>1 DEF StartStream, Returns
    <3>2. CASE FrameDone \/ TimesOut
      BY <3>2 DEF FrameDone, TimesOut, deviceVars
    <3>3. CASE StopStream
      BY <3>3 DEF StopStream, deviceVars
    <3>4. CASE Drained
      BY <3>4 DEF Drained
    <3>5. CASE TakeStream \/ AbortStream
      BY <3>5 DEF TakeStream, AbortStream, callVars
    <3>6. CASE Plays \/ Stalls \/ UNCHANGED vars
      BY <3>6 DEF Plays, Stalls, vars, callVars, deviceVars
    <3> QED BY <1>4, <3>1, <3>2, <3>3, <3>4, <3>5, <3>6
  <2>3. worker' = "checked" => worker = "checked"
    BY <1>4 DEF StartStream, FrameDone, TimesOut, StopStream, Drained, Plays, Stalls,
                TakeStream, AbortStream, vars, callVars, Returns
  <2>4. worker' # "idle" => worker # "idle"
    BY <1>4 DEF StartStream, FrameDone, TimesOut, StopStream, Drained, Plays, Stalls,
                TakeStream, AbortStream, vars, callVars, Returns
  <2>5. CheckedInv'
    BY <2>1, <2>3, <2>4 DEF PlaybackInv, CheckedInv, frameVars
  <2>6. worker' \in {"stopping", "draining", "idle"} /\ result' = "ok" => done
    BY <1>4 DEF StartStream, FrameDone, TimesOut, StopStream, Drained, Plays, Stalls,
                TakeStream, AbortStream, vars, callVars, Returns,
                PlaybackInv, SoundInv
  <2>7. Sounding' => Sounding
    BY <1>4 DEF StartStream, FrameDone, TimesOut, StopStream, Drained, Plays, Stalls,
                TakeStream, AbortStream, vars, callVars, Returns, Sounding
  <2>8. HeardInv'
    <3>1. CASE Drained
      <4>1. worker = "draining" /\ UNCHANGED <<handle, handed, heard>>
        BY <3>1 DEF Drained, frameVars
      <4>2. handle => stream = "running"
        BY <4>1 DEF PlaybackInv, DeviceInv
      <4>3. handle /\ ~cut' => heard = Len(handed)
        BY <3>1, <4>2, Zenon DEF Drained
      <4> QED BY <4>1, <4>3 DEF HeardInv
    <3>2. CASE StopStream
      BY <3>2 DEF StopStream, deviceVars, PlaybackInv, DeviceInv, HeardInv
    <3>3. CASE Plays
      BY <3>3 DEF Plays, callVars, deviceVars, PlaybackInv, DeviceInv, HeardInv
    <3>4. CASE StartStream
      BY <3>4 DEF StartStream, Returns, HeardInv
    <3>5. CASE FrameDone \/ TimesOut
      BY <3>5 DEF FrameDone, TimesOut, HeardInv
    <3>6. CASE Stalls \/ TakeStream \/ AbortStream \/ UNCHANGED vars
      <4>1. /\ UNCHANGED <<worker, result, heard, cut, handed>>
            /\ handle' => handle
        BY <3>6 DEF Stalls, TakeStream, AbortStream, vars, callVars, deviceVars, frameVars,
                    cardVars
      <4> QED BY <4>1 DEF PlaybackInv, HeardInv
    <3> QED BY <1>4, <3>1, <3>2, <3>3, <3>4, <3>5, <3>6
  <2> QED BY <2>1, <2>2, <2>5, <2>6, <2>7, <2>8, QuietSteps
<1> QED BY <1>1, <1>2, <1>3, <1>4 DEF Next

LEMMA PlaybackInvariant == Spec => []PlaybackInv
<1>1. PlaybackTypeOK /\ PlaybackInv /\ [Next]_vars => PlaybackInv'
  BY PlaybackStep
<1> QED BY <1>1, InitPlaybackInv, PlaybackTypeCorrect, PTL DEF Spec

-----------------------------------------------------------------------------
(***************************************************************************)
(* What follows from it.                                                   *)
(***************************************************************************)

\* A frame reported as sent was handed to the card whole: its silence, its
\* samples in order and zeros, whatever the blocks it was cut into and whatever
\* frames were given up before it.  It was heard to its end when play_frame
\* returned, unless the card stood still or the shutdown had taken the stream
\* (playback.py:260-285, 343-375).
THEOREM SentFramesPlayed == Spec => []SentFramesWerePlayed
<1>1. PlaybackTypeOK /\ PlaybackInv => SentFramesWerePlayed
  <2> SUFFICES ASSUME PlaybackTypeOK, PlaybackInv,
                      worker \in {"stopping", "draining", "idle"}, result = "ok"
               PROVE  /\ IsPrefix(Wanted, handed)
                      /\ \A i \in (Len(Wanted) + 1)..Len(handed) : handed[i] = Zero
                      /\ worker = "idle" /\ handle /\ ~cut => heard = Len(handed)
    BY DEF SentFramesWerePlayed, Sent
  <2>1. /\ pad \in Nat /\ length \in Nat /\ played \in Nat
        /\ handed \in Seq(Sample) /\ Len(handed) \in Nat /\ DOMAIN handed = 1..Len(handed)
    BY LenProperties DEF PlaybackTypeOK, Sample
  <2>2. /\ \A i \in 1..Len(handed) : handed[i] = Sound(i)
        /\ Len(handed) >= pad + length
    BY <2>1 DEF PlaybackInv, SoundInv, Sounding
  <2>3. /\ Zeros(pad) \in Seq(Sample) /\ Len(Zeros(pad)) = pad
        /\ \A i \in 1..pad : Zeros(pad)[i] = Zero
    BY <2>1, ZerosAreSamples
  <2>4. /\ Samples(played, 0, length) \in Seq(Sample)
        /\ Len(Samples(played, 0, length)) = length
        /\ \A i \in 1..length : Samples(played, 0, length)[i] = <<played, i - 1>>
    BY <2>1, WholeFrame
  <2>5. /\ Wanted \in Seq(Sample) /\ Len(Wanted) = pad + length
        /\ \A i \in 1..(pad + length) :
              Wanted[i] = IF i <= pad THEN Zeros(pad)[i] ELSE Samples(played, 0, length)[i - pad]
    <3> DEFINE z == Zeros(pad)
               m == Samples(played, 0, length)
    <3>1. z \in Seq(Sample) /\ Len(z) = pad /\ m \in Seq(Sample) /\ Len(m) = length
      BY <2>3, <2>4
    <3>2. Wanted = z \o m
      BY DEF Wanted
    <3> HIDE DEF z, m
    <3>3. /\ Wanted \in Seq(Sample) /\ Len(Wanted) = pad + length
          /\ \A i \in 1..(pad + length) :
                Wanted[i] = IF i <= pad THEN z[i] ELSE m[i - pad]
      BY <3>1, <3>2, ConcatProperties
    <3> QED BY <3>3 DEF z, m
  <2>6. \A i \in 1..(pad + length) : Wanted[i] = handed[i]
    <3> SUFFICES ASSUME NEW i \in 1..(pad + length) PROVE Wanted[i] = handed[i]
      OBVIOUS
    <3>1. CASE i <= pad
      <4>1. Wanted[i] = Zeros(pad)[i] /\ Zeros(pad)[i] = Zero
        BY <3>1, <2>1, <2>3, <2>5
      <4>2. handed[i] = Zero
        BY <3>1, <2>1, <2>2 DEF Sound
      <4> QED BY <4>1, <4>2
    <3>2. CASE i > pad
      <4>1. Wanted[i] = <<played, (i - pad) - 1>>
        <5>1. i - pad \in 1..length
          BY <3>2, <2>1
        <5>2. Wanted[i] = Samples(played, 0, length)[i - pad]
          BY <3>2, <2>1, <2>5
        <5> QED BY <5>1, <5>2, <2>4
      <4>2. handed[i] = <<played, i - pad - 1>>
        BY <3>2, <2>1, <2>2 DEF Sound
      <4> QED BY <3>2, <2>1, <4>1, <4>2
    <3> QED BY <3>1, <3>2, <2>1
  <2>7. IsPrefix(Wanted, handed)
    <3>1. SubSeq(handed, 1, Len(Wanted)) = Wanted
      BY <2>1, <2>2, <2>5, <2>6, SubSeqProperties, SeqEqual
    <3> QED BY <3>1, <2>1, <2>2, <2>5 DEF IsPrefix
  <2>8. \A i \in (Len(Wanted) + 1)..Len(handed) : handed[i] = Zero
    BY <2>1, <2>2, <2>5 DEF Sound
  <2>9. worker = "idle" /\ handle /\ ~cut => heard = Len(handed)
    BY DEF PlaybackInv, HeardInv
  <2> QED BY <2>7, <2>8, <2>9
<1> QED BY <1>1, PlaybackInvariant, PlaybackTypeCorrect, PTL

\* The first sample of a frame is heard on a boundary of the slot, for every
\* latency, slot, period and instant of the clock (tx_backend.py:426-465).
THEOREM FramesStartOnBoundary == Spec => []OnsetOnBoundary
<1>1. PlaybackTypeOK /\ PlaybackInv => OnsetOnBoundary
  <2> SUFFICES ASSUME PlaybackTypeOK, PlaybackInv,
                      NEW i \in DOMAIN handed, handed[i] = <<played, 0>>
               PROVE  OnBoundary(readAt, i - 1)
    BY DEF OnsetOnBoundary
  <2>1. i = pad + 1 /\ pad \in Nat
    BY DEF PlaybackInv, OnsetInv, PlaybackTypeOK
  <2>2. i - 1 = pad
    BY <2>1
  <2>3. played # 0
    BY DEF PlaybackInv, OnsetInv
  <2> QED BY <2>2, <2>3 DEF PlaybackInv, OnsetInv
<1> QED BY <1>1, PlaybackInvariant, PlaybackTypeCorrect, PTL

\* Between frames the open stream is silent: no sample of a frame that was
\* given up is handed over or heard after play_frame returned
\* (playback.py:364-375).
THEOREM EndedFramesStaySilent == Spec => EndedFramesAreSilent
<1>1. PlaybackTypeOK /\ PlaybackInv /\ [Next]_vars =>
         [handle /\ worker \in {"idle", "checked"} =>
             handed' \in {handed, <<>>} /\ heard' \in {heard, 0}]_vars
  <2> SUFFICES ASSUME PlaybackTypeOK, PlaybackInv, Next,
                      handle, worker \in {"idle", "checked"}
               PROVE  handed' \in {handed, <<>>} /\ heard' \in {heard, 0}
    OBVIOUS
  <2>1. stream = "stopped"
    BY DEF PlaybackInv, DeviceInv
  <2>2. ~Callback /\ ~Plays
    BY <2>1 DEF Callback, Asked, Plays
  <2> QED BY <2>2 DEF Next, TransmitFrame, ArmFrame, StartStream, FrameDone, TimesOut,
                      StopStream, Drained, Stalls, TakeStream, AbortStream,
                      frameVars, cardVars
<1>2. [][PlaybackTypeOK /\ PlaybackInv /\ Next]_vars => EndedFramesAreSilent
  BY <1>1, PTL DEF EndedFramesAreSilent
<1> QED BY <1>1, PlaybackInvariant, PlaybackTypeCorrect, PTL DEF Spec, EndedFramesAreSilent
=============================================================================
