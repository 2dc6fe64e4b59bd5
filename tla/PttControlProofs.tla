-------------------------- MODULE PttControlProofs --------------------------
(***************************************************************************)
(* Type correctness of PttControl, and its inductive invariant: what is    *)
(* true of the PTT line, of the watchdog's timer and of the threads that   *)
(* touch them, whatever the limits, the messages and the failures.         *)
(***************************************************************************)
EXTENDS PttControl, TLAPS

\* What the scheduler asks the watchdog for lies between a slot and the
\* horizon of the clock (cat/service.py 187-215).
LEMMA HoldBounds ==
  ASSUME NEW n \in 1..MaxFrames
  PROVE  /\ HoldFor(n) \in 1..Horizon
         /\ SLOT <= HoldFor(n)
         /\ SLOT \in 1..(Horizon - 1)
         /\ Horizon \in Nat
<1>1. MaxFrames \in Nat \ {0} /\ FRAME_BUDGET \in Nat \ {0} /\ CAT_GRACE \in Nat \ {0}
      /\ PTT_MAX_HOLD \in Nat \ {0} /\ SLOT \in Nat \ {0}
      /\ SLOT <= PTT_MAX_HOLD /\ SLOT <= FRAME_BUDGET
  BY PttAssumption
<1>2. n \in Nat /\ n >= 1 /\ n <= MaxFrames
  BY <1>1
<1> DEFINE d == MaxFrames - n
<1>3. d \in Nat /\ MaxFrames = n + d
  BY <1>1, <1>2
<1>4. MaxFrames * FRAME_BUDGET = n * FRAME_BUDGET + d * FRAME_BUDGET
  BY <1>1, <1>2, <1>3
<1>5. d * FRAME_BUDGET \in Nat /\ MaxFrames * FRAME_BUDGET \in Nat
  BY <1>1, <1>3
<1> DEFINE e == n - 1
<1>6. e \in Nat /\ n = e + 1
  BY <1>2
<1>7. n * FRAME_BUDGET = e * FRAME_BUDGET + FRAME_BUDGET /\ e * FRAME_BUDGET \in Nat
  BY <1>1, <1>6
<1> HIDE DEF d, e
<1> QED
  BY <1>1, <1>4, <1>5, <1>7 DEF HoldFor, Horizon

\* The count of failures stays within its bound.
LEMMA FaultsBounded ==
  ASSUME NEW o, CountFault(o), faults \in 0..MaxFaults
  PROVE  faults' \in 0..MaxFaults
  BY PttAssumption DEF CountFault

\* What a PTT command leaves behind, whatever its outcome.
LEMMA CommandEffect ==
  ASSUME NEW on \in BOOLEAN, NEW o \in Outcomes, NEW done \in BOOLEAN,
         Command(on, o, done), radio \in BOOLEAN, doubt \in BOOLEAN,
         sock \in {"none", "open", "closed"}, faults \in 0..MaxFaults
  PROVE  /\ radio' \in BOOLEAN /\ doubt' \in BOOLEAN
         /\ sock' \in {"none", "open", "closed"} /\ faults' \in 0..MaxFaults
         /\ o = "ok" => radio' = on
         /\ ~doubt' => o = "ok" \/ (on /\ radio' = radio /\ ~doubt)
<1>1. faults' \in 0..MaxFaults
  BY FaultsBounded DEF Command
<1>2. radio' \in BOOLEAN /\ (o = "ok" => radio' = on)
  <2>1. CASE done
    BY <2>1 DEF Command
  <2>2. CASE ~done
    BY <2>2 DEF Command
  <2> QED
    BY <2>1, <2>2
<1>3. doubt' \in BOOLEAN /\ sock' \in {"none", "open", "closed"}
  BY DEF Command
<1>4. ASSUME ~doubt', o # "ok" PROVE on /\ radio' = radio /\ ~doubt
  <2>1. ~doubt /\ on /\ o \notin Lost
    BY <1>4 DEF Command
  <2>2. ~done
    BY <1>4, <2>1 DEF Command, Outcomes, Faulty
  <2> QED
    BY <2>1, <2>2 DEF Command
<1> QED
  BY <1>1, <1>2, <1>3, <1>4

\* A burst in hand has a frame left to send, until its last one ends.
FramesLeft ==
  txPc \in {"gate", "key", "note", "mark", "kick", "rekick", "play", "hung", "slot"}
    => left > 0

\* Every variable has its type, and no frame is counted below zero.
TypeInv == PttTypeOK /\ FramesLeft

LEMMA TypeInit == Init => TypeInv
<1> HAVE Init
<1>1. 1 \in 1..MaxFrames /\ MaxFaults \in Nat /\ MaxFrames \in Nat /\ SLOT \in Nat
  BY PttAssumption
<1>2. Horizon \in Nat
  BY <1>1, HoldBounds
<1>3. /\ radio \in BOOLEAN /\ doubt \in BOOLEAN /\ connected \in BOOLEAN
      /\ burst \in BOOLEAN /\ untended \in BOOLEAN /\ joined \in BOOLEAN
  BY Zenon DEF Init
<1>4. /\ sock = "none" /\ heldFor = None /\ dogHeld = None /\ override = None
      /\ txPc = "idle" /\ left = 0 /\ pace = 0 /\ dogPc = "wait" /\ linkPc = "check"
      /\ stopPc = "run" /\ faults = 0
  BY DEF Init
<1> QED
  BY <1>1, <1>2, <1>3, <1>4 DEF TypeInv, PttTypeOK, TxPcs, FramesLeft, None

LEMMA TypeStep == TypeInv /\ [Next]_vars => TypeInv'
<1> SUFFICES ASSUME TypeInv, [Next]_vars PROVE TypeInv'
  OBVIOUS
<1> USE DEF TypeInv, PttTypeOK, TxPcs, FramesLeft, None, vars, line, timer, tx, dog, stop
<1>a. /\ 1 \in 1..MaxFrames /\ MaxFaults \in Nat /\ MaxFrames \in Nat
      /\ SLOT \in Nat /\ SLOT <= Horizon
      /\ Horizon \in Nat
  BY PttAssumption, HoldBounds
<1>1. CASE SetsHold
  BY <1>1, <1>a, HoldBounds DEF SetsHold, MoveTx
<1>2. CASE ChecksLink
  BY <1>2, <1>a DEF ChecksLink
<1>3. CASE NotesHeld
  BY <1>3, <1>a DEF NotesHeld, MoveTx
<1>4. CASE DropsHold
  BY <1>4, <1>a DEF DropsHold, MoveTx
<1>5. CASE MarksSending
  BY <1>5, <1>a DEF MarksSending, MoveTx
<1>6. CASE MarkingRaises
  BY <1>6, <1>a DEF MarkingRaises, MoveTx
<1>7. CASE KickLooks
  BY <1>7, <1>a DEF KickLooks
<1>8. CASE KickResets
  BY <1>8, <1>a DEF KickResets, MoveTx
<1>9. CASE PlayHangs
  BY <1>9, <1>a DEF PlayHangs, MoveTx
<1>10. CASE NextSlot
  BY <1>10, <1>a DEF NextSlot, MoveTx
<1>11. CASE DeadlinePassed
  BY <1>11, <1>a DEF DeadlinePassed, MoveTx
<1>12. CASE Forgets
  BY <1>12, <1>a DEF Forgets, MoveTx
<1>13. CASE SchedulerExits
  BY <1>13, <1>a DEF SchedulerExits
<1>14. ASSUME NEW ok \in BOOLEAN, FrameEnds(ok) PROVE TypeInv'
  BY <1>14, <1>a DEF FrameEnds
<1>15. ASSUME NEW o \in Outcomes, NEW done \in BOOLEAN, Keys(o, done) PROVE TypeInv'
  <2>1. Command(TRUE, o, done) /\ connected' \in BOOLEAN
    BY <1>15 DEF Keys, Call
  <2>2. /\ radio' \in BOOLEAN /\ doubt' \in BOOLEAN
        /\ sock' \in {"none", "open", "closed"} /\ faults' \in 0..MaxFaults
        /\ o = "ok" => radio' = TRUE
        /\ ~doubt' => o = "ok" \/ (TRUE /\ radio' = radio /\ ~doubt)
    BY <2>1, CommandEffect
  <2> QED
    BY <1>15, <2>1, <2>2, <1>a DEF Keys
<1>16. ASSUME NEW o \in Outcomes, NEW done \in BOOLEAN, Releases(o, done) PROVE TypeInv'
  <2>1. Command(FALSE, o, done) /\ connected' \in BOOLEAN
    BY <1>16 DEF Releases, MoveTx, Call
  <2>2. /\ radio' \in BOOLEAN /\ doubt' \in BOOLEAN
        /\ sock' \in {"none", "open", "closed"} /\ faults' \in 0..MaxFaults
        /\ o = "ok" => radio' = FALSE
        /\ ~doubt' => o = "ok" \/ (FALSE /\ radio' = radio /\ ~doubt)
    BY <2>1, CommandEffect
  <2> QED
    BY <1>16, <2>1, <2>2, <1>a DEF Releases, MoveTx
<1>17. CASE WatchdogReads
  BY <1>17, <1>a DEF WatchdogReads
<1>18. CASE WatchdogDecides
  BY <1>18, <1>a DEF WatchdogDecides, Cap
<1>19. CASE WatchdogForgets
  BY <1>19, <1>a DEF WatchdogForgets
<1>20. CASE WatchdogExits
  BY <1>20, <1>a DEF WatchdogExits
<1>21. ASSUME NEW o \in Outcomes, NEW done \in BOOLEAN, WatchdogReleases(o, done) PROVE TypeInv'
  <2>1. Command(FALSE, o, done) /\ connected' \in BOOLEAN
    BY <1>21 DEF WatchdogReleases, Call
  <2>2. /\ radio' \in BOOLEAN /\ doubt' \in BOOLEAN
        /\ sock' \in {"none", "open", "closed"} /\ faults' \in 0..MaxFaults
        /\ o = "ok" => radio' = FALSE
        /\ ~doubt' => o = "ok" \/ (FALSE /\ radio' = radio /\ ~doubt)
    BY <2>1, CommandEffect
  <2> QED
    BY <1>21, <2>1, <2>2, <1>a DEF WatchdogReleases
<1>22. CASE ChecksClient
  BY <1>22, <1>a DEF ChecksClient
<1>23. CASE Connects
  BY <1>23, <1>a DEF Connects, MoveLink
<1>24. CASE Installs
  BY <1>24, <1>a DEF Installs, MoveLink
<1>25. CASE Announces
  BY <1>25, <1>a DEF Announces, MoveLink
<1>26. CASE LinkExits
  BY <1>26, <1>a DEF LinkExits
<1>27. ASSUME NEW o \in Outcomes, Pings(o) PROVE TypeInv'
  BY <1>27, <1>a, FaultsBounded DEF Pings, MoveLink
<1>28. CASE StopsScheduler
  BY <1>28, <1>a DEF StopsScheduler
<1>29. CASE JoinsScheduler
  BY <1>29, <1>a DEF JoinsScheduler
<1>30. CASE StopCloses
  <2>1. connected' \in BOOLEAN
    BY <1>30, Zenon DEF StopCloses
  <2>2. /\ stopPc = "halting" /\ stopPc' = "closed" /\ sock' = "none"
        /\ UNCHANGED <<radio, doubt, faults, timer, tx, dog, linkPc, joined>>
    BY <1>30 DEF StopCloses
  <2> QED
    BY <2>1, <2>2, <1>a
<1>31. ASSUME NEW o \in Outcomes, NEW done \in BOOLEAN, StopReleases(o, done) PROVE TypeInv'
  <2>1. Command(FALSE, o, done)
    BY <1>31 DEF StopReleases
  <2>2. /\ radio' \in BOOLEAN /\ doubt' \in BOOLEAN
        /\ sock' \in {"none", "open", "closed"} /\ faults' \in 0..MaxFaults
        /\ o = "ok" => radio' = FALSE
        /\ ~doubt' => o = "ok" \/ (FALSE /\ radio' = radio /\ ~doubt)
    BY <2>1, CommandEffect
  <2> QED
    BY <1>31, <2>1, <2>2, <1>a DEF StopReleases
<1>32. CASE Tick
  BY <1>32, <1>a DEF Tick, Older
<1>33. ASSUME NEW o \in Outcomes, FrequencyCallFails(o) PROVE TypeInv'
  <2>1. connected' \in BOOLEAN
    BY <1>33, Zenon DEF FrequencyCallFails
  <2>2. /\ sock' \in {"none", "open", "closed"} /\ faults' \in 0..MaxFaults
        /\ UNCHANGED <<radio, doubt, timer, tx, dog, linkPc, stop>>
    BY <1>33, FaultsBounded DEF FrequencyCallFails
  <2> QED
    BY <2>1, <2>2, <1>a
<1>34. CASE GraceExpires
  BY <1>34, <1>a DEF GraceExpires
<1>35. CASE UNCHANGED vars
  BY <1>35, <1>a
<1> QED
  BY <1>1, <1>2, <1>3, <1>4, <1>5, <1>6, <1>7, <1>8, <1>9, <1>10, <1>11,
     <1>12, <1>13, <1>14, <1>15, <1>16, <1>17, <1>18, <1>19, <1>20, <1>21,
     <1>22, <1>23, <1>24, <1>25, <1>26, <1>27, <1>28, <1>29, <1>30, <1>31,
     <1>32, <1>33, <1>34, <1>35 DEF Next, TxStep, WatchdogStep, LinkStep, StopStep

\* Every variable keeps its type, whatever the limits and the failures.
THEOREM PttTypeCorrect == Spec => []PttTypeOK
<1>1. Spec => []TypeInv
  BY TypeInit, TypeStep, PTL DEF Spec
<1>2. TypeInv => PttTypeOK
  BY DEF TypeInv
<1> QED
  BY <1>1, <1>2, PTL

-----------------------------------------------------------------------------
(* The inductive invariant. *)

\* The backend's flag, except after the scheduler lost a burst.
BurstFlag ==
  /\ txPc \in {"key", "note"} => ~burst
  /\ ~untended /\ txPc \in {"idle", "gate", "unhold"} => ~burst
  /\ txPc \in {"mark", "kick", "rekick", "play", "hung", "slot", "forget", "off"}
       => burst

\* Limits that a slot does not exceed.
HoldsFitSlot == override # None => SLOT <= override

\* The timer of a tended burst tells the time since its last frame began, and
\* outside a burst no timer runs.
TendedTimer ==
  ~untended =>
    /\ heldFor = IF Tending THEN pace ELSE None
    /\ dogPc = "decide" => dogHeld <= SLOT

\* A tended burst has the radio keyed from start_burst to end_burst.
TendedKeyed ==
  ~untended /\ BeforeFinalRelease =>
    (txPc \in {"note", "mark", "kick", "rekick", "play", "slot", "forget"}
       => radio)

\* The watchdog ends in a shut-down only.
DogStays == dogPc = "exited" => Halting

\* What the shut-down knows once it has waited for the scheduler.
Joined ==
  joined => /\ txPc = "exited" /\ stopPc \in {"release", "halting", "closed"}
            /\ Halting /\ ~doubt => ~radio

HungIsUntended == txPc = "hung" => untended

PttInv ==
  /\ TypeInv
  /\ BurstFlag /\ HoldsFitSlot /\ TendedTimer /\ TendedKeyed
  /\ KeyedIsWatched /\ WatchdogSparesTendedBursts
  /\ DogStays /\ Joined /\ HungIsUntended

LEMMA PttInit == Init => PttInv
<1> HAVE Init
<1>1. TypeInv
  BY TypeInit
<1>2. SLOT \in Nat
  BY PttAssumption
<1> QED
  BY <1>1, <1>2 DEF Init, PttInv, Tending, BurstFlag, HoldsFitSlot, TendedTimer,
     TendedKeyed, KeyedIsWatched, WatchdogSparesTendedBursts, DogStays,
     Joined, HungIsUntended, None

LEMMA PttStep == PttInv /\ [Next]_vars => PttInv'
<1> SUFFICES ASSUME PttInv, [Next]_vars PROVE PttInv'
  OBVIOUS
<1>t. TypeInv'
  BY TypeStep DEF PttInv
<1> DEFINE Rest == /\ BurstFlag /\ HoldsFitSlot /\ TendedTimer /\ TendedKeyed
                   /\ KeyedIsWatched /\ WatchdogSparesTendedBursts
                   /\ DogStays /\ Joined /\ HungIsUntended
<1> SUFFICES Rest'
  BY <1>t DEF PttInv
<1> USE DEF PttInv, TypeInv, PttTypeOK, TxPcs, FramesLeft, BurstFlag,
            HoldsFitSlot, TendedTimer, TendedKeyed, KeyedIsWatched,
            WatchdogSparesTendedBursts, DogStays, Joined, HungIsUntended,
            BeforeFinalRelease, Halting, Tending, None, vars, line, timer, tx, dog, stop
<1>a. /\ SLOT \in Nat /\ PTT_MAX_HOLD \in Nat /\ SLOT <= PTT_MAX_HOLD
      /\ Horizon \in Nat /\ SLOT < Horizon
      /\ 1 \in 1..MaxFrames /\ MaxFrames \in Nat
  BY PttAssumption, HoldBounds
<1>1. CASE SetsHold
  BY <1>1, <1>a, HoldBounds DEF SetsHold, MoveTx
<1>2. CASE ChecksLink
  BY <1>2, <1>a DEF ChecksLink
<1>3. CASE NotesHeld
  BY <1>3, <1>a DEF NotesHeld, MoveTx
<1>4. CASE DropsHold
  BY <1>4, <1>a DEF DropsHold, MoveTx
<1>5. CASE MarksSending
  BY <1>5, <1>a DEF MarksSending, MoveTx
<1>6. CASE MarkingRaises
  BY <1>6, <1>a DEF MarkingRaises, MoveTx
<1>7. CASE KickLooks
  BY <1>7, <1>a DEF KickLooks
<1>8. CASE KickResets
  BY <1>8, <1>a DEF KickResets, MoveTx
<1>9. CASE PlayHangs
  BY <1>9, <1>a DEF PlayHangs, MoveTx
<1>10. CASE NextSlot
  BY <1>10, <1>a DEF NextSlot, MoveTx
<1>11. CASE DeadlinePassed
  BY <1>11, <1>a DEF DeadlinePassed, MoveTx
<1>12. CASE Forgets
  BY <1>12, <1>a DEF Forgets, MoveTx
<1>13. CASE SchedulerExits
  BY <1>13, <1>a DEF SchedulerExits
<1>14. ASSUME NEW ok \in BOOLEAN, FrameEnds(ok) PROVE Rest'
  BY <1>14, <1>a DEF FrameEnds
<1>15. ASSUME NEW o \in Outcomes, NEW done \in BOOLEAN, Keys(o, done) PROVE Rest'
  <2>1. Command(TRUE, o, done) /\ connected' \in BOOLEAN
    BY <1>15 DEF Keys, Call
  <2>2. /\ radio' \in BOOLEAN /\ doubt' \in BOOLEAN
        /\ sock' \in {"none", "open", "closed"} /\ faults' \in 0..MaxFaults
        /\ o = "ok" => radio' = TRUE
        /\ ~doubt' => o = "ok" \/ (TRUE /\ radio' = radio /\ ~doubt)
    BY <2>1, CommandEffect
  <2> QED
    BY <1>15, <2>1, <2>2, <1>a DEF Keys
<1>16. ASSUME NEW o \in Outcomes, NEW done \in BOOLEAN, Releases(o, done) PROVE Rest'
  <2>1. Command(FALSE, o, done) /\ connected' \in BOOLEAN
    BY <1>16 DEF Releases, MoveTx, Call
  <2>2. /\ radio' \in BOOLEAN /\ doubt' \in BOOLEAN
        /\ sock' \in {"none", "open", "closed"} /\ faults' \in 0..MaxFaults
        /\ o = "ok" => radio' = FALSE
        /\ ~doubt' => o = "ok" \/ (FALSE /\ radio' = radio /\ ~doubt)
    BY <2>1, CommandEffect
  <2> QED
    BY <1>16, <2>1, <2>2, <1>a DEF Releases, MoveTx
<1>17. CASE WatchdogReads
  BY <1>17, <1>a DEF WatchdogReads
<1>18. CASE WatchdogDecides
  BY <1>18, <1>a DEF WatchdogDecides, Cap
<1>19. CASE WatchdogForgets
  BY <1>19, <1>a DEF WatchdogForgets
<1>20. CASE WatchdogExits
  BY <1>20, <1>a DEF WatchdogExits
<1>21. ASSUME NEW o \in Outcomes, NEW done \in BOOLEAN, WatchdogReleases(o, done) PROVE Rest'
  <2>1. Command(FALSE, o, done) /\ connected' \in BOOLEAN
    BY <1>21 DEF WatchdogReleases, Call
  <2>2. /\ radio' \in BOOLEAN /\ doubt' \in BOOLEAN
        /\ sock' \in {"none", "open", "closed"} /\ faults' \in 0..MaxFaults
        /\ o = "ok" => radio' = FALSE
        /\ ~doubt' => o = "ok" \/ (FALSE /\ radio' = radio /\ ~doubt)
    BY <2>1, CommandEffect
  <2> QED
    BY <1>21, <2>1, <2>2, <1>a DEF WatchdogReleases
<1>22. CASE ChecksClient
  BY <1>22, <1>a DEF ChecksClient
<1>23. CASE Connects
  BY <1>23, <1>a DEF Connects, MoveLink
<1>24. CASE Installs
  BY <1>24, <1>a DEF Installs, MoveLink
<1>25. CASE Announces
  BY <1>25, <1>a DEF Announces, MoveLink
<1>26. CASE LinkExits
  BY <1>26, <1>a DEF LinkExits
<1>27. ASSUME NEW o \in Outcomes, Pings(o) PROVE Rest'
  BY <1>27, <1>a, FaultsBounded DEF Pings, MoveLink
<1>28. CASE StopsScheduler
  BY <1>28, <1>a DEF StopsScheduler
<1>29. CASE JoinsScheduler
  BY <1>29, <1>a DEF JoinsScheduler
<1>30. CASE StopCloses
  <2>1. connected' \in BOOLEAN
    BY <1>30, Zenon DEF StopCloses
  <2>2. /\ stopPc = "halting" /\ stopPc' = "closed" /\ sock' = "none"
        /\ UNCHANGED <<radio, doubt, faults, timer, tx, dog, linkPc, joined>>
    BY <1>30 DEF StopCloses
  <2> QED
    BY <2>1, <2>2, <1>a
<1>31. ASSUME NEW o \in Outcomes, NEW done \in BOOLEAN, StopReleases(o, done) PROVE Rest'
  <2>1. Command(FALSE, o, done)
    BY <1>31 DEF StopReleases
  <2>2. /\ radio' \in BOOLEAN /\ doubt' \in BOOLEAN
        /\ sock' \in {"none", "open", "closed"} /\ faults' \in 0..MaxFaults
        /\ o = "ok" => radio' = FALSE
        /\ ~doubt' => o = "ok" \/ (FALSE /\ radio' = radio /\ ~doubt)
    BY <2>1, CommandEffect
  <2> QED
    BY <1>31, <2>1, <2>2, <1>a DEF StopReleases
<1>32. CASE Tick
  BY <1>32, <1>a DEF Tick, Older
<1>33. ASSUME NEW o \in Outcomes, FrequencyCallFails(o) PROVE Rest'
  <2>1. connected' \in BOOLEAN
    BY <1>33, Zenon DEF FrequencyCallFails
  <2>2. /\ sock' \in {"none", "open", "closed"} /\ faults' \in 0..MaxFaults
        /\ UNCHANGED <<radio, doubt, timer, tx, dog, linkPc, stop>>
    BY <1>33, FaultsBounded DEF FrequencyCallFails
  <2> QED
    BY <2>1, <2>2, <1>a
<1>34. CASE GraceExpires
  BY <1>34, <1>a DEF GraceExpires
<1>35. CASE UNCHANGED vars
  BY <1>35, <1>a
<1> QED
  BY <1>1, <1>2, <1>3, <1>4, <1>5, <1>6, <1>7, <1>8, <1>9, <1>10, <1>11,
     <1>12, <1>13, <1>14, <1>15, <1>16, <1>17, <1>18, <1>19, <1>20, <1>21,
     <1>22, <1>23, <1>24, <1>25, <1>26, <1>27, <1>28, <1>29, <1>30, <1>31,
     <1>32, <1>33, <1>34, <1>35 DEF Next, TxStep, WatchdogStep, LinkStep, StopStep

LEMMA PttInductive == Spec => []PttInv
  BY PttInit, PttStep, PTL DEF Spec

\* A keyed radio always has somebody who will release it: the watchdog's
\* unlocked timer cannot be lost between the two threads that write it.
THEOREM KeyedStaysWatched == Spec => []KeyedIsWatched
  BY PttInductive, PTL DEF PttInv

\* The watchdog never releases a burst the scheduler tends, for every length
\* of message and every limit not below a slot.
THEOREM TendedBurstsAreSpared == Spec => []WatchdogSparesTendedBursts
  BY PttInductive, PTL DEF PttInv

\* No frame of a tended burst is played into a radio that is not keyed.
THEOREM FramesGoOutKeyed == Spec => []FramesAreKeyed
<1>1. PttInv => FramesAreKeyed
  BY DEF PttInv, TendedKeyed, FramesAreKeyed
<1> QED
  BY <1>1, PttInductive, PTL

\* A shut-down that saw the scheduler end and closed CAT leaves the radio off.
THEOREM JoinedShutdownIsSafe == Spec => []JoinedShutdownReleases
<1>1. PttInv => JoinedShutdownReleases
  BY DEF PttInv, Joined, Halting, JoinedShutdownReleases
<1> QED
  BY <1>1, PttInductive, PTL
=============================================================================
