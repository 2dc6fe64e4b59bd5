--------------------------- MODULE ConsoleProofs ---------------------------
(***************************************************************************)
(* Proofs about Console, for any number of beacon threads and of pending   *)
(* completions, any station, any keys and any mail.                        *)
(***************************************************************************)
EXTENDS Console, InboxViewProofs, TLAPS

-----------------------------------------------------------------------------
(***************************************************************************)
(* The screen and the shutdown.                                            *)
(***************************************************************************)

\* The screen that a cancelled shutdown or a closed view returns to is never
\* the shutdown screen.
ShutdownInv ==
    /\ ShutdownScreenIsOwned
    /\ previous # "SHUTTING_DOWN"

LEMMA RingIsARing ==
    ASSUME NEW s
    PROVE  RingNext(s) \in RingScreens /\ RingPrev(s) \in RingScreens
<1>1. DOMAIN Ring = 1..9 /\ Len(Ring) = 9
  BY DEF Ring
<1>2. RingIndex(s) \in 1..9
  <2>1. CASE s \in RingScreens
    <3>1. \E i \in 1..9 : Ring[i] = s
      BY <1>1, <2>1 DEF RingScreens
    <3> QED BY <1>1, <2>1, <3>1 DEF RingIndex
  <2>2. CASE s \notin RingScreens
    BY <2>2 DEF RingIndex
  <2> QED BY <2>1, <2>2
<1>3. /\ (RingIndex(s) % 9) + 1 \in 1..9
      /\ ((RingIndex(s) + 9 - 2) % 9) + 1 \in 1..9
  BY <1>2
<1> QED BY <1>1, <1>3 DEF RingNext, RingPrev, RingScreens

LEMMA NotOnTheRing == "SHUTTING_DOWN" \notin RingScreens
BY DEF RingScreens, Ring

LEMMA InitShutdown == Init => ShutdownInv
BY DEF Init, ShutdownInv, ShutdownScreenIsOwned, FirstScreen

LEMMA StepShutdown == ShutdownInv /\ [Next]_vars => ShutdownInv'
<1> SUFFICES ASSUME ShutdownInv, [Next]_vars PROVE ShutdownInv'
  OBVIOUS
<1> USE DEF ShutdownInv, ShutdownScreenIsOwned
<1>1. CASE UNCHANGED <<screen, previous, shutdown>>
  BY <1>1
<1>2. CASE Hotkey \/ RingKey
  <2>1. screen' \in RingScreens \/ UNCHANGED screen
    BY <1>2, RingIsARing DEF Hotkey, RingKey, SetScreen, Enter, RingScreens, Ring
  <2>2. UNCHANGED <<previous, shutdown>>
    BY <1>2 DEF Hotkey, RingKey, SetScreen, gestureVars
  <2> QED BY <2>1, <2>2, NotOnTheRing
<1>3. CASE EmergencyBypass \/ InboxOpen \/ SendStore \/ SendMessage
             \/ OpenHbSelect \/ HbCommit \/ HbCancel
  BY <1>3 DEF EmergencyBypass, BypassOnce, InboxOpen, SendStore, SendMessage,
              OpenHbSelect, HbCommit, HbCancel, KeyOn, gestureVars
<1>4. CASE DetailEsc \/ DetailDelete
  BY <1>4 DEF DetailEsc, DetailDelete, CloseDetail, gestureVars
<1>5. CASE CtrlX \/ Press
  BY <1>5 DEF CtrlX, Press, ArmShutdown, ShutdownScreen
<1>6. CASE ShutdownEsc \/ PoweroffEnds
  BY <1>6 DEF ShutdownEsc, PoweroffEnds, CancelGesture, RestoredScreen, GestureArmed
<1>7. CASE ShutdownCompletes
  BY <1>7 DEF ShutdownCompletes, screenVars
<1>8. CASE ReleaseTop
  <2>1. RestoredScreen = "SHUTTING_DOWN" => shutdown' # "idle"
    BY <1>8 DEF ReleaseTop, CancelGesture, RestoredScreen, GestureArmed
  <2>2. screen' = RestoredScreen \/ screen' \in RingScreens
    BY <1>8, RingIsARing DEF ReleaseTop, Enter
  <2> QED BY <1>8, <2>1, <2>2, NotOnTheRing DEF ReleaseTop
<1>9. CASE ReleaseBottom
  <2>1. RestoredScreen = "SHUTTING_DOWN" => shutdown' # "idle"
    BY <1>9 DEF ReleaseBottom, CancelGesture, RestoredScreen, GestureArmed
  <2>2. screen' = RestoredScreen \/ screen' \in RingScreens
    BY <1>9, RingIsARing DEF ReleaseBottom, Enter
  <2> QED BY <1>9, <2>1, <2>2, NotOnTheRing DEF ReleaseBottom
<1>10. CASE BeginEdit \/ CancelEdit \/ CommitEdit \/ SetupTab \/ CycleRadio
              \/ InboxMove \/ InboxDelete \/ ComposeKey \/ AllcallMove \/ HbSelectMove
  BY <1>10, <1>1 DEF BeginEdit, CancelEdit, CommitEdit, SetupTab, CycleRadio, InboxMove,
              InboxDelete, ComposeKey, AllcallMove, HbSelectMove, consoleVars,
              screenVars, gestureVars
<1>11. CASE EmergencyKey \/ HoldCompletes \/ MailArrives \/ StationHeard \/ GpsFix
              \/ Join \/ Revert \/ StopRequested \/ Cleanup \/ CleanupJoined
              \/ (\E b \in Beacon : BeaconRuns(b)) \/ Encode \/ UNCHANGED vars
  BY <1>11, <1>1 DEF EmergencyKey, HoldCompletes, MailArrives, StationHeard, GpsFix, Join,
              Revert, StopRequested, Cleanup, CleanupJoined, BeaconRuns, Encode, vars,
              consoleVars, screenVars, gestureVars
<1> QED BY <1>2, <1>3, <1>4, <1>5, <1>6, <1>7, <1>8, <1>9, <1>10, <1>11 DEF Next

\* The shutdown screen is never left behind, whatever cancels the shutdown
\* and whatever hotkeys change the screen meanwhile (state.py:935-952).
THEOREM ShutdownScreenOwned == Spec => []ShutdownScreenIsOwned
<1>1. ShutdownInv => ShutdownScreenIsOwned
  BY DEF ShutdownInv
<1> QED BY <1>1, InitShutdown, StepShutdown, PTL DEF Spec

-----------------------------------------------------------------------------
(***************************************************************************)
(* The lock to SETUP.                                                      *)
(***************************************************************************)

\* Without buttons an edit goes on on SETUP only, and a locked station's
\* shutdown was begun there.
LockInv ==
    "BUTTON" \notin scenario.events =>
        /\ ~TxAllowed => screen \in {"SETUP", "SHUTTING_DOWN"}
        /\ editing # NoField => screen = "SETUP"
        /\ ~TxAllowed /\ screen = "SHUTTING_DOWN" => previous = "SETUP"

LEMMA InitLock == Init => LockInv
BY DEF Init, LockInv, FirstScreen, TxAllowed, Configured

LEMMA StepLock == LockInv /\ [Next]_vars => LockInv'
<1> SUFFICES ASSUME LockInv, [Next]_vars, "BUTTON" \notin scenario'.events
             PROVE  /\ ~TxAllowed' => screen' \in {"SETUP", "SHUTTING_DOWN"}
                    /\ editing' # NoField => screen' = "SETUP"
                    /\ ~TxAllowed' /\ screen' = "SHUTTING_DOWN" => previous' = "SETUP"
  BY DEF LockInv
<1>1. UNCHANGED scenario
  BY DEF Next, BeginEdit, CancelEdit, CommitEdit, Hotkey, RingKey, SetupTab,
         EmergencyBypass, CycleRadio, InboxMove, InboxOpen, InboxDelete, DetailEsc,
         DetailDelete, CloseDetail, ComposeKey, SendStore, SendMessage, AllcallMove,
         OpenHbSelect, HbSelectMove, HbCommit, HbCancel, EmergencyKey, HoldCompletes,
         CtrlX, ShutdownEsc, ShutdownCompletes, PoweroffEnds, Press, ReleaseTop,
         ReleaseBottom, MailArrives, StationHeard, GpsFix, Join, Revert,
         StopRequested, Cleanup, CleanupJoined, BeaconRuns, Encode, vars, consoleVars
<1>2. /\ ~TxAllowed => screen \in {"SETUP", "SHUTTING_DOWN"}
      /\ editing # NoField => screen = "SETUP"
      /\ ~TxAllowed /\ screen = "SHUTTING_DOWN" => previous = "SETUP"
  BY <1>1 DEF LockInv
<1>3. ~Press /\ ~ReleaseTop /\ ~ReleaseBottom
  BY <1>1 DEF Press, ReleaseTop, ReleaseBottom, Happens
<1>4. CASE UNCHANGED <<call, grid, override, screen, previous, editing>>
  BY <1>2, <1>4 DEF TxAllowed, Configured
<1>5. CASE BeginEdit \/ CancelEdit \/ CommitEdit
  <2>1. UNCHANGED <<override, screen, previous>>
    BY <1>5 DEF BeginEdit, CancelEdit, CommitEdit
  <2>2. CASE CommitEdit
    BY <1>2, <2>1, <2>2 DEF CommitEdit
  <2>3. CASE BeginEdit \/ CancelEdit
    <3>1. UNCHANGED <<call, grid>>
      BY <2>3 DEF BeginEdit, CancelEdit, beaconVars, stationVars
    <3>2. editing' # NoField => screen = "SETUP"
      BY <2>3 DEF BeginEdit, CancelEdit, KeyOn
    <3> QED BY <1>2, <2>1, <3>1, <3>2 DEF TxAllowed, Configured
  <2> QED BY <1>5, <2>2, <2>3
<1>6. CASE Hotkey
  BY <1>2, <1>6 DEF Hotkey, SetScreen, Enter, TxAllowed, Configured, beaconVars, stationVars
<1>7. CASE RingKey
  <2>1. TxAllowed' /\ editing' = NoField
    BY <1>7 DEF RingKey, Key, TxAllowed, Configured, beaconVars, stationVars
  <2> QED BY <2>1
<1>8. CASE EmergencyBypass
  BY <1>8 DEF EmergencyBypass, BypassOnce, KeyOn, Key, TxAllowed
<1>9. CASE InboxOpen \/ SendStore \/ SendMessage \/ OpenHbSelect \/ HbCommit \/ HbCancel
           \/ DetailEsc \/ DetailDelete
  <2>1. TxAllowed /\ editing = NoField
    BY <1>2, <1>9 DEF InboxOpen, SendStore, SendMessage, Send, OpenHbSelect, HbCommit, HbCancel,
                DetailEsc, DetailDelete, KeyOn, Key
  <2>2. UNCHANGED <<override, editing>>
    BY <1>9 DEF InboxOpen, SendStore, SendMessage, OpenHbSelect, HbCommit, HbCancel,
                DetailEsc, DetailDelete, CloseDetail
  <2>3. UNCHANGED <<call, grid>>
    BY <1>9 DEF InboxOpen, SendStore, SendMessage, OpenHbSelect, HbCommit, HbCancel,
                DetailEsc, DetailDelete, CloseDetail, beaconVars, stationVars, SetHbMode
  <2> QED BY <2>1, <2>2, <2>3 DEF TxAllowed, Configured
<1>10. CASE CtrlX \/ ShutdownEsc \/ ShutdownCompletes \/ PoweroffEnds
  <2>1. UNCHANGED <<call, grid, override, editing>>
    BY <1>10 DEF CtrlX, ShutdownEsc, ShutdownCompletes, PoweroffEnds, screenVars,
                 beaconVars, stationVars
  <2>2. CASE CtrlX
    BY <1>2, <2>1, <2>2 DEF CtrlX, Key, ArmShutdown, ShutdownScreen, TxAllowed, Configured
  <2>3. CASE ShutdownEsc \/ PoweroffEnds
    BY <1>2, <2>1, <2>3 DEF ShutdownEsc, PoweroffEnds, RestoredScreen, TxAllowed, Configured
  <2>4. CASE ShutdownCompletes
    BY <1>4, <2>1, <2>4 DEF ShutdownCompletes, screenVars
  <2> QED BY <1>10, <2>2, <2>3, <2>4
<1>11. CASE SetupTab \/ CycleRadio \/ InboxMove \/ InboxDelete \/ ComposeKey \/ AllcallMove
              \/ HbSelectMove
  BY <1>11, <1>4 DEF SetupTab, CycleRadio, InboxMove, InboxDelete, ComposeKey, AllcallMove,
              HbSelectMove, consoleVars, screenVars, beaconVars, stationVars
<1>12. CASE EmergencyKey \/ HoldCompletes \/ MailArrives \/ StationHeard \/ GpsFix
              \/ Join \/ Revert \/ StopRequested \/ Cleanup \/ CleanupJoined
              \/ (\E b \in Beacon : BeaconRuns(b)) \/ Encode \/ UNCHANGED vars
  <2>1. UNCHANGED <<override, screen, previous, editing>>
    BY <1>12 DEF EmergencyKey, HoldCompletes, MailArrives, StationHeard, GpsFix, Join,
              Revert, StopRequested, Cleanup, CleanupJoined, BeaconRuns, Encode, vars,
              consoleVars, screenVars
  <2>2. UNCHANGED <<call, grid>>
    BY <1>12 DEF EmergencyKey, HoldCompletes, Arm, Disarm, MailArrives, StationHeard, GpsFix,
              Join, HeartbeatJoined, SosJoined, Revert, RevertToOff, StopRequested, Cleanup,
              CleanupJoined, BeaconRuns, BeaconStep, FireFirst, FireAgain, Fire, Complete,
              Wake, Encode, EncodeSos, vars, beaconVars, stationVars
  <2> QED BY <1>4, <2>1, <2>2
<1> QED BY <1>3, <1>5, <1>6, <1>7, <1>8, <1>9, <1>10, <1>11, <1>12 DEF Next

\* From the keyboard a station without identity and bypass stays on SETUP
\* (router.py:323-359).
THEOREM KeyboardLocked == Spec => []KeyboardLock
<1>1. LockInv => KeyboardLock
  BY DEF LockInv, KeyboardLock
<1> QED BY <1>1, InitLock, StepLock, PTL DEF Spec

-----------------------------------------------------------------------------
(***************************************************************************)
(* The draft.                                                              *)
(***************************************************************************)

LEMMA EnterKeepsDraft ==
    ASSUME NEW s, Enter(s), form.to # ""
    PROVE  form' = form
BY DEF Enter, Prepopulate

\* Outside COMPOSE no step changes a draft that has an addressee
\* (state.py:726-749).
THEOREM DraftsSurvive == Spec => DraftSurvives
<1>1. [Next]_vars => [form' # form => screen = "COMPOSE" \/ form.to = ""]_vars
  <2> SUFFICES ASSUME Next, form.to # "", screen # "COMPOSE" PROVE form' = form
    OBVIOUS
  <2>1. CASE Hotkey \/ RingKey \/ ReleaseTop \/ ReleaseBottom
    BY <2>1, EnterKeepsDraft DEF Hotkey, SetScreen, RingKey, ReleaseTop, ReleaseBottom
  <2>2. ~ComposeKey /\ ~SendStore /\ ~SendMessage
    BY DEF ComposeKey, SendStore, SendMessage, Send, KeyOn
  <2>3. CASE BeginEdit \/ CancelEdit \/ CommitEdit \/ SetupTab \/ EmergencyBypass
             \/ CycleRadio \/ InboxMove \/ InboxOpen \/ InboxDelete \/ DetailEsc
             \/ DetailDelete \/ AllcallMove \/ OpenHbSelect \/ HbSelectMove
             \/ HbCommit \/ HbCancel
    BY <2>3 DEF BeginEdit, CancelEdit, CommitEdit, SetupTab, EmergencyBypass, CycleRadio,
            InboxMove, InboxOpen, InboxDelete, DetailEsc, DetailDelete, CloseDetail,
            AllcallMove, OpenHbSelect, HbSelectMove, HbCommit, HbCancel, consoleVars, formVars
  <2>4. CASE EmergencyKey \/ HoldCompletes \/ CtrlX \/ ShutdownEsc \/ ShutdownCompletes
             \/ PoweroffEnds \/ Press \/ MailArrives \/ StationHeard \/ GpsFix \/ Join
             \/ Revert \/ StopRequested \/ Cleanup \/ CleanupJoined
             \/ (\E b \in Beacon : BeaconRuns(b)) \/ Encode
    BY <2>4 DEF EmergencyKey, HoldCompletes, CtrlX, ShutdownEsc, ShutdownCompletes,
            PoweroffEnds, Press, MailArrives, StationHeard, GpsFix, Join, Revert,
            StopRequested, Cleanup, CleanupJoined, BeaconRuns, Encode, consoleVars, formVars
  <2> QED BY <2>1, <2>2, <2>3, <2>4 DEF Next
<1> QED BY <1>1, PTL DEF Spec, DraftSurvives

-----------------------------------------------------------------------------
(***************************************************************************)
(* The beacons.                                                            *)
(***************************************************************************)

\* What the beacons have to do with the rest of the terminal.
ConsoleCoreTypeOK ==
    /\ BeaconTypeOK
    /\ daemon \in {"up", "stopping", "closing", "down"}
    /\ hbFocus \in 0..3

\* A thread that has ended keeps nothing, a single-shot heartbeat never
\* waits, and the two beacons of the loop are different threads.
ThreadsInv ==
    /\ \A b \in Beacon :
          /\ pc[b] = "dead" => kind[b] = "none" /\ ~stopped[b]
          /\ pc[b] # "dead" => kind[b] # "none"
          /\ kind[b] = "SINGLE" => pc[b] \in {"first", "complete"}
          /\ pc[b] = "complete" => kind[b] = "SINGLE"
    /\ hbBeacon = sosBeacon => hbBeacon = None
    /\ joining \in {None, hbBeacon, sosBeacon}

\* The loop is joined on the heartbeat, which then goes.
HbGoes == joining # None /\ joining = hbBeacon

HeartbeatInv ==
    /\ \A b \in Beacon : Alive(b) /\ kind[b] # "SOS" /\ ~stopped[b] => b = hbBeacon
    /\ hbBeacon # None /\ Alive(hbBeacon) => kind[hbBeacon] # "SOS"
    /\ HbGoes /\ Alive(hbBeacon) => stopped[hbBeacon]
    /\ daemon # "down" /\ ~HbGoes =>
           IF hbMode = "OFF" THEN hbBeacon = None
           ELSE /\ hbBeacon # None
                /\ Alive(hbBeacon) => kind[hbBeacon] = hbMode /\ ~stopped[hbBeacon]
                /\ queueUp => Alive(hbBeacon) \/ (hbMode = "SINGLE" /\ reverts > 0)
    /\ daemon = "closing" => HbGoes
    /\ daemon = "down" => hbBeacon = None

\* While the loop is joined on the SOS beacon the display already says that
\* there is none.
SosInv ==
    /\ \A b \in Beacon : kind[b] = "SOS" /\ Alive(b) /\ ~stopped[b] =>
           armed /\ b = sosBeacon
    /\ sosBeacon # None /\ Alive(sosBeacon) => kind[sosBeacon] = "SOS"
    /\ sosBeacon # None => (armed <=> joining # sosBeacon)
    /\ armed /\ queueUp => sosBeacon # None /\ Alive(sosBeacon) /\ ~stopped[sosBeacon]

BeaconInv == ThreadsInv /\ HeartbeatInv /\ SosInv

\* The whole of threadVars after a step that is about thread b only.
OnlyThread(b, p, k, s) ==
    \A c \in Beacon :
        /\ pc'[c] = IF c = b THEN p ELSE pc[c]
        /\ kind'[c] = IF c = b THEN k ELSE kind[c]
        /\ stopped'[c] <=> IF c = b THEN s ELSE stopped[c]

LEMMA StartEffect ==
    ASSUME BeaconTypeOK, NEW b \in Beacon, NEW what, Start(b, what)
    PROVE  OnlyThread(b, "first", what, FALSE)
BY DEF BeaconTypeOK, Start, OnlyThread

LEMMA StopEffect ==
    ASSUME BeaconTypeOK, NEW b \in Beacon, StopAndJoin(b)
    PROVE  OnlyThread(b, pc[b], kind[b], Alive(b)) /\ joining' = b
BY DEF BeaconTypeOK, StopAndJoin, OnlyThread, Alive

LEMMA MoveEffect ==
    ASSUME BeaconTypeOK, NEW b \in Beacon, NEW p, MoveTo(b, p)
    PROVE  OnlyThread(b, p, IF p = "dead" THEN "none" ELSE kind[b], stopped[b] /\ p # "dead")
BY DEF BeaconTypeOK, MoveTo, OnlyThread

\* The parts of the state that a step about threads leaves alone.
LEMMA BeaconTyped ==
    ASSUME ConsoleCoreTypeOK
    PROVE  /\ hbBeacon \in {None} \cup Beacon /\ sosBeacon \in {None} \cup Beacon
           /\ joining \in {None} \cup Beacon
           /\ None \notin Beacon
           /\ hbMode \in HbModes /\ reverts \in Nat
BY BeaconAssumption DEF BeaconAssumption, ConsoleCoreTypeOK, BeaconTypeOK, Beacon, None

\* A new thread for one of the two beacons, which had none that is alive and
\* not told to stop.
LEMMA StartHeartbeatKeeps ==
    ASSUME ConsoleCoreTypeOK, BeaconInv, NEW m \in HbModes, StartHeartbeat(m), hbMode' = m,
           HbGoes \/ hbBeacon = None, LoopFree \/ HbGoes,
           daemon \in {"up", "stopping"},
           UNCHANGED <<daemon, queueUp, armed, sosBeacon, reverts>>
    PROVE  BeaconInv'
<1> USE BeaconTyped DEF BeaconInv, Alive, HbGoes, LoopFree
<1>1. CASE m = "OFF"
  <2>1. joining' = None /\ hbBeacon' = None /\ UNCHANGED <<pc, kind, stopped>>
    BY <1>1 DEF StartHeartbeat, threadVars
  <2>2. ThreadsInv'
    BY <2>1 DEF ThreadsInv
  <2>3. HeartbeatInv'
    BY <1>1, <2>1 DEF HeartbeatInv
  <2>4. SosInv'
    BY <2>1 DEF ThreadsInv, SosInv
  <2> QED BY <2>2, <2>3, <2>4
<1>2. CASE m # "OFF"
  <2>1. PICK b \in Beacon : FreeSlot(b, sosBeacon) /\ hbBeacon' = b /\ Start(b, m)
    BY <1>2 DEF StartHeartbeat
  <2>2. joining' = None /\ b # sosBeacon /\ pc[b] = "dead"
    BY <2>1 DEF StartHeartbeat, FreeSlot
  <2>3. OnlyThread(b, "first", m, FALSE)
    BY <2>1, StartEffect DEF ConsoleCoreTypeOK
  <2>4. m # "none" /\ m # "SOS"
    BY DEF HbModes
  <2>5. ThreadsInv'
    BY <2>1, <2>2, <2>3, <2>4 DEF ThreadsInv, OnlyThread
  <2>6. HeartbeatInv'
    BY <1>2, <2>1, <2>2, <2>3, <2>4 DEF HeartbeatInv, OnlyThread
  <2>7. SosInv'
    BY <2>1, <2>2, <2>3, <2>4 DEF ThreadsInv, SosInv, OnlyThread
  <2> QED BY <2>5, <2>6, <2>7
<1> QED BY <1>1, <1>2

LEMMA StopHeartbeatKeeps ==
    ASSUME ConsoleCoreTypeOK, BeaconInv, LoopFree, hbBeacon # None, StopAndJoin(hbBeacon),
           daemon' \in {"up", "stopping", "closing"},
           UNCHANGED <<queueUp, armed, hbBeacon, sosBeacon>>
    PROVE  BeaconInv'
<1> USE BeaconTyped DEF BeaconInv, Alive, HbGoes, LoopFree
<1>1. OnlyThread(hbBeacon, pc[hbBeacon], kind[hbBeacon], Alive(hbBeacon)) /\ joining' = hbBeacon
  BY StopEffect DEF ConsoleCoreTypeOK
<1>2. ThreadsInv'
  BY <1>1 DEF ThreadsInv, OnlyThread
<1>3. HeartbeatInv'
  BY <1>1 DEF HeartbeatInv, OnlyThread
<1>4. SosInv'
  BY <1>1 DEF ThreadsInv, SosInv, OnlyThread
<1> QED BY <1>2, <1>3, <1>4

LEMMA ArmKeeps ==
    ASSUME ConsoleCoreTypeOK, BeaconInv, LoopFree, Arm, UNCHANGED daemon
    PROVE  BeaconInv'
<1> USE BeaconTyped DEF BeaconInv, Alive, HbGoes, LoopFree
<1>1. armed' /\ UNCHANGED <<queueUp, hbMode, hbBeacon, joining, reverts>>
  BY DEF Arm, stationVars, hbVars
<1>2. CASE armed \/ sosBeacon # None \/ ~queueUp
  <2>1. UNCHANGED <<sosBeacon, pc, kind, stopped>>
    BY <1>2 DEF Arm, threadVars
  <2>2. ThreadsInv' /\ HeartbeatInv'
    BY <1>1, <2>1 DEF ThreadsInv, HeartbeatInv
  <2>3. SosInv'
    BY <1>1, <1>2, <2>1 DEF SosInv
  <2> QED BY <2>2, <2>3
<1>3. CASE ~(armed \/ sosBeacon # None \/ ~queueUp)
  <2>1. PICK b \in Beacon : FreeSlot(b, hbBeacon) /\ sosBeacon' = b /\ Start(b, "SOS")
    BY <1>3 DEF Arm
  <2>2. b # hbBeacon /\ pc[b] = "dead"
    BY <2>1 DEF FreeSlot
  <2>3. OnlyThread(b, "first", "SOS", FALSE)
    BY <2>1, StartEffect DEF ConsoleCoreTypeOK
  <2>4. ThreadsInv'
    BY <1>1, <1>3, <2>1, <2>2, <2>3 DEF ThreadsInv, OnlyThread
  <2>5. HeartbeatInv'
    BY <1>1, <1>3, <2>1, <2>2, <2>3 DEF HeartbeatInv, OnlyThread
  <2>6. SosInv'
    BY <1>1, <1>3, <2>1, <2>2, <2>3 DEF SosInv, OnlyThread
  <2> QED BY <2>4, <2>5, <2>6
<1> QED BY <1>2, <1>3

LEMMA DisarmKeeps ==
    ASSUME ConsoleCoreTypeOK, BeaconInv, LoopFree, Disarm, UNCHANGED daemon,
           daemon \in {"up", "stopping"}
    PROVE  BeaconInv'
<1> USE BeaconTyped DEF BeaconInv, Alive, HbGoes, LoopFree
<1>1. ~armed' /\ UNCHANGED <<queueUp, hbMode, hbBeacon, sosBeacon, reverts>>
  BY DEF Disarm, stationVars, hbVars
<1>2. CASE armed /\ sosBeacon # None
  <2>1. OnlyThread(sosBeacon, pc[sosBeacon], kind[sosBeacon], Alive(sosBeacon))
        /\ joining' = sosBeacon
    BY <1>2, StopEffect DEF ConsoleCoreTypeOK, Disarm
  <2>2. ThreadsInv'
    BY <1>1, <1>2, <2>1 DEF ThreadsInv, OnlyThread
  <2>3. HeartbeatInv'
    BY <1>1, <1>2, <2>1 DEF ThreadsInv, HeartbeatInv, SosInv, OnlyThread
  <2>4. SosInv'
    BY <1>1, <1>2, <2>1 DEF SosInv, OnlyThread
  <2> QED BY <2>2, <2>3, <2>4
<1>3. CASE ~(armed /\ sosBeacon # None)
  <2>1. UNCHANGED <<pc, kind, stopped, joining>>
    BY <1>3 DEF Disarm, threadVars
  <2>2. sosBeacon = None
    BY <1>3 DEF SosInv
  <2>3. ThreadsInv' /\ HeartbeatInv'
    BY <1>1, <2>1 DEF ThreadsInv, HeartbeatInv
  <2>4. SosInv'
    BY <1>1, <2>1, <2>2 DEF SosInv
  <2> QED BY <2>3, <2>4
<1> QED BY <1>2, <1>3

LEMMA SosJoinedKeeps ==
    ASSUME ConsoleCoreTypeOK, BeaconInv, SosJoined, UNCHANGED daemon
    PROVE  BeaconInv'
<1> USE BeaconTyped DEF BeaconInv, Alive, HbGoes
<1>1. /\ joining # None /\ joining = sosBeacon /\ joining' = None /\ sosBeacon' = None
      /\ UNCHANGED <<queueUp, hbMode, hbBeacon, armed, pc, kind, stopped, reverts>>
  BY DEF SosJoined, stationVars, hbVars, threadVars
<1>2. ThreadsInv' /\ HeartbeatInv'
  BY <1>1 DEF ThreadsInv, HeartbeatInv
<1>3. SosInv'
  BY <1>1 DEF SosInv
<1> QED BY <1>2, <1>3

LEMMA RevertKeeps ==
    ASSUME ConsoleCoreTypeOK, BeaconInv, RevertToOff, UNCHANGED daemon,
           daemon \in {"up", "stopping"}
    PROVE  BeaconInv'
<1> USE BeaconTyped DEF BeaconInv, Alive, HbGoes, LoopFree
<1>1. LoopFree /\ UNCHANGED <<queueUp, armed, sosBeacon>>
  BY DEF RevertToOff, stationVars, sosVars
<1>2. CASE hbMode = "OFF"
  <2>1. UNCHANGED <<hbMode, hbBeacon, pc, kind, stopped, joining>>
    BY <1>2 DEF RevertToOff, hbVars, threadVars
  <2>2. ThreadsInv' /\ SosInv'
    BY <1>1, <2>1 DEF ThreadsInv, SosInv
  <2>3. HeartbeatInv'
    BY <1>1, <1>2, <2>1 DEF HeartbeatInv
  <2> QED BY <2>2, <2>3
<1>3. CASE hbMode # "OFF"
  <2>1. hbBeacon # None
    BY <1>1, <1>3 DEF HeartbeatInv
  <2>2. StopAndJoin(hbBeacon) /\ UNCHANGED hbBeacon
    BY <1>3, <2>1 DEF RevertToOff
  <2> QED BY <1>1, <2>1, <2>2, StopHeartbeatKeeps
<1> QED BY <1>2, <1>3

\* A step of a thread that does not end early.
LEMMA ThreadMoves ==
    ASSUME ConsoleCoreTypeOK, BeaconInv, NEW b \in Beacon, NEW p \in Pcs, MoveTo(b, p),
           pc[b] # "dead",
           p = "complete" => kind[b] = "SINGLE",
           kind[b] = "SINGLE" => p \in {"complete", "dead"},
           p = "dead" => \/ stopped[b] \/ ~queueUp
                         \/ (kind[b] = "SINGLE" /\ reverts' > 0),
           reverts > 0 => reverts' > 0,
           UNCHANGED <<daemon, queueUp, hbMode, hbBeacon, armed, sosBeacon, joining>>
    PROVE  BeaconInv'
<1> USE BeaconTyped DEF BeaconInv, Alive, HbGoes
<1>1. OnlyThread(b, p, IF p = "dead" THEN "none" ELSE kind[b], stopped[b] /\ p # "dead")
  BY MoveEffect DEF ConsoleCoreTypeOK
<1>2. ThreadsInv'
  BY <1>1 DEF ThreadsInv, OnlyThread
<1>3. HeartbeatInv'
  BY <1>1 DEF ThreadsInv, HeartbeatInv, OnlyThread
<1>4. SosInv'
  BY <1>1 DEF ThreadsInv, SosInv, OnlyThread
<1> QED BY <1>2, <1>3, <1>4

LEMMA BeaconStepKeeps ==
    ASSUME ConsoleCoreTypeOK, BeaconInv, NEW b \in Beacon, BeaconStep(b), UNCHANGED daemon
    PROVE  BeaconInv'
<1> USE DEF BeaconInv, Pcs
<1>1. UNCHANGED <<queueUp, hbMode, hbBeacon, armed, sosBeacon, joining>>
  BY DEF BeaconStep, FireFirst, FireAgain, Fire, Complete, Wake, stationVars, hbVars, sosVars
<1>2. reverts \in Nat
  BY BeaconTyped
<1>3. CASE FireFirst(b)
  <2>1. PICK p \in {"dead", IF kind[b] = "SINGLE" THEN "complete" ELSE "wait"} :
            MoveTo(b, p) /\ (p = "dead" => ~queueUp)
    BY <1>3 DEF FireFirst, Fire
  <2>2. pc[b] = "first" /\ UNCHANGED reverts
    BY <1>3 DEF FireFirst, Fire
  <2> QED BY <1>1, <1>2, <2>1, <2>2, ThreadMoves
<1>4. CASE FireAgain(b)
  <2>1. PICK p \in {"dead", "wait"} : MoveTo(b, p) /\ (p = "dead" => ~queueUp)
    BY <1>4 DEF FireAgain, Fire
  <2>2. pc[b] = "fire" /\ UNCHANGED reverts
    BY <1>4 DEF FireAgain, Fire
  <2>3. kind[b] # "SINGLE"
    BY <2>2 DEF ThreadsInv
  <2> QED BY <1>1, <1>2, <2>1, <2>2, <2>3, ThreadMoves
<1>5. CASE Complete(b)
  <2>1. pc[b] = "complete" /\ reverts' = reverts + 1 /\ MoveTo(b, "dead")
    BY <1>5 DEF Complete
  <2>2. kind[b] = "SINGLE"
    BY <2>1 DEF ThreadsInv
  <2> QED BY <1>1, <1>2, <2>1, <2>2, ThreadMoves
<1>6. CASE Wake(b)
  <2>1. PICK p \in {"dead", "fire"} : MoveTo(b, p) /\ (p = "dead" => stopped[b])
    BY <1>6 DEF Wake
  <2>2. pc[b] = "wait" /\ UNCHANGED reverts
    BY <1>6 DEF Wake
  <2>3. kind[b] # "SINGLE"
    BY <2>2 DEF ThreadsInv
  <2> QED BY <1>1, <1>2, <2>1, <2>2, <2>3, ThreadMoves
<1> QED BY <1>3, <1>4, <1>5, <1>6 DEF BeaconStep

-----------------------------------------------------------------------------
(***************************************************************************)
(* Types of what the beacons have to do with.                              *)
(***************************************************************************)

Flags == {queueUp, call, grid, located, armed} \subseteq BOOLEAN

ThreadTypeOK ==
    /\ pc \in [Beacon -> Pcs]
    /\ kind \in [Beacon -> Kinds]
    /\ stopped \in [Beacon -> BOOLEAN]

OtherTypeOK ==
    /\ hbMode \in HbModes
    /\ hbBeacon \in 0..MaxBeacons /\ sosBeacon \in 0..MaxBeacons
    /\ joining \in 0..MaxBeacons
    /\ reverts \in 0..MaxReverts
    /\ sosRow \in {"none", "queued", "encoded", "failed"}

LEMMA TypeParts == BeaconTypeOK <=> Flags /\ ThreadTypeOK /\ OtherTypeOK
<1>1. {hbBeacon, sosBeacon, joining} \subseteq 0..MaxBeacons
         <=> /\ hbBeacon \in 0..MaxBeacons /\ sosBeacon \in 0..MaxBeacons
             /\ joining \in 0..MaxBeacons
  OBVIOUS
<1> QED BY <1>1, Zenon DEF BeaconTypeOK, Flags, ThreadTypeOK, OtherTypeOK

LEMMA StartTyped ==
    ASSUME ThreadTypeOK, NEW b \in Beacon, NEW what \in Kinds, Start(b, what)
    PROVE  ThreadTypeOK'
BY DEF ThreadTypeOK, Start, Pcs

LEMMA StopTyped ==
    ASSUME ThreadTypeOK, NEW b, StopAndJoin(b)
    PROVE  ThreadTypeOK'
<1>1. stopped' \in [Beacon -> BOOLEAN]
  BY Zenon DEF ThreadTypeOK, StopAndJoin, Alive
<1> QED BY <1>1 DEF ThreadTypeOK, StopAndJoin

LEMMA MoveTyped ==
    ASSUME ThreadTypeOK, NEW b \in Beacon, NEW p \in Pcs, MoveTo(b, p)
    PROVE  ThreadTypeOK'
<1>1. pc' \in [Beacon -> Pcs]
  BY DEF ThreadTypeOK, MoveTo
<1>2. kind' \in [Beacon -> Kinds]
  BY DEF ThreadTypeOK, MoveTo, Kinds
<1>3. stopped' \in [Beacon -> BOOLEAN]
  BY DEF ThreadTypeOK, MoveTo
<1> QED BY <1>1, <1>2, <1>3 DEF ThreadTypeOK

LEMMA StartHeartbeatTyped ==
    ASSUME ThreadTypeOK, NEW m \in HbModes, StartHeartbeat(m)
    PROVE  ThreadTypeOK' /\ hbBeacon' \in 0..MaxBeacons /\ joining' \in 0..MaxBeacons
<1> USE BeaconAssumption DEF BeaconAssumption
<1>1. joining' \in 0..MaxBeacons
  BY DEF StartHeartbeat, None
<1>2. CASE m = "OFF"
  BY <1>1, <1>2 DEF StartHeartbeat, threadVars, ThreadTypeOK, None
<1>3. CASE m # "OFF"
  <2>1. PICK b \in Beacon : hbBeacon' = b /\ Start(b, m)
    BY <1>3 DEF StartHeartbeat
  <2>2. m \in Kinds
    BY <1>3 DEF Kinds
  <2>3. ThreadTypeOK'
    BY <2>1, <2>2, StartTyped
  <2> QED BY <1>1, <2>1, <2>3 DEF Beacon
<1> QED BY <1>2, <1>3

LEMMA InitCoreTyped == Init => ConsoleCoreTypeOK
<1> SUFFICES ASSUME Init PROVE ConsoleCoreTypeOK
  OBVIOUS
<1>1. Flags
  <2>1. {scenario.queue, scenario.call, scenario.grid, scenario.located} \subseteq BOOLEAN
    BY ConsoleAssumption DEF ConsoleAssumption, Init
  <2>2. {queueUp, call, grid, located} \subseteq BOOLEAN
    BY <2>1 DEF Init
  <2>3. armed = FALSE
    BY DEF Init, InitBeacons
  <2> QED BY <2>2, <2>3 DEF Flags
<1>2. ThreadTypeOK
  BY DEF Init, InitBeacons, ThreadTypeOK, Pcs, Kinds
<1>3. OtherTypeOK
  BY BeaconAssumption DEF BeaconAssumption, Init, InitBeacons, OtherTypeOK, HbModes, None
<1> QED BY <1>1, <1>2, <1>3, TypeParts DEF Init, ConsoleCoreTypeOK

\* Every other action leaves the beacons, the daemon and the selection alone.
LEMMA OthersLeaveBeacons ==
    ASSUME \/ BeginEdit \/ CancelEdit \/ Hotkey \/ RingKey \/ SetupTab \/ EmergencyBypass
           \/ InboxMove \/ InboxOpen \/ InboxDelete \/ DetailEsc \/ DetailDelete
           \/ ComposeKey \/ SendStore \/ SendMessage \/ AllcallMove \/ HbCancel
           \/ EmergencyKey \/ CtrlX \/ ShutdownEsc \/ ShutdownCompletes \/ PoweroffEnds
           \/ Press \/ ReleaseTop \/ ReleaseBottom \/ MailArrives \/ StationHeard
           \/ UNCHANGED vars
    PROVE  UNCHANGED <<beaconVars, daemon, hbFocus>>
<1>1. CASE BeginEdit \/ CancelEdit \/ Hotkey \/ RingKey \/ SetupTab \/ EmergencyBypass
           \/ InboxMove \/ InboxOpen \/ InboxDelete \/ DetailEsc \/ DetailDelete
  BY <1>1 DEF BeginEdit, CancelEdit, Hotkey, RingKey, SetupTab, EmergencyBypass, InboxMove,
              InboxOpen, InboxDelete, DetailEsc, DetailDelete, CloseDetail, consoleVars,
              focusVars
<1>2. CASE ComposeKey \/ SendStore \/ SendMessage \/ AllcallMove \/ HbCancel
           \/ EmergencyKey \/ CtrlX \/ ShutdownEsc \/ ShutdownCompletes \/ PoweroffEnds
  BY <1>2 DEF ComposeKey, SendStore, SendMessage, AllcallMove, HbCancel, EmergencyKey,
              CtrlX, ShutdownEsc, ShutdownCompletes, PoweroffEnds, focusVars
<1>3. CASE Press \/ ReleaseTop \/ ReleaseBottom \/ MailArrives \/ StationHeard
           \/ UNCHANGED vars
  BY <1>3 DEF Press, ReleaseTop, ReleaseBottom, MailArrives, StationHeard, vars,
              consoleVars, focusVars
<1> QED BY <1>1, <1>2, <1>3

LEMMA Modes ==
    /\ \A i \in 1..4 : HbOrder[i] \in HbModes
    /\ \A m \in HbModes : \E i \in 1..4 : HbOrder[i] = m
<1>1. HbOrder[1] = "OFF" /\ HbOrder[2] = "SINGLE" /\ HbOrder[3] = "20 MIN" /\ HbOrder[4] = "1 HR"
  BY DEF HbOrder
<1>2. 1..4 = {1, 2, 3, 4}
  OBVIOUS
<1> QED BY <1>1, <1>2 DEF HbModes

LEMMA SelectedMode ==
    ASSUME ConsoleCoreTypeOK
    PROVE  HbOrder[hbFocus + 1] \in HbModes
<1>1. hbFocus + 1 \in 1..4
  BY DEF ConsoleCoreTypeOK
<1> QED BY <1>1, Modes

LEMMA KeyIsReady ==
    ASSUME NEW s, NEW k, KeyOn(s, k)
    PROVE  LoopFree /\ daemon \in {"up", "stopping"}
BY DEF KeyOn, Key, Pressed, Ready

LEMMA CommitIsReady ==
    ASSUME HbCommit
    PROVE  LoopFree /\ daemon \in {"up", "stopping"} /\ UNCHANGED daemon
<1>1. PICK k : KeyOn("HB_MODE_SELECT", k)
  BY DEF HbCommit
<1> QED BY <1>1, KeyIsReady DEF HbCommit

LEMMA StepCoreTyped == ConsoleCoreTypeOK /\ [Next]_vars => ConsoleCoreTypeOK'
<1> SUFFICES ASSUME ConsoleCoreTypeOK, [Next]_vars PROVE ConsoleCoreTypeOK'
  OBVIOUS
<1>0. /\ Flags /\ ThreadTypeOK /\ OtherTypeOK
      /\ daemon \in {"up", "stopping", "closing", "down"}
      /\ hbFocus \in 0..3
  BY TypeParts DEF ConsoleCoreTypeOK
<1> SUFFICES /\ Flags' /\ ThreadTypeOK' /\ OtherTypeOK'
             /\ daemon' \in {"up", "stopping", "closing", "down"}
             /\ hbFocus' \in 0..3
  <2>1. BeaconTypeOK' <=> Flags' /\ ThreadTypeOK' /\ OtherTypeOK'
    BY TypeParts, PTL
  <2> QED BY <2>1 DEF ConsoleCoreTypeOK
<1> USE BeaconAssumption DEF BeaconAssumption
<1>1. CASE UNCHANGED <<beaconVars, daemon, hbFocus>>
  <2>1. Flags'
    BY <1>0, <1>1, Zenon DEF Flags, beaconVars, stationVars, sosVars
  <2> QED BY <1>0, <1>1, <2>1 DEF ThreadTypeOK, OtherTypeOK, beaconVars, hbVars, sosVars, threadVars
<1>2. CASE CommitEdit
  <2>1. call' \in BOOLEAN /\ grid' \in BOOLEAN
    BY <1>0, <1>2 DEF CommitEdit, Saved, Flags
  <2>2. Flags'
    BY <1>0, <1>2, <2>1, Zenon DEF CommitEdit, Flags, sosVars
  <2> QED BY <1>0, <1>2, <2>2 DEF CommitEdit, ThreadTypeOK, OtherTypeOK, hbVars, sosVars,
                                  threadVars, focusVars
<1>3. CASE CycleRadio \/ StopRequested
  <2>1. Flags'
    BY <1>0, <1>3, Zenon DEF CycleRadio, StopRequested, Flags, beaconVars, stationVars, sosVars
  <2> QED BY <1>0, <1>3, <2>1 DEF CycleRadio, StopRequested, ThreadTypeOK, OtherTypeOK,
                       beaconVars, hbVars, sosVars, threadVars, focusVars
<1>4. CASE OpenHbSelect \/ HbSelectMove
  <2>1. hbFocus' \in 0..3
    <3>1. CASE HbSelectMove
      BY <1>0, <3>1 DEF HbSelectMove
    <3>2. CASE OpenHbSelect
      <4>1. \E i \in 1..4 : HbOrder[i] = hbMode
        BY <1>0, Modes DEF OtherTypeOK
      <4>2. (CHOOSE i \in 1..4 : HbOrder[i] = hbMode) \in 1..4
        BY <4>1
      <4> QED BY <3>2, <4>2 DEF OpenHbSelect
    <3> QED BY <1>4, <3>1, <3>2
  <2>2. UNCHANGED <<beaconVars, daemon>>
    BY <1>4 DEF OpenHbSelect, HbSelectMove
  <2>3. Flags'
    BY <1>0, <2>2, Zenon DEF Flags, beaconVars, stationVars, sosVars
  <2> QED BY <1>0, <2>1, <2>2, <2>3 DEF ThreadTypeOK, OtherTypeOK, beaconVars, hbVars, sosVars, threadVars
<1>5. CASE HbCommit
  <2>1. PICK m \in HbModes : SetHbMode(m)
    BY <1>5, SelectedMode DEF HbCommit
  <2>2. UNCHANGED <<daemon, hbFocus>>
    BY <1>5 DEF HbCommit, focusVars
  <2>3. CASE m = hbMode
    BY <1>1, <2>1, <2>2, <2>3 DEF SetHbMode
  <2>4. CASE m # hbMode
    <3>1. hbMode' = m /\ UNCHANGED <<stationVars, sosVars, reverts, sosRow>>
      BY <2>1, <2>4 DEF SetHbMode
    <3>2. Flags'
      BY <1>0, <3>1, Zenon DEF Flags, stationVars, sosVars
    <3>3. CASE hbBeacon # None
      <4>1. StopAndJoin(hbBeacon) /\ UNCHANGED hbBeacon
        BY <2>1, <2>4, <3>3 DEF SetHbMode
      <4>2. joining' = hbBeacon
        BY <4>1 DEF StopAndJoin
      <4> QED BY <1>0, <2>2, <3>1, <3>2, <4>1, <4>2, StopTyped DEF OtherTypeOK, sosVars
    <3>4. CASE hbBeacon = None
      <4>1. StartHeartbeat(m)
        BY <2>1, <2>4, <3>4 DEF SetHbMode
      <4> QED BY <1>0, <2>2, <3>1, <3>2, <4>1, StartHeartbeatTyped DEF OtherTypeOK, sosVars
    <3> QED BY <3>3, <3>4
  <2> QED BY <2>3, <2>4
<1>6. CASE HoldCompletes
  <2>1. UNCHANGED <<daemon, hbFocus>>
    BY <1>6 DEF HoldCompletes, focusVars
  <2>2. armed' \in BOOLEAN /\ UNCHANGED <<stationVars, hbVars, reverts, sosRow>>
    BY <1>6 DEF HoldCompletes, Arm, Disarm
  <2>3. Flags'
    BY <1>0, <2>2, Zenon DEF Flags, stationVars
  <2>4. /\ ThreadTypeOK'
        /\ sosBeacon' \in 0..MaxBeacons /\ joining' \in 0..MaxBeacons
    <3>1. CASE UNCHANGED <<sosBeacon, threadVars, joining>>
      BY <1>0, <3>1 DEF ThreadTypeOK, OtherTypeOK, threadVars
    <3>2. CASE \E b \in Beacon : sosBeacon' = b /\ Start(b, "SOS") /\ UNCHANGED joining
      <4>1. PICK b \in Beacon : sosBeacon' = b /\ Start(b, "SOS") /\ UNCHANGED joining
        BY <3>2
      <4>2. ThreadTypeOK'
        BY <1>0, <4>1, StartTyped DEF Kinds
      <4> QED BY <1>0, <4>1, <4>2 DEF OtherTypeOK, Beacon
    <3>3. CASE StopAndJoin(sosBeacon) /\ UNCHANGED sosBeacon
      <4>1. joining' = sosBeacon
        BY <3>3 DEF StopAndJoin
      <4> QED BY <1>0, <3>3, <4>1, StopTyped DEF OtherTypeOK
    <3> QED BY <1>6, <3>1, <3>2, <3>3 DEF HoldCompletes, Arm, Disarm
  <2> QED BY <1>0, <2>1, <2>2, <2>3, <2>4 DEF OtherTypeOK, hbVars
<1>7. CASE GpsFix
  <2>1. located' \in BOOLEAN /\ UNCHANGED <<queueUp, call, grid, armed>>
    BY <1>7 DEF GpsFix, sosVars
  <2>2. Flags'
    BY <1>0, <2>1, Zenon DEF Flags
  <2> QED BY <1>0, <1>7, <2>2 DEF GpsFix, ThreadTypeOK, OtherTypeOK, hbVars, sosVars,
                       threadVars, consoleVars, focusVars
<1>8. CASE Join
  <2>1. UNCHANGED <<stationVars, armed, hbMode, reverts, sosRow, daemon, hbFocus>>
    BY <1>8 DEF Join, HeartbeatJoined, SosJoined, sosVars, hbVars, consoleVars, focusVars
  <2>2. Flags'
    BY <1>0, <2>1, Zenon DEF Flags, stationVars
  <2>3. CASE HeartbeatJoined
    <3>1. StartHeartbeat(hbMode) /\ UNCHANGED sosBeacon
      BY <2>3 DEF HeartbeatJoined, sosVars
    <3>2. hbMode \in HbModes
      BY <1>0 DEF OtherTypeOK
    <3>3. ThreadTypeOK' /\ hbBeacon' \in 0..MaxBeacons /\ joining' \in 0..MaxBeacons
      BY <1>0, <3>1, <3>2, StartHeartbeatTyped
    <3> QED BY <1>0, <2>1, <2>2, <3>1, <3>3 DEF OtherTypeOK
  <2>4. CASE SosJoined
    BY <1>0, <2>1, <2>2, <2>4 DEF SosJoined, OtherTypeOK, ThreadTypeOK, hbVars, threadVars, None
  <2> QED BY <1>8, <2>3, <2>4 DEF Join
<1>9. CASE Revert
  <2>1. UNCHANGED <<stationVars, sosVars, sosRow, daemon, hbFocus, hbBeacon>>
    BY <1>9 DEF Revert, RevertToOff, hbVars, consoleVars, focusVars
  <2>2. Flags'
    BY <1>0, <2>1, Zenon DEF Flags, stationVars, sosVars
  <2>3. hbMode' \in HbModes /\ reverts' \in 0..MaxReverts
    <3>1. hbMode' \in {hbMode, "OFF"}
      BY <1>9 DEF Revert, RevertToOff, hbVars
    <3>2. reverts > 0 /\ reverts' = reverts - 1
      BY <1>9 DEF Revert, RevertToOff
    <3>3. hbMode \in HbModes /\ reverts \in 0..MaxReverts
      BY <1>0 DEF OtherTypeOK
    <3>4. hbMode' \in HbModes
      BY <3>1, <3>3, Zenon DEF HbModes
    <3>5. reverts' \in 0..MaxReverts
      BY ONLY <3>2, <3>3, BeaconAssumption DEF BeaconAssumption
    <3> QED BY <3>4, <3>5
  <2>4. ThreadTypeOK' /\ joining' \in 0..MaxBeacons
    <3>1. CASE UNCHANGED <<threadVars, joining>>
      BY <1>0, <3>1 DEF ThreadTypeOK, OtherTypeOK, threadVars
    <3>2. CASE StopAndJoin(hbBeacon)
      <4>1. joining' = hbBeacon
        BY <3>2 DEF StopAndJoin
      <4> QED BY <1>0, <3>2, <4>1, StopTyped DEF OtherTypeOK
    <3> QED BY <1>9, <3>1, <3>2 DEF Revert, RevertToOff
  <2> QED BY <1>0, <2>1, <2>2, <2>3, <2>4 DEF OtherTypeOK, sosVars
<1>10. CASE Cleanup
  <2>1. UNCHANGED <<stationVars, hbVars, sosVars, reverts, sosRow, hbFocus>>
        /\ daemon' \in {"down", "closing"}
    BY <1>10 DEF Cleanup, focusVars
  <2>2. Flags'
    BY <1>0, <2>1, Zenon DEF Flags, stationVars, sosVars
  <2>3. ThreadTypeOK' /\ joining' \in 0..MaxBeacons
    <3>1. CASE UNCHANGED <<threadVars, joining>>
      BY <1>0, <3>1 DEF ThreadTypeOK, OtherTypeOK, threadVars
    <3>2. CASE StopAndJoin(hbBeacon)
      <4>1. joining' = hbBeacon
        BY <3>2 DEF StopAndJoin
      <4> QED BY <1>0, <3>2, <4>1, StopTyped DEF OtherTypeOK
    <3> QED BY <1>10, <3>1, <3>2 DEF Cleanup
  <2> QED BY <1>0, <2>1, <2>2, <2>3 DEF OtherTypeOK, hbVars, sosVars
<1>11. CASE CleanupJoined
  <2>1. Flags'
    BY <1>0, <1>11, Zenon DEF CleanupJoined, Flags, stationVars, sosVars
  <2> QED BY <1>0, <1>11, <2>1 DEF CleanupJoined, ThreadTypeOK, OtherTypeOK, threadVars,
                       sosVars, focusVars, None
<1>12. CASE \E b \in Beacon : BeaconRuns(b)
  <2>1. PICK b \in Beacon : BeaconStep(b)
    BY <1>12 DEF BeaconRuns
  <2>2. /\ UNCHANGED <<stationVars, hbVars, sosVars, joining, daemon, hbFocus>>
        /\ reverts' \in 0..MaxReverts
        /\ sosRow' \in {"none", "queued", "encoded", "failed"}
    <3>1. UNCHANGED <<daemon, hbFocus>>
      BY <1>12 DEF BeaconRuns, consoleVars, focusVars
    <3>2. /\ UNCHANGED <<stationVars, hbVars, sosVars, joining>>
          /\ reverts' \in 0..MaxReverts
          /\ sosRow' \in {"none", "queued", "encoded", "failed"}
      BY <1>0, <2>1 DEF BeaconStep, FireFirst, FireAgain, Fire, Complete, Wake, OtherTypeOK
    <3> QED BY <3>1, <3>2
  <2>3. PICK p \in Pcs : MoveTo(b, p)
    BY <2>1 DEF BeaconStep, FireFirst, FireAgain, Fire, Complete, Wake, Pcs
  <2>4. ThreadTypeOK'
    BY <1>0, <2>3, MoveTyped
  <2>5. Flags'
    BY <1>0, <2>2, Zenon DEF Flags, stationVars, sosVars
  <2> QED BY <1>0, <2>2, <2>4, <2>5 DEF OtherTypeOK, hbVars, sosVars
<1>13. CASE Encode
  <2>1. /\ UNCHANGED <<stationVars, hbVars, sosVars, threadVars, joining, reverts, daemon, hbFocus>>
        /\ sosRow' \in {"encoded", "failed"}
    BY <1>13 DEF Encode, EncodeSos, consoleVars, focusVars
  <2>2. Flags'
    BY <1>0, <2>1, Zenon DEF Flags, stationVars, sosVars
  <2> QED BY <1>0, <2>1, <2>2 DEF ThreadTypeOK, OtherTypeOK, hbVars, sosVars, threadVars
<1> QED BY <1>1, <1>2, <1>3, <1>4, <1>5, <1>6, <1>7, <1>8, <1>9, <1>10, <1>11, <1>12, <1>13,
           OthersLeaveBeacons DEF Next

-----------------------------------------------------------------------------
(***************************************************************************)
(* The beacons' invariant is inductive.                                    *)
(***************************************************************************)

LEMMA InitBeaconInv == Init => BeaconInv
<1> SUFFICES ASSUME Init PROVE BeaconInv
  OBVIOUS
<1>1. /\ \A b \in Beacon : pc[b] = "dead" /\ kind[b] = "none" /\ ~stopped[b]
      /\ hbBeacon = None /\ sosBeacon = None /\ joining = None /\ ~armed /\ hbMode = "OFF"
      /\ daemon = "up"
  BY DEF Init, InitBeacons
<1> QED BY <1>1 DEF BeaconInv, ThreadsInv, HeartbeatInv, SosInv, HbGoes, Alive

LEMMA StepBeaconInv == ConsoleCoreTypeOK /\ BeaconInv /\ [Next]_vars => BeaconInv'
<1> SUFFICES ASSUME ConsoleCoreTypeOK, BeaconInv, [Next]_vars PROVE BeaconInv'
  OBVIOUS
<1>1. CASE UNCHANGED <<queueUp, hbVars, sosVars, threadVars, joining, reverts, daemon>>
  BY <1>1 DEF BeaconInv, ThreadsInv, HeartbeatInv, SosInv, HbGoes, Alive, hbVars, sosVars,
              threadVars
<1>2. CASE CommitEdit \/ GpsFix \/ OpenHbSelect \/ HbSelectMove \/ Encode
  <2>1. UNCHANGED <<queueUp, hbVars, sosVars, threadVars, joining, reverts, daemon>>
    BY <1>2 DEF CommitEdit, GpsFix, OpenHbSelect, HbSelectMove, Encode, EncodeSos,
                beaconVars, stationVars, consoleVars
  <2> QED BY <1>1, <2>1
<1>3. CASE CycleRadio \/ StopRequested
  <2>1. /\ UNCHANGED <<queueUp, hbVars, sosVars, threadVars, joining, reverts>>
        /\ daemon \in {"up", "stopping"} /\ daemon' = "stopping"
    BY <1>3, KeyIsReady DEF CycleRadio, StopRequested, beaconVars, stationVars
  <2> QED BY <2>1 DEF BeaconInv, ThreadsInv, HeartbeatInv, SosInv, HbGoes, Alive, hbVars,
              sosVars, threadVars
<1>4. CASE HbCommit
  <2>1. PICK m \in HbModes : SetHbMode(m)
    BY <1>4, SelectedMode DEF HbCommit
  <2>2. LoopFree /\ daemon \in {"up", "stopping"} /\ UNCHANGED daemon
    BY <1>4, CommitIsReady
  <2>3. CASE m = hbMode
    BY <1>1, <2>1, <2>2, <2>3 DEF SetHbMode, beaconVars, stationVars
  <2>4. CASE m # hbMode /\ hbBeacon # None
    <3>1. StopAndJoin(hbBeacon) /\ UNCHANGED <<hbBeacon, queueUp, armed, sosBeacon>>
      BY <2>1, <2>4 DEF SetHbMode, stationVars, sosVars
    <3> QED BY <2>2, <2>4, <3>1, StopHeartbeatKeeps
  <2>5. CASE m # hbMode /\ hbBeacon = None
    <3>1. /\ StartHeartbeat(m) /\ hbMode' = m
          /\ UNCHANGED <<queueUp, armed, sosBeacon, reverts>>
      BY <2>1, <2>5 DEF SetHbMode, stationVars, sosVars
    <3> QED BY <2>2, <2>5, <3>1, StartHeartbeatKeeps
  <2> QED BY <2>3, <2>4, <2>5
<1>5. CASE HoldCompletes
  <2>1. LoopFree /\ daemon \in {"up", "stopping"} /\ UNCHANGED daemon
    BY <1>5 DEF HoldCompletes, Ready
  <2> QED BY <1>5, <2>1, ArmKeeps, DisarmKeeps DEF HoldCompletes
<1>6. CASE Join
  <2>1. UNCHANGED daemon
    BY <1>6 DEF Join, consoleVars
  <2>2. CASE SosJoined
    BY <2>1, <2>2, SosJoinedKeeps
  <2>3. CASE daemon # "closing" /\ HeartbeatJoined
    <3>1. /\ HbGoes /\ StartHeartbeat(hbMode) /\ hbMode' = hbMode
          /\ UNCHANGED <<queueUp, armed, sosBeacon, reverts>>
      BY <2>3 DEF HeartbeatJoined, HbGoes, stationVars, sosVars
    <3>2. daemon # "down"
      BY <3>1 DEF BeaconInv, HeartbeatInv, HbGoes
    <3>3. daemon \in {"up", "stopping"}
      BY <2>3, <3>2 DEF ConsoleCoreTypeOK
    <3>4. hbMode \in HbModes
      BY BeaconTyped
    <3> QED BY <2>1, <3>1, <3>3, <3>4, StartHeartbeatKeeps
  <2> QED BY <1>6, <2>2, <2>3 DEF Join
<1>7. CASE Revert
  <2>1. daemon \in {"up", "stopping"} /\ UNCHANGED daemon /\ RevertToOff
    BY <1>7 DEF Revert, Ready, consoleVars
  <2> QED BY <2>1, RevertKeeps
<1>8. CASE Cleanup
  <2>1. /\ LoopFree /\ daemon = "stopping"
        /\ UNCHANGED <<queueUp, hbMode, hbBeacon, armed, sosBeacon, reverts>>
    BY <1>8 DEF Cleanup, stationVars, hbVars, sosVars
  <2>2. CASE hbBeacon # None
    <3>1. StopAndJoin(hbBeacon) /\ daemon' = "closing"
      BY <1>8, <2>2 DEF Cleanup
    <3> QED BY <2>1, <2>2, <3>1, StopHeartbeatKeeps
  <2>3. CASE hbBeacon = None
    <3>1. daemon' = "down" /\ UNCHANGED <<pc, kind, stopped, joining>>
      BY <1>8, <2>3 DEF Cleanup, threadVars
    <3> QED BY <2>1, <2>3, <3>1 DEF BeaconInv, ThreadsInv, HeartbeatInv, SosInv, HbGoes,
                 Alive, LoopFree
  <2> QED BY <2>2, <2>3
<1>9. CASE CleanupJoined
  <2>1. /\ daemon = "closing" /\ daemon' = "down" /\ hbBeacon' = None /\ joining' = None
        /\ UNCHANGED <<queueUp, hbMode, armed, sosBeacon, pc, kind, stopped, reverts>>
    BY <1>9 DEF CleanupJoined, stationVars, sosVars, threadVars
  <2>2. HbGoes
    BY <2>1 DEF BeaconInv, HeartbeatInv
  <2>3. ThreadsInv'
    BY <2>1, <2>2 DEF BeaconInv, ThreadsInv
  <2>4. HeartbeatInv'
    BY <2>1, <2>2 DEF BeaconInv, HeartbeatInv, HbGoes, Alive
  <2>5. SosInv'
    BY <2>1, <2>2 DEF BeaconInv, ThreadsInv, SosInv, HbGoes, Alive
  <2> QED BY <2>3, <2>4, <2>5 DEF BeaconInv
<1>10. CASE \E b \in Beacon : BeaconRuns(b)
  <2>1. PICK b \in Beacon : BeaconStep(b) /\ UNCHANGED daemon
    BY <1>10 DEF BeaconRuns, consoleVars
  <2> QED BY <2>1, BeaconStepKeeps
<1>11. CASE UNCHANGED <<beaconVars, daemon, hbFocus>>
  BY <1>1, <1>11 DEF beaconVars, stationVars
<1> QED BY <1>2, <1>3, <1>4, <1>5, <1>6, <1>7, <1>8, <1>9, <1>10, <1>11, OthersLeaveBeacons
        DEF Next

LEMMA BeaconsInvariant == Spec => [](ConsoleCoreTypeOK /\ BeaconInv)
<1>1. Init => ConsoleCoreTypeOK /\ BeaconInv
  BY InitCoreTyped, InitBeaconInv
<1>2. ConsoleCoreTypeOK /\ BeaconInv /\ [Next]_vars => (ConsoleCoreTypeOK /\ BeaconInv)'
  BY StepCoreTyped, StepBeaconInv
<1> QED BY <1>1, <1>2, PTL DEF Spec

\* The state of the beacons keeps its type, for any number of threads.
THEOREM BeaconsTyped == Spec => []BeaconTypeOK
<1>1. ConsoleCoreTypeOK => BeaconTypeOK
  BY DEF ConsoleCoreTypeOK
<1> QED BY <1>1, BeaconsInvariant, PTL

\* One heartbeat, in the mode on the display, for any number of old threads
\* whose join timed out (app.py:1586-1677).
THEOREM HeartbeatFollowsMode == Spec => []HeartbeatMatchesMode
<1>1. ConsoleCoreTypeOK /\ BeaconInv => HeartbeatMatchesMode
  BY BeaconTyped DEF BeaconInv, HeartbeatInv, HbGoes, HeartbeatMatchesMode, LoopFree, Alive
<1> QED BY <1>1, BeaconsInvariant, PTL

\* The SOS beacon runs, not told to stop, exactly as the display says
\* (app.py:1681-1732).
THEOREM SosFollowsArmed == Spec => []SosMatchesArmed
<1>1. BeaconInv => SosMatchesArmed
  BY DEF BeaconInv, SosInv, SosMatchesArmed
<1> QED BY <1>1, BeaconsInvariant, PTL
-----------------------------------------------------------------------------
(***************************************************************************)
(* The inbox.                                                              *)
(***************************************************************************)

InboxInv ==
    /\ ListInv
    /\ detail \in MailIds \cup {NoMail}
    /\ dbFailed \in BOOLEAN

LEMMA InitInboxInv == Init => InboxInv
<1> SUFFICES ASSUME Init PROVE InboxInv
  OBVIOUS
<1>1. ListInv
  BY InitListInv DEF Init
<1> QED BY <1>1 DEF Init, InitInbox, InboxInv

LEMMA OthersLeaveMail ==
    ASSUME Next
    PROVE  \/ InboxMove \/ InboxOpen \/ InboxDelete \/ DetailEsc \/ DetailDelete
           \/ SendStore \/ MailArrives
           \/ UNCHANGED mailVars
<1>1. CASE BeginEdit \/ CancelEdit \/ CommitEdit \/ Hotkey \/ RingKey \/ SetupTab
           \/ EmergencyBypass \/ CycleRadio \/ ComposeKey \/ SendMessage
           \/ AllcallMove \/ OpenHbSelect \/ HbSelectMove \/ HbCommit \/ HbCancel
  BY <1>1 DEF BeginEdit, CancelEdit, CommitEdit, Hotkey, RingKey, SetupTab,
              EmergencyBypass, CycleRadio, ComposeKey, SendMessage, AllcallMove,
              OpenHbSelect, HbSelectMove, HbCommit, HbCancel
<1>2. CASE EmergencyKey \/ HoldCompletes \/ CtrlX \/ ShutdownEsc \/ ShutdownCompletes
           \/ PoweroffEnds \/ Press \/ ReleaseTop \/ ReleaseBottom
  BY <1>2 DEF EmergencyKey, HoldCompletes, CtrlX, ShutdownEsc, ShutdownCompletes,
              PoweroffEnds, Press, ReleaseTop, ReleaseBottom
<1>3. CASE StationHeard \/ GpsFix \/ Join \/ Revert \/ StopRequested \/ Cleanup
           \/ CleanupJoined \/ (\E b \in Beacon : BeaconRuns(b)) \/ Encode
  BY <1>3 DEF StationHeard, GpsFix, Join, Revert, StopRequested, Cleanup, CleanupJoined,
              BeaconRuns, Encode
<1> QED BY <1>1, <1>2, <1>3 DEF Next

LEMMA DeleteLeavesFlag ==
    ASSUME dbFailed \in BOOLEAN, NEW mayFail, DeleteFocused(mayFail)
    PROVE  dbFailed' \in BOOLEAN
BY DEF DeleteFocused

LEMMA RefreshLeavesFlag ==
    ASSUME dbFailed \in BOOLEAN, NEW box, NEW mayFail, Refresh(box, mayFail)
    PROVE  dbFailed' \in BOOLEAN
BY DEF Refresh

LEMMA StepInboxInv == InboxInv /\ [Next]_vars => InboxInv'
<1> SUFFICES ASSUME InboxInv, [Next]_vars PROVE InboxInv'
  OBVIOUS
<1>0. ListInv /\ detail \in MailIds \cup {NoMail} /\ dbFailed \in BOOLEAN
  BY DEF InboxInv
<1>1. CASE UNCHANGED mailVars
  <2>1. dbFailed' \in BOOLEAN
    BY <1>0, <1>1, Zenon DEF mailVars
  <2> QED BY <1>0, <1>1, <2>1 DEF InboxInv, mailVars, ListInv, ListTypeOK, OnceEach,
                 ListAgreesWithMailbox, Shown, BadgeCoversUnread
<1>2. CASE InboxMove
  <2>1. (FocusUp \/ FocusDown) /\ UNCHANGED <<detail, dbFailed>>
    BY <1>2 DEF InboxMove, FocusUp, FocusDown
  <2>2. ListInv'
    BY <1>0, <2>1, FocusMovesKeep
  <2> QED BY <1>0, <2>1, <2>2, Zenon DEF InboxInv
<1>3. CASE InboxOpen
  <2>1. OpenFocused(DbMayFail)
    BY <1>3 DEF InboxOpen
  <2>2. ListInv'
    BY <1>0, <2>1, OpenKeeps
  <2>3. detail' \in MailIds
    BY <1>0, <2>1, FocusIsARow DEF OpenFocused
  <2>4. dbFailed' \in BOOLEAN
    BY <1>0, <2>1 DEF OpenFocused
  <2> QED BY <2>2, <2>3, <2>4 DEF InboxInv
<1>4. CASE InboxDelete
  <2>1. DeleteFocused(DbMayFail) /\ UNCHANGED detail
    BY <1>4 DEF InboxDelete
  <2> QED BY <1>0, <2>1, DeleteKeeps, DeleteLeavesFlag DEF InboxInv
<1>5. CASE DetailEsc
  <2>1. detail' = NoMail /\ UNCHANGED <<mailbox, rows, fetched, focusRow, unread, dbFailed>>
    BY <1>5 DEF DetailEsc, CloseDetail
  <2>2. dbFailed' \in BOOLEAN
    BY <1>0, <2>1, Zenon
  <2> QED BY <1>0, <2>1, <2>2 DEF InboxInv, ListInv, ListTypeOK, OnceEach,
                 ListAgreesWithMailbox, Shown, BadgeCoversUnread
<1>6. CASE DetailDelete
  <2>1. detail' = NoMail
    BY <1>6 DEF DetailDelete, CloseDetail
  <2>2. CASE HasFocus
    <3>1. DeleteFocused(DbMayFail)
      BY <1>6, <2>2 DEF DetailDelete
    <3> QED BY <1>0, <2>1, <3>1, DeleteKeeps, DeleteLeavesFlag DEF InboxInv
  <2>3. CASE ~HasFocus
    <3>1. UNCHANGED <<mailbox, rows, fetched, focusRow, unread, dbFailed>>
      BY <1>6, <2>3 DEF DetailDelete
    <3>2. dbFailed' \in BOOLEAN
      BY <1>0, <3>1, Zenon
    <3> QED BY <1>0, <2>1, <3>1, <3>2 DEF InboxInv, ListInv, ListTypeOK, OnceEach,
                 ListAgreesWithMailbox, Shown, BadgeCoversUnread
  <2> QED BY <2>2, <2>3
<1>7. CASE SendStore
  <2>1. InsertRow("STORE", DbMayFail) /\ "STORE" \in MailTypes
    BY <1>7 DEF SendStore, MailTypes
  <2>2. UNCHANGED detail /\ \E box : Refresh(box, DbMayFail)
    BY <2>1 DEF InsertRow
  <2> QED BY <1>0, <2>1, <2>2, InsertKeeps, RefreshLeavesFlag DEF InboxInv
<1>8. CASE MailArrives
  <2>1. ListInv'
    BY <1>0, <1>8, InsertKeeps, HeldMailGoesKeeps DEF MailArrives, MailTypes
  <2>2. UNCHANGED detail /\ \E box : Refresh(box, DbMayFail)
    BY <1>8 DEF MailArrives, InsertRow, HeldMailGoes
  <2> QED BY <1>0, <2>1, <2>2, RefreshLeavesFlag DEF InboxInv
<1>9. CASE UNCHANGED vars
  BY <1>1, <1>9 DEF vars
<1> QED BY <1>1, <1>2, <1>3, <1>4, <1>5, <1>6, <1>7, <1>8, <1>9, OthersLeaveMail

LEMMA InboxInvariant == Spec => []InboxInv
BY InitInboxInv, StepInboxInv, PTL DEF Spec

\* The list and the table behind it keep their types, for any number of rows.
THEOREM InboxTyped == Spec => []InboxTypeOK
<1>1. InboxInv => InboxTypeOK
  BY Zenon DEF InboxInv, ListInv, ListTypeOK, Boxes, RowTypes, Row, InboxTypeOK
<1> QED BY <1>1, InboxInvariant, PTL

\* While no statement failed, the list shows rows of the table as what they are,
\* newest first and without a gap, and rows are missing below it only if there
\* were Limit of them when the table was last read: for every limit, any number of
\* rows and any order of arrivals, openings, deletions and deliveries
\* (router.py:574-640, app.py:2492-2522).
THEOREM ListShowsMailbox == Spec => []ListAgreesWithMailbox
<1>1. InboxInv => ListAgreesWithMailbox
  BY DEF InboxInv, ListInv
<1> QED BY <1>1, InboxInvariant, PTL

\* The badge counts no fewer than the list shows as unread, also after
\* statements that failed (state.py:1268-1340).
THEOREM BadgeCovers == Spec => []BadgeCoversUnread
<1>1. InboxInv => BadgeCoversUnread
  BY DEF InboxInv, ListInv
<1> QED BY <1>1, InboxInvariant, PTL

-----------------------------------------------------------------------------
(***************************************************************************)
(* The HEARD list and the draft.                                           *)
(***************************************************************************)

\* Leaving one element out of a sequence moves the ones behind it up.
LEMMA RemoveAtEffect ==
    ASSUME NEW S, NEW s \in Seq(S), NEW i \in 1..Len(s)
    PROVE  /\ RemoveAt(s, i) \in Seq(S)
           /\ Len(RemoveAt(s, i)) = Len(s) - 1
           /\ \A j \in 1..(Len(s) - 1) :
                 RemoveAt(s, i)[j] = IF j < i THEN s[j] ELSE s[j + 1]
<1> DEFINE a == SubSeq(s, 1, i - 1)
           b == SubSeq(s, i + 1, Len(s))
<1>1. Len(s) \in Nat /\ \A j \in 1..Len(s) : s[j] \in S
  BY LenProperties, ElementOfSeq
<1>2. /\ a \in Seq(S)
      /\ Len(a) = i - 1
      /\ \A j \in 1..(i - 1) : a[j] = s[j]
  <2>1. \A j \in 1..(i - 1) : s[j] \in S
    BY <1>1
  <2>2. /\ a \in Seq(S)
        /\ Len(a) = IF 1 <= i - 1 THEN i - 1 - 1 + 1 ELSE 0
        /\ \A j \in 1..(i - 1 - 1 + 1) : a[j] = s[1 + j - 1]
    BY <1>1, <2>1, SubSeqProperties
  <2> HIDE DEF a
  <2> QED BY <1>1, <2>2
<1>3. /\ b \in Seq(S)
      /\ Len(b) = Len(s) - i
      /\ \A j \in 1..(Len(s) - i) : b[j] = s[i + j]
  <2>1. \A j \in (i + 1)..Len(s) : s[j] \in S
    BY <1>1
  <2>2. /\ b \in Seq(S)
        /\ Len(b) = IF i + 1 <= Len(s) THEN Len(s) - (i + 1) + 1 ELSE 0
        /\ \A j \in 1..(Len(s) - (i + 1) + 1) : b[j] = s[i + 1 + j - 1]
    BY <1>1, <2>1, SubSeqProperties
  <2> HIDE DEF b
  <2> QED BY <1>1, <2>2
<1> HIDE DEF a, b
<1>4. /\ a \o b \in Seq(S)
      /\ Len(a \o b) = Len(a) + Len(b)
      /\ \A j \in 1..(Len(a) + Len(b)) : (a \o b)[j] = IF j <= Len(a) THEN a[j] ELSE b[j - Len(a)]
  BY <1>2, <1>3, ConcatProperties
<1>5. Len(a) + Len(b) = Len(s) - 1
  BY <1>1, <1>2, <1>3
<1>6. ASSUME NEW j \in 1..(Len(s) - 1)
      PROVE  (a \o b)[j] = IF j < i THEN s[j] ELSE s[j + 1]
  <2>1. (a \o b)[j] = IF j <= i - 1 THEN a[j] ELSE b[j - (i - 1)]
    BY <1>2, <1>4, <1>5
  <2>2. CASE j < i
    BY <1>2, <2>1, <2>2
  <2>3. CASE ~(j < i)
    <3>1. j - (i - 1) \in 1..(Len(s) - i) /\ i + (j - (i - 1)) = j + 1
      BY <1>1, <2>3
    <3> QED BY <1>3, <2>1, <2>3, <3>1
  <2> QED BY <2>2, <2>3
<1>7. RemoveAt(s, i) = a \o b
  BY DEF RemoveAt, a, b
<1> QED BY <1>4, <1>5, <1>6, <1>7

\* Without c, the list keeps its other stations, each once.
LEMMA WithoutEffect ==
    ASSUME NEW S, NEW h \in Seq(S), IsInjective(h), NEW c
    PROVE  /\ Without(h, c) \in Seq(S \ {c})
           /\ IsInjective(Without(h, c))
<1>1. /\ DOMAIN h = 1..Len(h) /\ Len(h) \in Nat
      /\ \A i \in 1..Len(h) : h[i] \in S
      /\ \A i, j \in 1..Len(h) : h[i] = h[j] => i = j
  BY LenProperties, ElementOfSeq DEF IsInjective
<1>2. CASE \E i \in 1..Len(h) : h[i] = c
  <2>1. PICK i \in 1..Len(h) : h[i] = c /\ Without(h, c) = RemoveAt(h, i)
    BY <1>1, <1>2 DEF Without
  <2> DEFINE w == RemoveAt(h, i)
  <2>2. /\ w \in Seq(S)
        /\ Len(w) = Len(h) - 1
        /\ \A j \in 1..(Len(h) - 1) : w[j] = IF j < i THEN h[j] ELSE h[j + 1]
    BY RemoveAtEffect
  <2> HIDE DEF w
  <2>3. DOMAIN w = 1..(Len(h) - 1)
    BY <2>2, LenProperties
  <2>4. \A j \in 1..(Len(h) - 1) : w[j] \in S \ {c}
    BY <1>1, <2>1, <2>2
  <2>5. w \in Seq(S \ {c})
    BY <1>1, <2>2, <2>3, <2>4, SeqOfRange, SeqMonotonic, RangeEquality
  <2>6. \A j, k \in 1..(Len(h) - 1) : w[j] = w[k] => j = k
    BY <1>1, <2>2
  <2> QED BY <2>1, <2>3, <2>5, <2>6 DEF IsInjective, w
<1>3. CASE \A i \in 1..Len(h) : h[i] # c
  <2>1. Without(h, c) = h
    BY <1>1, <1>3 DEF Without
  <2>2. \A i \in 1..Len(h) : h[i] \in S \ {c}
    BY <1>1, <1>3
  <2>3. h \in Seq(S \ {c})
    BY <2>2, SeqOfRange, SeqMonotonic, RangeEquality
  <2> QED BY <2>1, <2>3
<1> QED BY <1>2, <1>3

Stations == Peers \cup {Me}
HeardTypeOK == heard \in Seq(Stations) /\ IsInjective(heard)

\* A station that is heard comes to the front, and is there once.
LEMMA HeardAfterTyped ==
    ASSUME HeardTypeOK, NEW c \in Stations
    PROVE  HeardAfter(heard, c) \in Seq(Stations) /\ IsInjective(HeardAfter(heard, c))
<1> DEFINE w == Without(heard, c)
           h == <<c>> \o w
<1>1. w \in Seq(Stations \ {c}) /\ IsInjective(w)
  BY WithoutEffect DEF HeardTypeOK
<1> HIDE DEF w
<1>2. /\ w \in Seq(Stations) /\ Len(w) \in Nat /\ DOMAIN w = 1..Len(w)
      /\ \A i \in 1..Len(w) : w[i] \in Stations \ {c}
  BY <1>1, SeqMonotonic, LenProperties, ElementOfSeq
<1>3. <<c>> \in Seq(Stations) /\ Len(<<c>>) = 1 /\ <<c>>[1] = c
  OBVIOUS
<1>4. /\ h \in Seq(Stations)
      /\ Len(h) = 1 + Len(w)
      /\ \A i \in 1..(1 + Len(w)) : h[i] = IF i <= 1 THEN <<c>>[i] ELSE w[i - 1]
  BY <1>2, <1>3, ConcatProperties
<1> HIDE DEF h
<1>5. DOMAIN h = 1..(1 + Len(w))
  BY <1>4, LenProperties
<1>6. h[1] = c /\ \A i \in 2..(1 + Len(w)) : i - 1 \in 1..Len(w) /\ h[i] = w[i - 1]
  BY <1>2, <1>3, <1>4
<1>7. \A i, j \in 1..(1 + Len(w)) : h[i] = h[j] => i = j
  <2>1. SUFFICES ASSUME NEW i \in 1..(1 + Len(w)), NEW j \in 1..(1 + Len(w)), h[i] = h[j]
                 PROVE  i = j
    OBVIOUS
  <2>2. CASE i = 1 \/ j = 1
    BY <1>2, <1>6, <2>1, <2>2
  <2>3. CASE i # 1 /\ j # 1
    BY <1>1, <1>2, <1>6, <2>1, <2>3 DEF IsInjective
  <2> QED BY <2>2, <2>3
<1>8. IsInjective(h)
  BY <1>5, <1>7 DEF IsInjective
<1> QED BY <1>4, <1>8 DEF HeardAfter, h, w

\* The COMPOSE picks never offer our own call sign from the HEARD list.
LEMMA OthersAreOthers ==
    ASSUME HeardTypeOK
    PROVE  HeardOthers(heard) \in Seq(Peers) /\ HeardOthers(heard) \in Seq(Calls)
<1>1. HeardOthers(heard) \in Seq(Stations \ {Me})
  BY WithoutEffect DEF HeardTypeOK, HeardOthers
<1>2. Stations \ {Me} \subseteq Peers /\ Peers \subseteq Calls
  BY DEF Stations, Calls
<1> QED BY <1>1, <1>2, SeqMonotonic

LEMMA PicksAreCalls ==
    ASSUME HeardTypeOK
    PROVE  ToPicks(heard) \in Seq(Calls)
<1>1. GroupPicks \in Seq(Groups)
  <2>1. GroupPicks \in Seq(STRING)
    BY ComposeAssumption DEF ComposeAssumption
  <2>2. GroupPicks \in Seq(Range(GroupPicks)) /\ DOMAIN GroupPicks = 1..Len(GroupPicks)
    BY <2>1, SeqOfRange, LenProperties
  <2>3. Range(GroupPicks) = Groups
    BY <2>1, <2>2, RangeEquality DEF Groups
  <2> QED BY <2>2, <2>3
<1>2. GroupPicks \in Seq(Calls)
  BY <1>1, SeqMonotonic DEF Calls
<1> QED BY <1>2, OthersAreOthers, ConcatProperties DEF ToPicks

LEMMA CommandList ==
    /\ DOMAIN CmdOrder = 1..10 /\ Len(CmdOrder) = 10
    /\ \A i \in 1..10 : CmdOrder[i] \in {CmdOrder[j] : j \in DOMAIN CmdOrder}
<1>1. DOMAIN CmdOrder = 1..10 /\ Len(CmdOrder) = 10
  BY DEF CmdOrder
<1> QED BY <1>1

LEMMA EmptyFormTyped == EmptyForm \in Forms
<1>1. "FREE" \in {CmdOrder[i] : i \in DOMAIN CmdOrder}
  <2>1. CmdOrder[1] = "FREE"
    BY DEF CmdOrder
  <2> QED BY <2>1, CommandList
<1> QED BY <1>1 DEF EmptyForm, Forms

LEMMA CycleLength ==
    ASSUME NEW cmd
    PROVE  Len(FocusCycle(cmd)) = IF cmd = "MSG TO" THEN 5 ELSE 4
BY DEF FocusCycle

\* A pick is a position of the list, also when the list has changed since.
LEMMA PickInList ==
    ASSUME NEW n \in Nat \ {0}, NEW pick \in Nat, NEW forward \in BOOLEAN
    PROVE  NextPick(pick, n, forward) \in 1..n
<1>1. CASE pick = 0
  BY <1>1 DEF NextPick
<1>2. CASE pick # 0 /\ forward
  <2>1. pick % n \in 0..(n - 1)
    OBVIOUS
  <2>2. NextPick(pick, n, forward) = (pick % n) + 1
    BY <1>2 DEF NextPick
  <2> HIDE DEF NextPick
  <2> QED BY <2>1, <2>2
<1>3. CASE pick # 0 /\ ~forward
  <2>1. (pick + n - 2) % n \in 0..(n - 1)
    OBVIOUS
  <2>2. NextPick(pick, n, forward) = ((pick + n - 2) % n) + 1
    BY <1>3 DEF NextPick
  <2> QED BY <2>1, <2>2
<1> QED BY <1>1, <1>2, <1>3

\* What the mutators change, field by field, stays in the form's type.
LEMMA FieldsTyped ==
    ASSUME NEW f \in Forms
    PROVE  /\ \A c \in Calls \cup {""}, p \in Nat :
                 /\ [f EXCEPT !.toPick = p, !.to = c] \in Forms
                 /\ [f EXCEPT !.to = c, !.toPick = p] \in Forms
                 /\ [f EXCEPT !.forPick = p, !.for = c] \in Forms
                 /\ [f EXCEPT !.for = c, !.forPick = p] \in Forms
           /\ \A some \in BOOLEAN : [f EXCEPT !.text = some] \in Forms
           /\ \A n \in 0..4 : [f EXCEPT !.focus = n] \in Forms
           /\ \A i \in DOMAIN CmdOrder, n \in 0..4 :
                 [f EXCEPT !.cmd = CmdOrder[i], !.focus = n] \in Forms
BY DEF Forms

LEMMA TabTyped == ASSUME NEW f \in Forms PROVE TabForm(f) \in Forms
<1>1. f.focus \in 0..4
  BY DEF Forms
<1>2. (f.focus + 1) % 5 \in 0..4 /\ (f.focus + 1) % 4 \in 0..4
  BY <1>1
<1>3. (f.focus + 1) % Len(FocusCycle(f.cmd)) \in 0..4
  BY <1>2, CycleLength
<1> QED BY <1>3, FieldsTyped DEF TabForm

LEMMA CyclesTyped ==
    ASSUME NEW f \in Forms, HeardTypeOK, NEW forward \in BOOLEAN
    PROVE  /\ CycleTo(f, heard, forward) \in Forms
           /\ CycleFor(f, heard, forward) \in Forms
<1>1. f.toPick \in Nat /\ f.forPick \in Nat
  BY DEF Forms
<1>2. ASSUME NEW picks \in Seq(Calls), picks # <<>>, NEW pick \in Nat
      PROVE  /\ NextPick(pick, Len(picks), forward) \in Nat
             /\ picks[NextPick(pick, Len(picks), forward)] \in Calls \cup {""}
  <2>1. Len(picks) \in Nat \ {0}
    BY <1>2, EmptySeq
  <2>2. NextPick(pick, Len(picks), forward) \in 1..Len(picks)
    BY <2>1, PickInList
  <2>3. picks[NextPick(pick, Len(picks), forward)] \in Calls
    BY <2>2, ElementOfSeq
  <2>4. NextPick(pick, Len(picks), forward) \in Nat
    BY <2>1, <2>2
  <2> QED BY <2>3, <2>4
<1>3. CycleTo(f, heard, forward) \in Forms
  <2>1. CASE ToPicks(heard) = <<>>
    BY <2>1 DEF CycleTo
  <2>2. CASE ToPicks(heard) # <<>>
    BY <1>1, <1>2, <2>2, PicksAreCalls, FieldsTyped DEF CycleTo
  <2> QED BY <2>1, <2>2
<1>4. CycleFor(f, heard, forward) \in Forms
  <2>1. CASE HeardOthers(heard) = <<>>
    BY <2>1 DEF CycleFor
  <2>2. CASE HeardOthers(heard) # <<>>
    BY <1>1, <1>2, <2>2, OthersAreOthers, FieldsTyped DEF CycleFor
  <2> QED BY <2>1, <2>2
<1> QED BY <1>3, <1>4

LEMMA CycleCmdTyped ==
    ASSUME NEW f \in Forms, NEW forward \in BOOLEAN
    PROVE  CycleCmd(f, forward) \in Forms
<1> DEFINE i == CHOOSE j \in 1..Len(CmdOrder) : CmdOrder[j] = f.cmd
           next == NextPick(i, Len(CmdOrder), forward)
           parked == CmdOrder[next] # "MSG TO" /\ f.focus >= Len(FocusCycle(CmdOrder[next]))
           focus == IF parked THEN 1 ELSE f.focus
<1>1. f.cmd \in {CmdOrder[j] : j \in DOMAIN CmdOrder} /\ f.focus \in 0..4
  BY DEF Forms
<1>2. i \in 1..10
  BY <1>1, CommandList
<1> HIDE DEF i
<1>3. next \in DOMAIN CmdOrder
  <2>1. i \in Nat /\ Len(CmdOrder) \in Nat \ {0}
    BY <1>2, CommandList
  <2> QED BY <2>1, CommandList, PickInList
<1> HIDE DEF next, parked
<1>4. focus \in 0..4
  BY <1>1
<1>5. CycleCmd(f, forward) = [f EXCEPT !.cmd = CmdOrder[next], !.focus = focus]
  BY Zenon DEF CycleCmd, i, next, parked
<1> HIDE DEF focus
<1>6. \A j \in DOMAIN CmdOrder, n \in 0..4 :
         [f EXCEPT !.cmd = CmdOrder[j], !.focus = n] \in Forms
  BY FieldsTyped
<1>7. [f EXCEPT !.cmd = CmdOrder[next], !.focus = focus] \in Forms
  BY <1>3, <1>4, <1>6, Zenon
<1> QED BY <1>5, <1>7, Zenon

LEMMA PrepopulateTyped ==
    ASSUME NEW f \in Forms, HeardTypeOK
    PROVE  Prepopulate(f, heard) \in Forms
<1>1. CASE HeardOthers(heard) = <<>> \/ f.to # ""
  BY <1>1 DEF Prepopulate
<1>2. CASE ~(HeardOthers(heard) = <<>> \/ f.to # "")
  <2> DEFINE others == HeardOthers(heard)
  <2>1. others \in Seq(Calls) /\ others # <<>>
    BY <1>2, OthersAreOthers
  <2> HIDE DEF others
  <2>2. others[1] \in Calls
    <3>1. Len(others) \in Nat \ {0}
      BY <2>1, EmptySeq
    <3>2. 1 \in 1..Len(others)
      BY <3>1
    <3> QED BY <2>1, <3>2, ElementOfSeq
  <2> QED BY <1>2, <2>2, FieldsTyped DEF Prepopulate, others
<1> QED BY <1>1, <1>2

\* No key on COMPOSE takes the draft out of its type.
LEMMA FormsAfterTyped ==
    ASSUME NEW f \in Forms, HeardTypeOK, NEW k, NEW g \in FormsAfter(f, heard, k)
    PROVE  g \in Forms
<1>1. \A c \in Calls \cup {""} : SetTo(f, c) \in Forms /\ SetFor(f, c) \in Forms
  BY FieldsTyped DEF SetTo, SetFor
<1>2. \A some \in BOOLEAN : SetText(f, some) \in Forms
  BY FieldsTyped DEF SetText
<1>3. /\ CycleTo(f, heard, k = "DOWN") \in Forms
      /\ CycleFor(f, heard, k = "DOWN") \in Forms
      /\ CycleCmd(f, k = "DOWN") \in Forms
  BY CyclesTyped, CycleCmdTyped
<1>4. \/ g \in {f, CycleTo(f, heard, k = "DOWN"), CycleFor(f, heard, k = "DOWN"),
                CycleCmd(f, k = "DOWN")}
      \/ \E c \in Calls \cup {""} : g = SetTo(f, c) \/ g = SetFor(f, c)
      \/ \E some \in BOOLEAN : g = SetText(f, some)
  BY DEF FormsAfter
<1> QED BY <1>1, <1>2, <1>3, <1>4

-----------------------------------------------------------------------------
(***************************************************************************)
(* What the keys and buttons move: screens, focus, draft, gestures.        *)
(***************************************************************************)

ScreenTypeOK ==
    /\ screen \in Screens /\ previous \in Screens
    /\ editing \in EditFields \cup {NoField}
    /\ setupFocus \in 0..6 /\ allcallFocus \in 0..2

DraftTypeOK == form \in Forms /\ HeardTypeOK

GestureTypeOK ==
    /\ shutdown \in {"idle", "counting", "poweroff", "done"}
    /\ hold \in {"none", "arm", "disarm"}

ButtonTypeOK == {override, top, bottom, consumed} \subseteq BOOLEAN

TerminalTypeOK ==
    /\ scenario \in Scenarios
    /\ ScreenTypeOK /\ DraftTypeOK /\ GestureTypeOK /\ ButtonTypeOK

LEMMA ScreenNames ==
    /\ RingScreens \subseteq Screens
    /\ {"HOME", "INBOX", "COMPOSE", "DIRECTED", "ALLCALL", "EMERGENCY", "SETUP",
        "SHUTTING_DOWN", "INBOX_DETAIL", "HB_MODE_SELECT"} \subseteq Screens
<1>1. \A i \in 1..9 : Ring[i] \in RingScreens
  BY DEF Ring, RingScreens
<1>2. /\ Ring[1] = "HOME" /\ Ring[3] = "DIRECTED" /\ Ring[4] = "INBOX" /\ Ring[5] = "COMPOSE"
      /\ Ring[6] = "ALLCALL" /\ Ring[8] = "EMERGENCY" /\ Ring[9] = "SETUP"
  BY DEF Ring
<1>3. {"HOME", "INBOX", "COMPOSE", "DIRECTED", "ALLCALL", "EMERGENCY", "SETUP"}
         \subseteq RingScreens
  BY <1>1, <1>2
<1> QED BY <1>3 DEF Screens

LEMMA InitTerminalTyped == Init => TerminalTypeOK
<1> SUFFICES ASSUME Init PROVE TerminalTypeOK
  OBVIOUS
<1>1. ScreenTypeOK
  BY ScreenNames DEF Init, ScreenTypeOK, FirstScreen
<1>2. DraftTypeOK
  <2>1. EmptyForm \in Forms
    BY EmptyFormTyped
  <2>2. <<>> \in Seq(Stations) /\ IsInjective(<<>>)
    BY EmptySeq DEF IsInjective
  <2> QED BY <2>1, <2>2 DEF Init, DraftTypeOK, HeardTypeOK
<1>3. GestureTypeOK /\ ButtonTypeOK
  BY DEF Init, GestureTypeOK, ButtonTypeOK
<1> QED BY <1>1, <1>2, <1>3 DEF Init, TerminalTypeOK

\* No handler names a screen that does not exist, or leaves a focus behind
\* the end of its menu.
LEMMA StepScreenTyped == ScreenTypeOK /\ [Next]_vars => ScreenTypeOK'
<1> SUFFICES ASSUME ScreenTypeOK, [Next]_vars PROVE ScreenTypeOK'
  OBVIOUS
<1> DEFINE others == <<previous, editing, setupFocus, allcallFocus>>
<1>s. ASSUME screen' \in Screens, UNCHANGED others PROVE ScreenTypeOK'
  BY <1>s DEF ScreenTypeOK
<1>u. ASSUME UNCHANGED <<screen, others>> PROVE ScreenTypeOK'
  BY <1>u DEF ScreenTypeOK
<1>r. RestoredScreen \in Screens
  BY DEF ScreenTypeOK, RestoredScreen
<1>n. \A s : RingNext(s) \in Screens /\ RingPrev(s) \in Screens
  BY RingIsARing, ScreenNames
<1>1. CASE BeginEdit \/ CancelEdit \/ CommitEdit
  BY <1>1 DEF BeginEdit, CancelEdit, CommitEdit, ScreenTypeOK, screenVars, focusVars
<1>2. CASE Hotkey
  <2>1. screen' \in {"SETUP", "ALLCALL", "EMERGENCY"} /\ editing' = NoField
        /\ UNCHANGED <<previous, setupFocus, allcallFocus>>
    BY <1>2 DEF Hotkey, SetScreen, Enter, focusVars
  <2> QED BY <2>1, ScreenNames DEF ScreenTypeOK
<1>3. CASE RingKey
  <2>1. \/ screen' = RingNext(screen)
        \/ screen' = RingPrev(screen)
    BY <1>3 DEF RingKey, Enter
  <2> QED BY <1>3, <1>n, <1>s, <2>1 DEF RingKey, focusVars
<1>4. CASE SetupTab
  <2>1. setupFocus' = (setupFocus + 1) % 7
    BY <1>4 DEF SetupTab, SetupFields
  <2>2. setupFocus' \in 0..6
    BY <2>1 DEF ScreenTypeOK
  <2> QED BY <1>4, <2>2 DEF SetupTab, ScreenTypeOK, screenVars
<1>5. CASE AllcallMove
  <2>1. allcallFocus' \in {(allcallFocus + 2) % 3, (allcallFocus + 1) % 3}
    BY <1>5 DEF AllcallMove
  <2>2. allcallFocus' \in 0..2
    BY <2>1 DEF ScreenTypeOK
  <2> QED BY <1>5, <2>2 DEF AllcallMove, ScreenTypeOK, screenVars
<1>6. CASE EmergencyBypass \/ SendStore \/ SendMessage
  BY <1>6, <1>s, ScreenNames DEF EmergencyBypass, BypassOnce, SendStore, SendMessage, focusVars
<1>7. CASE OpenHbSelect \/ HbCommit \/ HbCancel
  BY <1>7, <1>s, ScreenNames DEF OpenHbSelect, HbCommit, HbCancel, focusVars
<1>8. CASE InboxOpen
  BY <1>8, ScreenNames DEF InboxOpen, ScreenTypeOK, focusVars
<1>9. CASE DetailEsc \/ DetailDelete
  BY <1>9 DEF DetailEsc, DetailDelete, CloseDetail, ScreenTypeOK, focusVars
<1>10. CASE CtrlX \/ Press
  BY <1>10, ScreenNames
     DEF CtrlX, Press, ArmShutdown, ShutdownScreen, ScreenTypeOK, focusVars
<1>11. CASE ShutdownEsc \/ PoweroffEnds
  BY <1>11, <1>r DEF ShutdownEsc, PoweroffEnds, ScreenTypeOK, focusVars
<1>12. CASE ReleaseTop \/ ReleaseBottom
  <2>1. screen' = RestoredScreen \/ \E s : screen' = RingNext(s) \/ screen' = RingPrev(s)
    BY <1>12 DEF ReleaseTop, ReleaseBottom, Enter
  <2>2. screen' \in Screens
    BY <1>r, <1>n, <2>1
  <2> QED BY <1>12, <1>s, <2>2 DEF ReleaseTop, ReleaseBottom, focusVars
<1>13. CASE CycleRadio \/ InboxMove \/ InboxDelete \/ ComposeKey \/ HbSelectMove
            \/ EmergencyKey \/ HoldCompletes \/ ShutdownCompletes \/ MailArrives
  BY <1>13, <1>u DEF CycleRadio, InboxMove, InboxDelete, ComposeKey, HbSelectMove,
     EmergencyKey, HoldCompletes, ShutdownCompletes, MailArrives, consoleVars,
     screenVars, focusVars
<1>14. CASE StationHeard \/ GpsFix \/ Join \/ Revert \/ StopRequested \/ Cleanup
            \/ CleanupJoined \/ (\E b \in Beacon : BeaconRuns(b)) \/ Encode
            \/ UNCHANGED vars
  BY <1>14, <1>u DEF StationHeard, GpsFix, Join, Revert, StopRequested, Cleanup,
     CleanupJoined, BeaconRuns, Encode, vars, consoleVars, screenVars, focusVars
<1> QED BY <1>1, <1>2, <1>3, <1>4, <1>5, <1>6, <1>7, <1>8, <1>9, <1>10, <1>11, <1>12,
           <1>13, <1>14 DEF Next

\* The draft and the HEARD list keep their types, whatever is picked from a
\* list that has changed since.
LEMMA StepDraftTyped == DraftTypeOK /\ [Next]_vars => DraftTypeOK'
<1> SUFFICES ASSUME DraftTypeOK, [Next]_vars PROVE DraftTypeOK'
  OBVIOUS
<1>h. form \in Forms /\ HeardTypeOK
  BY DEF DraftTypeOK
<1>u. ASSUME UNCHANGED heard, form' \in Forms PROVE DraftTypeOK'
  BY <1>h, <1>u DEF DraftTypeOK, HeardTypeOK
<1>e. EmptyForm \in Forms
  BY EmptyFormTyped
<1>p. Prepopulate(form, heard) \in Forms
  BY <1>h, PrepopulateTyped
<1>1. CASE StationHeard
  <2>1. PICK c \in Stations : heard' = HeardAfter(heard, c)
    BY <1>1 DEF StationHeard, Stations
  <2>2. HeardTypeOK'
    BY <1>h, <2>1, HeardAfterTyped DEF HeardTypeOK
  <2> QED BY <1>1, <1>h, <2>2 DEF StationHeard, DraftTypeOK
<1>2. CASE ComposeKey
  <2>1. CASE form' = TabForm(form) \/ form' = EmptyForm
    BY <1>2, <1>e, <1>h, <1>u, <2>1, TabTyped DEF ComposeKey
  <2>2. CASE \E k : form' \in FormsAfter(form, heard, k)
    BY <1>2, <1>h, <1>u, <2>2, FormsAfterTyped DEF ComposeKey
  <2> QED BY <1>2, <2>1, <2>2 DEF ComposeKey
<1>3. CASE SendStore \/ SendMessage
  BY <1>3, <1>e, <1>u DEF SendStore, SendMessage
<1>4. CASE Hotkey \/ RingKey \/ ReleaseTop \/ ReleaseBottom
  <2>1. form' \in {form, Prepopulate(form, heard)} /\ UNCHANGED heard
    BY <1>4 DEF Hotkey, RingKey, ReleaseTop, ReleaseBottom, SetScreen, Enter
  <2> QED BY <1>h, <1>p, <1>u, <2>1
<1>5. CASE UNCHANGED formVars
  BY <1>5, <1>h, <1>u DEF formVars
<1>6. CASE \/ BeginEdit \/ CancelEdit \/ CommitEdit \/ SetupTab \/ EmergencyBypass
           \/ CycleRadio \/ InboxMove \/ InboxOpen \/ InboxDelete \/ DetailEsc
           \/ DetailDelete \/ AllcallMove \/ OpenHbSelect \/ HbSelectMove
  BY <1>5, <1>6 DEF BeginEdit, CancelEdit, CommitEdit, SetupTab, EmergencyBypass,
     CycleRadio, InboxMove, InboxOpen, InboxDelete, DetailEsc, DetailDelete, CloseDetail,
     AllcallMove, OpenHbSelect, HbSelectMove, consoleVars
<1>7. CASE \/ HbCommit \/ HbCancel \/ EmergencyKey \/ HoldCompletes \/ CtrlX
           \/ ShutdownEsc \/ ShutdownCompletes \/ PoweroffEnds \/ Press
  BY <1>5, <1>7 DEF HbCommit, HbCancel, EmergencyKey, HoldCompletes, CtrlX, ShutdownEsc,
     ShutdownCompletes, PoweroffEnds, Press
<1>8. CASE \/ MailArrives \/ GpsFix \/ Join \/ Revert \/ StopRequested \/ Cleanup
           \/ CleanupJoined \/ (\E b \in Beacon : BeaconRuns(b)) \/ Encode
           \/ UNCHANGED vars
  BY <1>5, <1>8 DEF MailArrives, GpsFix, Join, Revert, StopRequested, Cleanup,
     CleanupJoined, BeaconRuns, Encode, vars, consoleVars
<1> QED BY <1>1, <1>2, <1>3, <1>4, <1>6, <1>7, <1>8 DEF Next

\* The countdown, the holds, the override and the buttons.
LEMMA StepGesturesTyped ==
    GestureTypeOK /\ ButtonTypeOK /\ [Next]_vars
        => GestureTypeOK' /\ ButtonTypeOK' /\ UNCHANGED scenario
<1> SUFFICES ASSUME GestureTypeOK, ButtonTypeOK, [Next]_vars
             PROVE  GestureTypeOK' /\ ButtonTypeOK' /\ UNCHANGED scenario
  OBVIOUS
<1> DEFINE Typed == GestureTypeOK' /\ ButtonTypeOK' /\ UNCHANGED scenario
<1>b. ASSUME UNCHANGED <<override, top, bottom, consumed>> PROVE ButtonTypeOK'
  BY <1>b, Zenon DEF ButtonTypeOK
<1>u. ASSUME UNCHANGED <<scenario, shutdown, hold, override, top, bottom, consumed>>
      PROVE  Typed
  BY <1>b, <1>u DEF GestureTypeOK
<1>1. CASE EmergencyBypass
  <2>1. override' = TRUE /\ UNCHANGED <<scenario, shutdown, hold, top, bottom, consumed>>
    BY <1>1 DEF EmergencyBypass, BypassOnce, gestureVars, buttonVars
  <2>2. ButtonTypeOK'
    BY <2>1, Zenon DEF ButtonTypeOK
  <2> QED BY <2>1, <2>2 DEF GestureTypeOK
<1>2. CASE EmergencyKey \/ HoldCompletes
  <2>1. hold' \in {"none", "arm", "disarm"} /\ UNCHANGED <<scenario, shutdown>>
    BY <1>2 DEF EmergencyKey, HoldCompletes, BeginHold, CancelHold
  <2>2. UNCHANGED <<override, top, bottom, consumed>>
    BY <1>2 DEF EmergencyKey, HoldCompletes, buttonVars
  <2> QED BY <1>b, <2>1, <2>2 DEF GestureTypeOK
<1>3. CASE CtrlX \/ ShutdownEsc \/ ShutdownCompletes \/ PoweroffEnds
  <2>1. shutdown' \in {"idle", "counting", "poweroff", "done"} /\ UNCHANGED <<scenario, hold>>
    BY <1>3 DEF CtrlX, ShutdownEsc, ShutdownCompletes, PoweroffEnds, ArmShutdown,
       CancelGesture, GestureTypeOK
  <2>2. UNCHANGED <<override, top, bottom, consumed>>
    BY <1>3 DEF CtrlX, ShutdownEsc, ShutdownCompletes, PoweroffEnds, buttonVars
  <2> QED BY <1>b, <2>1, <2>2 DEF GestureTypeOK
<1>4. CASE Press \/ ReleaseTop \/ ReleaseBottom
  <2>1. shutdown' \in {"idle", "counting", "poweroff", "done"} /\ UNCHANGED <<scenario, hold>>
    BY <1>4 DEF Press, ReleaseTop, ReleaseBottom, ArmShutdown, CancelGesture, GestureTypeOK
  <2>2. /\ UNCHANGED override
        /\ top' \in {top, TRUE, FALSE} /\ bottom' \in {bottom, TRUE, FALSE}
        /\ \/ consumed' \in {consumed, TRUE}
           \/ consumed' = (bottom /\ consumed)
           \/ consumed' = (top /\ consumed)
    BY <1>4 DEF Press, ReleaseTop, ReleaseBottom
  <2>3. consumed' \in BOOLEAN
    BY <2>2, Zenon DEF ButtonTypeOK
  <2>4. ButtonTypeOK'
    BY <2>2, <2>3, Zenon DEF ButtonTypeOK
  <2> QED BY <2>1, <2>4 DEF GestureTypeOK
<1>5. CASE \/ BeginEdit \/ CancelEdit \/ CommitEdit \/ Hotkey \/ RingKey \/ SetupTab
           \/ CycleRadio \/ InboxMove \/ InboxOpen \/ InboxDelete \/ DetailEsc
           \/ DetailDelete \/ ComposeKey \/ SendStore \/ SendMessage
  BY <1>5, <1>u DEF BeginEdit, CancelEdit, CommitEdit, Hotkey, RingKey, SetupTab, CycleRadio,
     InboxMove, InboxOpen, InboxDelete, DetailEsc, DetailDelete, CloseDetail, ComposeKey,
     SendStore, SendMessage, consoleVars, gestureVars, buttonVars
<1>6. CASE \/ AllcallMove \/ OpenHbSelect \/ HbSelectMove \/ HbCommit \/ HbCancel
           \/ MailArrives \/ StationHeard \/ GpsFix \/ Join \/ Revert
  BY <1>6, <1>u DEF AllcallMove, OpenHbSelect, HbSelectMove, HbCommit, HbCancel, MailArrives,
     StationHeard, GpsFix, Join, Revert, consoleVars, gestureVars, buttonVars
<1>7. CASE \/ StopRequested \/ Cleanup \/ CleanupJoined
           \/ (\E b \in Beacon : BeaconRuns(b)) \/ Encode \/ UNCHANGED vars
  BY <1>7, <1>u DEF StopRequested, Cleanup, CleanupJoined, BeaconRuns, Encode, vars,
     consoleVars, gestureVars, buttonVars
<1> QED BY <1>1, <1>2, <1>3, <1>4, <1>5, <1>6, <1>7 DEF Next

LEMMA TerminalInvariant == Spec => []TerminalTypeOK
<1>1. TerminalTypeOK /\ [Next]_vars => TerminalTypeOK'
  BY StepScreenTyped, StepDraftTyped, StepGesturesTyped DEF TerminalTypeOK
<1> QED BY <1>1, InitTerminalTyped, PTL DEF Spec

\* The terminal keeps its type, for any keys, stations, groups, mail and
\* number of beacon threads: no screen, focus or menu position is out of
\* range, a draft names only what its dropdowns or the keyboard may give, and
\* a station is on the HEARD list once (ui/state.py, input/router.py).
THEOREM ConsoleTyped == Spec => []ConsoleTypeOK
<1>1. ConsoleCoreTypeOK /\ InboxTypeOK /\ TerminalTypeOK => ConsoleTypeOK
  <2> SUFFICES ASSUME ConsoleCoreTypeOK, InboxTypeOK, TerminalTypeOK PROVE ConsoleTypeOK
    OBVIOUS
  <2>1. ButtonTypeOK /\ BeaconTypeOK
    BY DEF TerminalTypeOK, ConsoleCoreTypeOK
  <2>2. /\ daemon \in {"up", "stopping", "closing", "down"}
        /\ hbFocus \in 0..3
        /\ scenario \in Scenarios
        /\ {screen, previous} \subseteq Screens
        /\ editing \in EditFields \cup {NoField}
        /\ setupFocus \in 0..6 /\ allcallFocus \in 0..2
        /\ form \in Forms
        /\ heard \in Seq(Peers \cup {Me}) /\ IsInjective(heard)
        /\ shutdown \in {"idle", "counting", "poweroff", "done"}
        /\ hold \in {"none", "arm", "disarm"}
    BY DEF ConsoleCoreTypeOK, TerminalTypeOK, ScreenTypeOK, DraftTypeOK, HeardTypeOK,
       Stations, GestureTypeOK
  <2> QED BY <2>1, <2>2, Zenon DEF ConsoleTypeOK, ButtonTypeOK
<1> QED BY <1>1, BeaconsInvariant, InboxTyped, TerminalInvariant, PTL
=============================================================================
