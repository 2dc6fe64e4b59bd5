------------------------------ MODULE Console ------------------------------
(***************************************************************************)
(* What the operator can do with the terminal, and what else the loop      *)
(* thread does to the same state: the router (src/minijs8/input/router.py) *)
(* over the screens of src/minijs8/ui/state.py, the two buttons and the    *)
(* two hold gestures of src/minijs8/input/, arriving mail and stations,    *)
(* and the start and stop of beacons.  One action per handler; the loop    *)
(* thread runs them one at a time, the beacons are threads of their own.   *)
(*                                                                         *)
(* Keys that change none of the variables have no action: characters of an *)
(* edit buffer, a rejected commit, keys a screen swallows.                 *)
(***************************************************************************)
EXTENDS ComposeForm, InboxView, Beacons

CONSTANTS
    Scenarios    \* the station at start-up and the inputs that occur (bound);
                 \* a key occurs on some screens only

VARIABLES
    scenario,      \* this behaviour's scenario
    daemon,        \* "up", "stopping" (stop requested), "closing", "down"
    screen,        \* UIState._screen
    previous,      \* _previous_screen, of the detail view and of the shutdown
    editing,       \* _editing_field, or NoField
    setupFocus,    \* _focus_index of SETUP, from 0
    override,      \* _emergency_override
    allcallFocus,  \* _allcall_focus
    hbFocus,       \* _hb_select_focus
    form, heard,   \* the draft; the HEARD list, newest first
    shutdown,      \* ShutdownGesture: "idle", "counting", "poweroff", "done"
    hold,          \* EmergencyArmGesture: "none", "arm", "disarm"
    top, bottom,   \* the buttons that are down
    consumed       \* _gesture_consumed

screenVars == <<screen, previous, editing>>
focusVars == <<setupFocus, allcallFocus, hbFocus>>
formVars == <<form, heard>>
gestureVars == <<shutdown, hold>>
buttonVars == <<top, bottom, consumed>>
consoleVars == <<scenario, daemon, screenVars, focusVars, override, formVars,
                 gestureVars, buttonVars>>
vars == <<consoleVars, mailVars, beaconVars>>

Keys == {"ENTER", "ESC", "BACKSPACE", "DELETE", "TAB", "UP", "DOWN", "LEFT",
         "RIGHT", "CTRL_X", "CTRL_S", "CTRL_Q", "CTRL_H", "CTRL_C", "CHAR"}
Events == {"BUTTON", "MAIL", "HEARD", "GPS", "STOP", "DB_FAILS"}

Ring == <<"HOME", "HEARD", "DIRECTED", "INBOX", "COMPOSE", "ALLCALL",
          "DIRECTED_MENU", "EMERGENCY", "SETUP">>
RingScreens == {Ring[i] : i \in DOMAIN Ring}
Screens == RingScreens \cup {"SHUTTING_DOWN", "INBOX_DETAIL", "HB_MODE_SELECT"}

ASSUME ConsoleAssumption ==
    \A sc \in Scenarios :
        /\ sc.keys \subseteq Keys \X Screens
        /\ sc.events \subseteq Events
        /\ {sc.queue, sc.call, sc.grid, sc.located} \subseteq BOOLEAN

SetupFields == <<"callsign", "grid", "groups", "units", "freq_hz", "radio",
                 "emergency_bypass">>
EditFields == {"callsign", "grid", "groups", "units", "freq_hz"}
SetupField == SetupFields[setupFocus + 1]

HbOrder == <<"OFF", "SINGLE", "20 MIN", "1 HR">>

Configured == call /\ grid
TxAllowed == Configured \/ override

\* A screen outside the ring counts as its first one.
RingIndex(s) == IF s \in RingScreens
                THEN CHOOSE i \in DOMAIN Ring : Ring[i] = s ELSE 1
RingNext(s) == Ring[(RingIndex(s) % Len(Ring)) + 1]
RingPrev(s) == Ring[((RingIndex(s) + Len(Ring) - 2) % Len(Ring)) + 1]

NoField == "none"

\* Without identity the operator is sent to SETUP.
FirstScreen == IF Configured THEN "HOME" ELSE "SETUP"

Init ==
    /\ scenario \in Scenarios
    /\ queueUp = scenario.queue
    /\ call = scenario.call
    /\ grid = scenario.grid
    /\ located = scenario.located
    /\ daemon = "up"
    /\ InitBeacons
    /\ InitInbox
    /\ override = FALSE
    /\ screen = FirstScreen
    /\ previous = "HOME"
    /\ editing = NoField
    /\ setupFocus = 0 /\ allcallFocus = 0 /\ hbFocus = 0
    /\ form = EmptyForm
    /\ heard = <<>>
    /\ shutdown = "idle" /\ hold = "none"
    /\ top = FALSE /\ bottom = FALSE /\ consumed = FALSE

\* The loop thread is free for the next handler.
Ready == LoopFree /\ daemon \in {"up", "stopping"}
Happens(e) == e \in scenario.events /\ Ready
Pressed(k) == <<k, screen>> \in scenario.keys /\ Ready

\* A key that reaches the handlers behind the edit buffer.
Key(k) == Pressed(k) /\ editing = NoField
KeyOn(s, k) == Key(k) /\ screen = s

DbMayFail == "DB_FAILS" \in scenario.events

\* _on_screen_entered.
Enter(s) ==
    /\ screen' = s
    /\ form' = IF s = "COMPOSE" THEN Prepopulate(form, heard) ELSE form

-----------------------------------------------------------------------------
(***************************************************************************)
(* Editing a field of SETUP.                                               *)
(***************************************************************************)

BeginEdit ==
    /\ KeyOn("SETUP", "ENTER") \/ KeyOn("SETUP", "CHAR")
    /\ SetupField \in EditFields
    /\ editing' = SetupField
    /\ UNCHANGED <<scenario, daemon, screen, previous, focusVars, override,
                   formVars, gestureVars, buttonVars, mailVars, beaconVars>>

CancelEdit ==
    /\ Pressed("ESC") \/ Pressed("CTRL_C")
    /\ editing # NoField
    /\ editing' = NoField
    /\ UNCHANGED <<scenario, daemon, screen, previous, focusVars, override,
                   formVars, gestureVars, buttonVars, mailVars, beaconVars>>

\* The configuration was saved; an empty field is a valid one.
Saved(field) ==
    /\ call' \in IF field = "callsign" THEN BOOLEAN ELSE {call}
    /\ grid' \in IF field = "grid" THEN BOOLEAN ELSE {grid}

CommitEdit ==
    /\ Pressed("ENTER")
    /\ editing # NoField
    /\ Saved(editing)
    /\ editing' = NoField
    /\ UNCHANGED <<scenario, daemon, screen, previous, focusVars, override,
                   formVars, gestureVars, buttonVars, mailVars, queueUp, located,
                   hbVars, sosVars, threadVars, joining, reverts, sosRow>>

-----------------------------------------------------------------------------
(***************************************************************************)
(* Moving between screens.                                                 *)
(***************************************************************************)

\* set_screen: a change of screen abandons an edit.
SetScreen(s) ==
    /\ screen # s
    /\ Enter(s)
    /\ editing' = NoField
    /\ UNCHANGED previous

Hotkey ==
    /\ \/ Key("CTRL_S") /\ SetScreen("SETUP")
       \/ Key("CTRL_Q") /\ TxAllowed /\ SetScreen("ALLCALL")
       \/ Key("CTRL_H") /\ TxAllowed /\ SetScreen("EMERGENCY")
    /\ UNCHANGED <<scenario, daemon, focusVars, override, heard, gestureVars,
                   buttonVars, mailVars, beaconVars>>

RingKeyUnlocked ==   \* mutant
    /\ screen \in RingScreens
    /\ screen = "EMERGENCY" => hold = "none"
    /\ \/ Key("RIGHT") /\ Enter(RingNext(screen))
       \/ Key("LEFT") /\ Enter(RingPrev(screen))
    /\ UNCHANGED <<scenario, daemon, previous, editing, focusVars, override, heard,
                   gestureVars, buttonVars, mailVars, beaconVars>>

\* LEFT and RIGHT, unless the station is locked to SETUP or a hold is on.
RingKey ==
    /\ screen \in RingScreens
    /\ screen = "EMERGENCY" => hold = "none"
    /\ TxAllowed
    /\ \/ Key("RIGHT") /\ Enter(RingNext(screen))
       \/ Key("LEFT") /\ Enter(RingPrev(screen))
    /\ UNCHANGED <<scenario, daemon, previous, editing, focusVars, override, heard,
                   gestureVars, buttonVars, mailVars, beaconVars>>

SetupTab ==
    /\ KeyOn("SETUP", "TAB")
    /\ setupFocus' = (setupFocus + 1) % Len(SetupFields)
    /\ UNCHANGED <<scenario, daemon, screenVars, allcallFocus, hbFocus, override,
                   formVars, gestureVars, buttonVars, mailVars, beaconVars>>

\* trigger_emergency_override.
BypassOnce ==
    /\ ~override
    /\ override' = TRUE
    /\ screen' = "EMERGENCY"

EmergencyBypass ==
    /\ KeyOn("SETUP", "ENTER")
    /\ SetupField = "emergency_bypass"
    /\ BypassOnce
    /\ UNCHANGED <<scenario, daemon, previous, editing, focusVars, formVars,
                   gestureVars, buttonVars, mailVars, beaconVars>>

\* A radio saved in the configuration restarts the daemon.
CycleRadio ==
    /\ KeyOn("SETUP", "ENTER")
    /\ SetupField = "radio"
    /\ daemon' = "stopping"
    /\ UNCHANGED <<scenario, screenVars, focusVars, override, formVars,
                   gestureVars, buttonVars, mailVars, beaconVars>>

-----------------------------------------------------------------------------
(***************************************************************************)
(* INBOX, its detail view, COMPOSE.                                        *)
(***************************************************************************)

InboxMove ==
    /\ \/ KeyOn("INBOX", "UP") /\ FocusUp
       \/ KeyOn("INBOX", "DOWN") /\ FocusDown
    /\ UNCHANGED <<consoleVars, beaconVars>>

InboxOpen ==
    /\ KeyOn("INBOX", "ENTER")
    /\ OpenFocused(DbMayFail)
    /\ previous' = screen
    /\ screen' = "INBOX_DETAIL"
    /\ UNCHANGED <<scenario, daemon, editing, focusVars, override, formVars,
                   gestureVars, buttonVars, beaconVars>>

InboxDelete ==
    /\ KeyOn("INBOX", "DELETE")
    /\ DeleteFocused(DbMayFail)
    /\ UNCHANGED <<consoleVars, detail, beaconVars>>

CloseDetail ==
    /\ screen' = previous
    /\ detail' = NoMail
    /\ UNCHANGED <<scenario, daemon, previous, editing, focusVars, override,
                   formVars, gestureVars, buttonVars, beaconVars>>

DetailEsc ==
    /\ KeyOn("INBOX_DETAIL", "ESC")
    /\ CloseDetail
    /\ UNCHANGED <<mailbox, rows, fetched, focusRow, unread, dbFailed>>

\* The view is closed, then the row that has the focus in the list deleted.
DetailDelete ==
    /\ KeyOn("INBOX_DETAIL", "DELETE")
    /\ CloseDetail
    /\ IF HasFocus THEN DeleteFocused(DbMayFail)
                   ELSE UNCHANGED <<mailbox, rows, fetched, focusRow, unread, dbFailed>>

ComposeKey ==
    /\ \/ KeyOn("COMPOSE", "TAB") /\ form' = TabForm(form)
       \/ KeyOn("COMPOSE", "ESC") /\ form' = EmptyForm
       \/ \E k \in {"UP", "DOWN", "CHAR", "BACKSPACE"} :
              KeyOn("COMPOSE", k) /\ form' \in FormsAfter(form, heard, k)
    /\ UNCHANGED <<scenario, daemon, screenVars, focusVars, override, heard,
                   gestureVars, buttonVars, mailVars, beaconVars>>

Send == KeyOn("COMPOSE", "ENTER") /\ FocusedField(form) = "send"

\* STORE keeps the draft unless the row was inserted.
SendStore ==
    /\ Send
    /\ form.cmd = "STORE"
    /\ Storable(form, call)
    /\ InsertRow("STORE", DbMayFail)
    /\ form' = EmptyForm
    /\ screen' = "INBOX"
    /\ UNCHANGED <<scenario, daemon, previous, editing, focusVars, override, heard,
                   gestureVars, buttonVars, beaconVars>>

\* Whatever becomes of the message, the form is cleared.
SendMessage ==
    /\ Send
    /\ form.cmd # "STORE"
    /\ form' = EmptyForm
    /\ screen' = "DIRECTED"
    /\ UNCHANGED <<scenario, daemon, previous, editing, focusVars, override, heard,
                   gestureVars, buttonVars, mailVars, beaconVars>>

-----------------------------------------------------------------------------
(***************************************************************************)
(* ALLCALL and its mode selection.                                         *)
(***************************************************************************)

AllcallMove ==
    /\ \/ KeyOn("ALLCALL", "UP") /\ allcallFocus' = (allcallFocus + 2) % 3
       \/ KeyOn("ALLCALL", "DOWN") /\ allcallFocus' = (allcallFocus + 1) % 3
    /\ UNCHANGED <<scenario, daemon, screenVars, setupFocus, hbFocus, override,
                   formVars, gestureVars, buttonVars, mailVars, beaconVars>>

OpenHbSelect ==
    /\ KeyOn("ALLCALL", "ENTER")
    /\ allcallFocus = 0
    /\ screen' = "HB_MODE_SELECT"
    /\ hbFocus' = (CHOOSE i \in 1..4 : HbOrder[i] = hbMode) - 1
    /\ UNCHANGED <<scenario, daemon, previous, editing, setupFocus, allcallFocus,
                   override, formVars, gestureVars, buttonVars, mailVars,
                   beaconVars>>

HbSelectMoveOffByOne ==   \* mutant
    /\ \/ KeyOn("HB_MODE_SELECT", "UP") /\ hbFocus' = (hbFocus + 4) % 5
       \/ KeyOn("HB_MODE_SELECT", "DOWN") /\ hbFocus' = (hbFocus + 1) % 5
    /\ UNCHANGED <<scenario, daemon, screenVars, setupFocus, allcallFocus, override,
                   formVars, gestureVars, buttonVars, mailVars, beaconVars>>

HbSelectMove ==
    /\ \/ KeyOn("HB_MODE_SELECT", "UP") /\ hbFocus' = (hbFocus + 3) % 4
       \/ KeyOn("HB_MODE_SELECT", "DOWN") /\ hbFocus' = (hbFocus + 1) % 4
    /\ UNCHANGED <<scenario, daemon, screenVars, setupFocus, allcallFocus, override,
                   formVars, gestureVars, buttonVars, mailVars, beaconVars>>

HbCommit ==
    /\ \E k \in {"ENTER", "LEFT", "RIGHT"} : KeyOn("HB_MODE_SELECT", k)
    /\ SetHbMode(HbOrder[hbFocus + 1])
    /\ screen' = "ALLCALL"
    /\ UNCHANGED <<scenario, daemon, previous, editing, focusVars, override,
                   formVars, gestureVars, buttonVars, mailVars>>

HbCancel ==
    /\ KeyOn("HB_MODE_SELECT", "ESC")
    /\ screen' = "ALLCALL"
    /\ UNCHANGED <<scenario, daemon, previous, editing, focusVars, override,
                   formVars, gestureVars, buttonVars, mailVars, beaconVars>>

-----------------------------------------------------------------------------
(***************************************************************************)
(* Arming and disarming the SOS beacon by holding.                         *)
(***************************************************************************)

BeginHold(direction) == hold = "none" /\ hold' = direction
CancelHold(direction) == hold = direction /\ hold' = "none"

EmergencyKey ==
    /\ \/ ~armed /\ KeyOn("EMERGENCY", "ENTER") /\ BeginHold("arm")
       \/ armed /\ KeyOn("EMERGENCY", "ESC") /\ BeginHold("disarm")
       \/ KeyOn("EMERGENCY", "ESC") /\ CancelHold("arm")
       \/ KeyOn("EMERGENCY", "ENTER") /\ CancelHold("disarm")
    /\ UNCHANGED <<scenario, daemon, screenVars, focusVars, override, formVars,
                   shutdown, buttonVars, mailVars, beaconVars>>

HoldCompletesOnScreen ==   \* mutant
    /\ Ready
    /\ screen = "EMERGENCY"
    /\ \/ hold = "arm" /\ Arm
       \/ hold = "disarm" /\ Disarm
    /\ hold' = "none"
    /\ UNCHANGED <<scenario, daemon, screenVars, focusVars, override, formVars,
                   shutdown, buttonVars, mailVars>>

\* The countdown ends, wherever the operator is by then.
HoldCompletes ==
    /\ Ready
    /\ \/ hold = "arm" /\ Arm
       \/ hold = "disarm" /\ Disarm
    /\ hold' = "none"
    /\ UNCHANGED <<scenario, daemon, screenVars, focusVars, override, formVars,
                   shutdown, buttonVars, mailVars>>

-----------------------------------------------------------------------------
(***************************************************************************)
(* Shutting down: Ctrl-X or both buttons, and a countdown.                 *)
(***************************************************************************)

GestureArmed == shutdown \in {"counting", "poweroff"}

ArmShutdownOverItself ==   \* mutant
    /\ ~GestureArmed
    /\ shutdown' = "counting"
    /\ previous' = screen
    /\ screen' = "SHUTTING_DOWN"

ShutdownScreen ==
    /\ previous' = IF screen = "SHUTTING_DOWN" THEN previous ELSE screen
    /\ screen' = "SHUTTING_DOWN"

ArmShutdown ==
    /\ ~GestureArmed
    /\ shutdown' = "counting"
    /\ ShutdownScreen

\* The screen after ShutdownGesture.cancel and cancel_shutdown.
RestoredScreen ==
    IF GestureArmed /\ screen = "SHUTTING_DOWN" THEN previous ELSE screen

CancelGesture == shutdown' = IF GestureArmed THEN "idle" ELSE shutdown

CtrlX ==
    /\ Key("CTRL_X")
    /\ ArmShutdown
    /\ UNCHANGED <<scenario, daemon, editing, focusVars, override, formVars, hold,
                   buttonVars, mailVars, beaconVars>>

ShutdownEsc ==
    /\ KeyOn("SHUTTING_DOWN", "ESC") \/ KeyOn("SHUTTING_DOWN", "CTRL_C")
    /\ CancelGesture
    /\ screen' = RestoredScreen
    /\ UNCHANGED <<scenario, daemon, previous, editing, focusVars, override,
                   formVars, hold, buttonVars, mailVars, beaconVars>>

ShutdownCompletes ==
    /\ Ready
    /\ shutdown = "counting"
    /\ shutdown' = "poweroff"
    /\ UNCHANGED <<scenario, daemon, screenVars, focusVars, override, formVars,
                   hold, buttonVars, mailVars, beaconVars>>

\* systemctl poweroff returned, with success or not; or could not be started.
PoweroffEnds ==
    /\ Ready
    /\ shutdown = "poweroff"
    /\ \/ shutdown' = "done" /\ UNCHANGED screen
       \/ CancelGesture /\ screen' = RestoredScreen
    /\ UNCHANGED <<scenario, daemon, previous, editing, focusVars, override,
                   formVars, hold, buttonVars, mailVars, beaconVars>>

Press ==
    /\ Happens("BUTTON")
    /\ \/ ~top /\ top' = TRUE /\ UNCHANGED bottom
       \/ ~bottom /\ bottom' = TRUE /\ UNCHANGED top
    /\ \/ /\ top' /\ bottom'
          /\ ArmShutdown
          /\ consumed' = TRUE
       \/ /\ ~(top' /\ bottom') \/ GestureArmed
          /\ UNCHANGED <<screen, previous, shutdown, consumed>>
    /\ UNCHANGED <<scenario, daemon, editing, focusVars, override, formVars, hold,
                   mailVars, beaconVars>>

\* A press that was not part of a gesture moves along the ring.
ReleaseTop ==
    /\ Happens("BUTTON")
    /\ top
    /\ top' = FALSE
    /\ CancelGesture
    /\ IF ~bottom /\ ~consumed THEN Enter(RingNext(RestoredScreen))
                               ELSE screen' = RestoredScreen /\ UNCHANGED form
    /\ consumed' = (bottom /\ consumed)
    /\ UNCHANGED <<scenario, daemon, previous, editing, focusVars, override, heard,
                   hold, bottom, mailVars, beaconVars>>

ReleaseBottom ==
    /\ Happens("BUTTON")
    /\ bottom
    /\ bottom' = FALSE
    /\ CancelGesture
    /\ IF ~top /\ ~consumed THEN Enter(RingPrev(RestoredScreen))
                            ELSE screen' = RestoredScreen /\ UNCHANGED form
    /\ consumed' = (top /\ consumed)
    /\ UNCHANGED <<scenario, daemon, previous, editing, focusVars, override, heard,
                   hold, top, mailVars, beaconVars>>

-----------------------------------------------------------------------------
(***************************************************************************)
(* What else happens on the loop, and the beacons.                         *)
(***************************************************************************)

MailArrives ==
    /\ Happens("MAIL")
    /\ \/ InsertRow("UNREAD", DbMayFail)
       \/ InsertRow("STORE", DbMayFail)
       \/ HeldMailGoes(DbMayFail)
    /\ UNCHANGED <<consoleVars, beaconVars>>

StationHeard ==
    /\ Happens("HEARD")
    /\ \E c \in Peers \cup {Me} : heard' = HeardAfter(heard, c)
    /\ UNCHANGED <<scenario, daemon, screenVars, focusVars, override, form,
                   gestureVars, buttonVars, mailVars, beaconVars>>

GpsFix ==
    /\ Happens("GPS")
    /\ located' = ~located
    /\ UNCHANGED <<consoleVars, mailVars, queueUp, call, grid, hbVars, sosVars,
                   threadVars, joining, reverts, sosRow>>

Join ==
    /\ \/ daemon # "closing" /\ HeartbeatJoined
       \/ SosJoined
    /\ UNCHANGED <<consoleVars, mailVars>>

Revert ==
    /\ Ready
    /\ RevertToOff
    /\ UNCHANGED <<consoleVars, mailVars>>

StopRequested ==
    /\ "STOP" \in scenario.events
    /\ daemon = "up"
    /\ daemon' = "stopping"
    /\ UNCHANGED <<scenario, screenVars, focusVars, override, formVars, gestureVars,
                   buttonVars, mailVars, beaconVars>>

\* The first step of _cleanup: the heartbeat is stopped and joined.
Cleanup ==
    /\ daemon = "stopping"
    /\ LoopFree
    /\ IF hbBeacon = None THEN daemon' = "down" /\ UNCHANGED <<threadVars, joining>>
                          ELSE daemon' = "closing" /\ StopAndJoin(hbBeacon)
    /\ UNCHANGED <<scenario, screenVars, focusVars, override, formVars, gestureVars,
                   buttonVars, mailVars, stationVars, hbVars, sosVars, reverts,
                   sosRow>>

CleanupJoined ==
    /\ daemon = "closing"
    /\ daemon' = "down"
    /\ hbBeacon' = None
    /\ joining' = None
    /\ UNCHANGED <<scenario, screenVars, focusVars, override, formVars, gestureVars,
                   buttonVars, mailVars, stationVars, hbMode, sosVars, threadVars,
                   reverts, sosRow>>

BeaconRuns(b) == BeaconStep(b) /\ UNCHANGED <<consoleVars, mailVars>>
Encode == EncodeSos /\ UNCHANGED <<consoleVars, mailVars>>

-----------------------------------------------------------------------------
Next ==
    \/ BeginEdit \/ CancelEdit \/ CommitEdit
    \/ Hotkey \/ RingKey \/ SetupTab \/ EmergencyBypass \/ CycleRadio
    \/ InboxMove \/ InboxOpen \/ InboxDelete \/ DetailEsc \/ DetailDelete
    \/ ComposeKey \/ SendStore \/ SendMessage
    \/ AllcallMove \/ OpenHbSelect \/ HbSelectMove \/ HbCommit \/ HbCancel
    \/ EmergencyKey \/ HoldCompletes
    \/ CtrlX \/ ShutdownEsc \/ ShutdownCompletes \/ PoweroffEnds
    \/ Press \/ ReleaseTop \/ ReleaseBottom
    \/ MailArrives \/ StationHeard \/ GpsFix
    \/ Join \/ Revert \/ StopRequested \/ Cleanup \/ CleanupJoined
    \/ \E b \in Beacon : BeaconRuns(b)
    \/ Encode

(***************************************************************************)
(* Threads run and joins end; the loop runs every callback that is due,    *)
(* however many keys are pressed in between.                               *)
(***************************************************************************)
Fairness ==
    /\ \A b \in Beacon : WF_vars(BeaconRuns(b))
    /\ WF_vars(Join)
    /\ WF_vars(Encode)
    /\ SF_vars(Revert)
    /\ SF_vars(HoldCompletes)
    /\ SF_vars(ShutdownCompletes)
    /\ SF_vars(PoweroffEnds)

Spec == Init /\ [][Next]_vars /\ Fairness
-----------------------------------------------------------------------------
ConsoleTypeOK ==
    /\ BeaconTypeOK
    /\ InboxTypeOK
    /\ scenario \in Scenarios
    /\ daemon \in {"up", "stopping", "closing", "down"}
    /\ {screen, previous} \subseteq Screens
    /\ editing \in EditFields \cup {NoField}
    /\ setupFocus \in 0..6 /\ allcallFocus \in 0..2 /\ hbFocus \in 0..3
    /\ form \in Forms
    /\ heard \in Seq(Peers \cup {Me}) /\ IsInjective(heard)
    /\ shutdown \in {"idle", "counting", "poweroff", "done"}
    /\ hold \in {"none", "arm", "disarm"}
    /\ {override, top, bottom, consumed} \subseteq BOOLEAN

(***************************************************************************)
(* One heartbeat, in the mode on the display.  A live heartbeat that was   *)
(* not told to stop is the current one; with no join under way the current *)
(* one is of the mode selected, there is none in mode OFF, and in another  *)
(* it runs or, single-shot, has its return to OFF posted.  Old beacons     *)
(* whose join timed out, completions that cross a new selection and the    *)
(* clean-up all have to respect it (app.py:1586-1677, 2860-2868).          *)
(***************************************************************************)
HeartbeatMatchesMode ==
    /\ \A b \in Beacon : Alive(b) /\ kind[b] # "SOS" /\ ~stopped[b] => b = hbBeacon
    /\ LoopFree /\ daemon # "down" =>
           IF hbMode = "OFF" THEN hbBeacon = None
           ELSE /\ hbBeacon # None
                /\ Alive(hbBeacon) => kind[hbBeacon] = hbMode
                /\ queueUp => Alive(hbBeacon) \/ (hbMode = "SINGLE" /\ reverts > 0)
    /\ daemon = "down" => hbBeacon = None

(***************************************************************************)
(* What the display says of the SOS beacon is what happens: it runs, not   *)
(* told to stop, only while armed, and while armed it runs if there is a   *)
(* queue to put its rows in (app.py:1681-1732, state.py:1020-1069).        *)
(***************************************************************************)
SosMatchesArmed ==
    /\ \A b \in Beacon : kind[b] = "SOS" /\ Alive(b) /\ ~stopped[b] =>
           armed /\ b = sosBeacon
    /\ armed /\ queueUp => sosBeacon # None /\ Alive(sosBeacon) /\ ~stopped[sosBeacon]

(***************************************************************************)
(* The shutdown screen is never left behind: it shows only while the       *)
(* countdown or the power-off is under way, or after a power-off that      *)
(* returned.  Cancellations come from Esc, from either button, from a      *)
(* failing command, with the screen changed by hotkeys meanwhile           *)
(* (state.py:935-952, shutdown_gesture.py:81-146).                         *)
(***************************************************************************)
ShutdownScreenIsOwned == screen = "SHUTTING_DOWN" => shutdown # "idle"

(***************************************************************************)
(* From the keyboard, a station without identity that has not chosen the   *)
(* emergency bypass stays on SETUP, however the operator got there: by     *)
(* starting up, by clearing a field, or through a cancelled shutdown       *)
(* (router.py:323-359, 549-552).  The buttons are not locked.              *)
(***************************************************************************)
KeyboardLock ==
    "BUTTON" \notin scenario.events /\ ~TxAllowed => screen \in {"SETUP", "SHUTTING_DOWN"}

(***************************************************************************)
(* A draft is changed on COMPOSE only; leaving, stations heard meanwhile   *)
(* and coming back through the ring do not touch a TO that is filled in    *)
(* (state.py:726-749, 1522-1550).                                          *)
(***************************************************************************)
DraftSurvives ==
    [][form' # form => screen = "COMPOSE" \/ form.to = ""]_vars

(***************************************************************************)
(* A single-shot heartbeat ends: mode SINGLE does not stay, with a queue   *)
(* and a running daemon (app.py:1661-1677, beacon.py:97-117).              *)
(***************************************************************************)
SingleShotEnds ==
    hbMode = "SINGLE" /\ queueUp ~> hbMode # "SINGLE" \/ daemon # "up"

(***************************************************************************)
(* Holds and countdowns are resolved, whatever keys are pressed and        *)
(* however long a beacon takes to stop (emergency_arm_gesture.py:166-209,  *)
(* shutdown_gesture.py:113-146).                                           *)
(***************************************************************************)
GesturesEnd ==
    /\ hold # "none" ~> hold = "none" \/ daemon # "up"
    /\ GestureArmed ~> ~GestureArmed \/ daemon # "up"

(***************************************************************************)
(* The SOS of the emergency bypass goes on the air without identity        *)
(* (beacon.py:264-268).                                                    *)
(***************************************************************************)
SosIsEncodable == sosRow # "failed"

(***************************************************************************)
(* DELETE in the detail view deletes the message that is shown             *)
(* (router.py:396-408).                                                    *)
(***************************************************************************)
DeletesWhatIsShown ==
    [][screen = "INBOX_DETAIL" =>
         \A r \in MailIds :
             mailbox'[r].type = "DELETED" /\ mailbox[r].type # "DELETED" =>
                 r = detail]_vars
============================================================================
