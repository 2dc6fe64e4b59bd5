------------------------------ MODULE Beacons ------------------------------
(***************************************************************************)
(* Heartbeat and SOS beacons: src/minijs8/tx/beacon.py and the callbacks   *)
(* of src/minijs8/app.py that start and stop them.  Each beacon is a       *)
(* thread of its own; the loop thread creates one, and to end it sets its  *)
(* stop event and joins it for at most two seconds, during which the loop  *)
(* does nothing else.  A single-shot heartbeat reports its end by posting  *)
(* a callback to the loop.                                                 *)
(*                                                                         *)
(* The actions leave the variables of other modules alone.                 *)
(***************************************************************************)
EXTENDS Naturals

CONSTANTS
    MaxBeacons,  \* bound: beacon threads alive at once
    MaxReverts   \* bound: single-shot completions posted and not yet run

ASSUME BeaconAssumption ==
    /\ MaxBeacons \in Nat
    /\ MaxReverts \in Nat

VARIABLES
    queueUp,     \* the outbound queue was opened at the start
    call, grid,  \* the station has a call sign, a grid (StationConfig)
    located,     \* the GPS has a position
    hbMode,      \* UIState._hb_mode
    hbBeacon,    \* _hb_beacon
    armed,       \* UIState._emergency_beacon_armed
    sosBeacon,   \* _emergency_beacon
    pc,          \* where each thread is
    kind,        \* what it beacons: a heartbeat mode, or "SOS"
    stopped,     \* its stop event
    joining,     \* the thread the loop is joined on, or None
    reverts,     \* posted and pending _hb_revert_to_off
    sosRow       \* the SOS row enqueued last, as the encode worker leaves it

hbVars == <<hbMode, hbBeacon>>
sosVars == <<armed, sosBeacon>>
threadVars == <<pc, kind, stopped>>
stationVars == <<queueUp, call, grid, located>>
beaconVars == <<stationVars, hbVars, sosVars, threadVars, joining, reverts, sosRow>>

Beacon == 1..MaxBeacons
None == 0

HbModes == {"OFF", "SINGLE", "20 MIN", "1 HR"}
Kinds == (HbModes \ {"OFF"}) \cup {"SOS", "none"}
Pcs == {"first", "wait", "fire", "complete", "dead"}

Alive(b) == pc[b] # "dead"

\* The slot a new thread gets, apart from one whose thread is referred to.
FreeSlot(b, taken) ==
    /\ b # taken /\ ~Alive(b)
    /\ \A c \in Beacon \ {taken} : ~Alive(c) => b <= c

LoopFree == joining = None

InitBeacons ==
    /\ hbMode = "OFF" /\ hbBeacon = None
    /\ armed = FALSE /\ sosBeacon = None
    /\ pc = [b \in Beacon |-> "dead"]
    /\ kind = [b \in Beacon |-> "none"]
    /\ stopped = [b \in Beacon |-> FALSE]
    /\ joining = None
    /\ reverts = 0
    /\ sosRow = "none"

Start(b, what) ==
    /\ pc' = [pc EXCEPT ![b] = "first"]
    /\ kind' = [kind EXCEPT ![b] = what]
    /\ stopped' = [stopped EXCEPT ![b] = FALSE]

StopAndJoin(b) ==
    /\ stopped' = [stopped EXCEPT ![b] = Alive(b)]
    /\ joining' = b
    /\ UNCHANGED <<pc, kind>>

-----------------------------------------------------------------------------
(***************************************************************************)
(* The loop thread.                                                        *)
(***************************************************************************)

\* The end of _on_hb_mode_change: a thread that has ended, or a new one.
StartHeartbeat(m) ==
    /\ joining' = None
    /\ IF m = "OFF" THEN hbBeacon' = None /\ UNCHANGED threadVars
       ELSE \E b \in Beacon : FreeSlot(b, sosBeacon) /\ hbBeacon' = b /\ Start(b, m)

SetHbModeKeepsOld(m) ==   \* mutant
    IF m = hbMode THEN UNCHANGED beaconVars
    ELSE /\ hbMode' = m
         /\ StartHeartbeat(m)
         /\ UNCHANGED <<stationVars, sosVars, reverts, sosRow>>

\* set_hb_mode: the same mode again is nothing, another replaces the beacon.
SetHbMode(m) ==
    IF m = hbMode THEN UNCHANGED beaconVars
    ELSE /\ hbMode' = m
         /\ IF hbBeacon # None THEN StopAndJoin(hbBeacon) /\ UNCHANGED hbBeacon
                               ELSE StartHeartbeat(m)
         /\ UNCHANGED <<stationVars, sosVars, reverts, sosRow>>

\* arm_emergency_beacon and _on_emergency_arm_change(True).
Arm ==
    /\ armed' = TRUE
    /\ IF armed \/ sosBeacon # None \/ ~queueUp
       THEN UNCHANGED <<sosBeacon, threadVars>>
       ELSE \E b \in Beacon : FreeSlot(b, hbBeacon) /\ sosBeacon' = b /\ Start(b, "SOS")
    /\ UNCHANGED <<stationVars, hbVars, joining, reverts, sosRow>>

DisarmForgets ==   \* mutant
    /\ armed' = FALSE
    /\ sosBeacon' = None
    /\ UNCHANGED <<stationVars, hbVars, threadVars, joining, reverts, sosRow>>

\* disarm_emergency_beacon and _on_emergency_arm_change(False).
Disarm ==
    /\ armed' = FALSE
    /\ IF armed /\ sosBeacon # None THEN StopAndJoin(sosBeacon)
                                    ELSE UNCHANGED <<threadVars, joining>>
    /\ UNCHANGED <<stationVars, hbVars, sosBeacon, reverts, sosRow>>

\* The join ended, or timed out: the old thread is forgotten either way.
HeartbeatJoined ==
    /\ joining # None /\ joining = hbBeacon
    /\ StartHeartbeat(hbMode)
    /\ UNCHANGED <<stationVars, hbMode, sosVars, reverts, sosRow>>

SosJoined ==
    /\ joining # None /\ joining = sosBeacon
    /\ joining' = None
    /\ sosBeacon' = None
    /\ UNCHANGED <<stationVars, hbVars, armed, threadVars, reverts, sosRow>>

\* _hb_revert_to_off, posted by the single-shot heartbeat.
RevertToOff ==
    /\ LoopFree
    /\ reverts > 0
    /\ IF hbMode = "OFF" THEN UNCHANGED <<hbVars, threadVars, joining>>
       ELSE /\ hbMode' = "OFF"
            /\ IF hbBeacon # None THEN StopAndJoin(hbBeacon) /\ UNCHANGED hbBeacon
                                  ELSE UNCHANGED <<hbBeacon, threadVars, joining>>
    /\ reverts' = reverts - 1
    /\ UNCHANGED <<stationVars, sosVars, sosRow>>

-----------------------------------------------------------------------------
(***************************************************************************)
(* The beacon threads.                                                     *)
(***************************************************************************)

\* A thread's next step; of one that has ended nothing is kept.
MoveTo(b, p) ==
    /\ pc' = [pc EXCEPT ![b] = p]
    /\ kind' = [kind EXCEPT ![b] = IF p = "dead" THEN "none" ELSE @]
    /\ stopped' = [stopped EXCEPT ![b] = @ /\ p # "dead"]

\* What _fire_one has to say: no heartbeat without identity, no SOS without
\* a location; an SOS without call sign is from N0CALL.
HasHeartbeatText == call /\ grid
HasSosText == grid \/ located
HasText(b) == IF kind[b] = "SOS" THEN HasSosText ELSE HasHeartbeatText

\* _fire_one: the row is enqueued or, the queue being full, dropped.  A
\* beacon started without a queue dies of the missing one.
Fire(b, next) ==
    /\ MoveTo(b, IF HasText(b) /\ ~queueUp THEN "dead" ELSE next)
    /\ IF kind[b] = "SOS" /\ HasText(b) /\ queueUp
       THEN sosRow' \in {"queued", sosRow} ELSE UNCHANGED sosRow
    /\ UNCHANGED <<stationVars, hbVars, sosVars, joining, reverts>>

\* Immediately on start, whether stopped or not.
FireFirst(b) ==
    /\ pc[b] = "first"
    /\ Fire(b, IF kind[b] = "SINGLE" THEN "complete" ELSE "wait")

FireAgain(b) == pc[b] = "fire" /\ Fire(b, "wait")

CompleteSilently(b) ==   \* mutant
    /\ pc[b] = "complete"
    /\ MoveTo(b, "dead")
    /\ UNCHANGED <<stationVars, hbVars, sosVars, joining, reverts, sosRow>>

\* _fire_on_complete posts the revert and the thread ends.
Complete(b) ==
    /\ pc[b] = "complete"
    /\ reverts < MaxReverts
    /\ reverts' = reverts + 1
    /\ MoveTo(b, "dead")
    /\ UNCHANGED <<stationVars, hbVars, sosVars, joining, sosRow>>

\* The interval is over, or the stop event ends the wait and the thread.
Wake(b) ==
    /\ pc[b] = "wait"
    /\ MoveTo(b, IF stopped[b] THEN "dead" ELSE "fire")
    /\ UNCHANGED <<stationVars, hbVars, sosVars, joining, reverts, sosRow>>

BeaconStep(b) == FireFirst(b) \/ FireAgain(b) \/ Complete(b) \/ Wake(b)

\* The identity that the backend encodes with: none for N0CALL.
TxIdentity == call /\ grid

\* The encode worker takes the SOS row.
EncodeSos ==
    /\ sosRow = "queued"
    /\ sosRow' = IF TxIdentity THEN "encoded" ELSE "failed"
    /\ UNCHANGED <<stationVars, hbVars, sosVars, threadVars, joining, reverts>>

-----------------------------------------------------------------------------
BeaconTypeOK ==
    /\ {queueUp, call, grid, located, armed} \subseteq BOOLEAN
    /\ hbMode \in HbModes
    /\ {hbBeacon, sosBeacon, joining} \subseteq 0..MaxBeacons
    /\ pc \in [Beacon -> Pcs]
    /\ kind \in [Beacon -> Kinds]
    /\ stopped \in [Beacon -> BOOLEAN]
    /\ reverts \in 0..MaxReverts
    /\ sosRow \in {"none", "queued", "encoded", "failed"}
============================================================================
