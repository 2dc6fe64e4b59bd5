---------------------------- MODULE MCConsole ----------------------------
(***************************************************************************)
(* Values for TLC.  A scenario is a station and the keys and events of one *)
(* way to use the terminal; together they reach every handler.             *)
(***************************************************************************)
EXTENDS Console

MCPeers == {"A", "B"}
MCGroups == <<"@G">>

Station(keys, events, queue, hasCall, hasGrid, hasFix) ==
    [keys |-> keys, events |-> events, queue |-> queue, call |-> hasCall,
     grid |-> hasGrid, located |-> hasFix]
Fixed(keys, events) == Station(keys, events, TRUE, TRUE, TRUE, FALSE)

Along(from, to) == {Ring[i] : i \in from..to}
Hotkeys(ks) == ks \X Screens
Cancel == {"ESC", "CTRL_C"} \X {"SHUTTING_DOWN"}
Off(screens) == {"CTRL_X"} \X screens \cup Cancel

MCScenarios == {
    \* 1: setting up and being locked to SETUP, with shutdowns in between
    Station({"ENTER", "CHAR", "ESC", "CTRL_C", "TAB", "LEFT"} \X {"SETUP"}
                \cup Off(Screens) \cup Hotkeys({"CTRL_S", "CTRL_H"})
                \cup {"LEFT"} \X {"HOME", "EMERGENCY", "ALLCALL"},
            {}, TRUE, TRUE, FALSE, FALSE),
    \* 2: the buttons over shutdown, ring and editing
    Fixed(Off({"HOME", "SETUP", "INBOX"}) \cup Hotkeys({"CTRL_S"})
                   \cup {"ENTER"} \X {"SETUP"}, {"BUTTON"}),
    \* 3: heartbeats, then SOS as well
    Fixed({"CTRL_Q"} \X {"HOME"} \cup {"CTRL_H", "ENTER"} \X {"ALLCALL"}
                   \cup {"ENTER", "ESC", "UP"} \X {"HB_MODE_SELECT"}
                   \cup {"ENTER", "ESC"} \X {"EMERGENCY"}, {}),
    \* 4: heartbeats against the clean-up
    Fixed({"CTRL_Q"} \X {"HOME"} \cup {"ENTER"} \X {"ALLCALL"}
                   \cup {"ENTER", "DOWN"} \X {"HB_MODE_SELECT"}, {"STOP"}),
    \* 5: SOS with and without a position, and a stop
    Fixed({"CTRL_H"} \X {"HOME"} \cup {"ENTER", "ESC"} \X {"EMERGENCY"},
               {"GPS", "STOP"}),
    \* 6: no queue
    Station({"CTRL_Q"} \X {"HOME"} \cup {"CTRL_H", "ENTER", "UP", "DOWN"} \X {"ALLCALL"}
                \cup {"RIGHT", "DOWN"} \X {"HB_MODE_SELECT"}
                \cup {"ENTER", "ESC", "CTRL_S", "CTRL_Q"} \X {"EMERGENCY"},
            {}, FALSE, TRUE, TRUE, FALSE),
    \* 7: the emergency bypass of a station without identity
    Station({"TAB", "ENTER"} \X {"SETUP"} \cup {"ENTER"} \X {"EMERGENCY"},
            {"STOP"}, TRUE, FALSE, FALSE, TRUE),
    \* 8: reading and deleting mail while more arrives
    Fixed({"RIGHT"} \X Along(1, 3) \cup {"UP", "DOWN", "ENTER", "DELETE"} \X {"INBOX"}
                   \cup {"ESC", "DELETE"} \X {"INBOX_DETAIL"}
                   \cup Off({"INBOX", "INBOX_DETAIL"}), {"MAIL"}),
    \* 9: the same with statements that fail
    Fixed({"RIGHT"} \X Along(1, 3) \cup {"DOWN", "ENTER", "DELETE"} \X {"INBOX"}
                   \cup {"ESC", "DELETE"} \X {"INBOX_DETAIL"}, {"MAIL", "DB_FAILS"}),
    \* 10: composing with stations heard meanwhile
    Fixed({"RIGHT"} \X Along(1, 4) \cup {"LEFT"} \X {"COMPOSE"}
                   \cup {"TAB", "DOWN"} \X {"COMPOSE"}, {"HEARD"}),
    \* 11: typing, sending and storing
    Fixed({"RIGHT"} \X Along(1, 4)
                   \cup {"TAB", "UP", "CHAR", "BACKSPACE", "ENTER", "ESC"} \X {"COMPOSE"},
               {"DB_FAILS"}) }
==========================================================================
