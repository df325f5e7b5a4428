------------------------------ MODULE DevboardDemo ------------------------------
(***************************************************************************)
(* The devboard-demo example: shell commands that make a request, announce *)
(* the device or ping, and an LED that shows what goes on (blecon_led.c).  *)
(* The LED has a thread of its own, which the others set variables for and *)
(* wake by a semaphore of one: main, the Bluetooth host's receive thread   *)
(* rx and its work queue wq, the input thread, and the interrupt of the    *)
(* announcement's timer.                                                   *)
(***************************************************************************)
EXTENDS Requests

VARIABLES
    making,     (* _making_request                                           *)
    main,       (* what main has still to do in the command it is in         *)
    timer,      (* announce_timer runs                                       *)
    announcing, (* _is_announcing                                            *)
    activity,   (* _data_activity                                            *)
    shown,      (* _connection_state                                         *)
    giving,     (* the threads that have set a variable and not yet given    *)
    sem,        (* blecon_led_sem                                            *)
    pc,         (* where the LED's thread is                                 *)
    forever,    (* its next_frame_time is K_FOREVER                          *)
    frame,      (* pattern_frame % 2                                         *)
    lit         (* the LED is on                                             *)

setVars  == <<announcing, activity, shown, giving, sem>>
ledVars  == <<pc, forever, frame, lit>>
demoVars == <<making, main, timer, setVars, ledVars>>

ShownState == {"disconnected", "connecting", "connected"}

DemoTypeOK ==
    /\ making \in BOOLEAN /\ timer \in BOOLEAN
    /\ announcing \in BOOLEAN /\ activity \in BOOLEAN
    /\ forever \in BOOLEAN /\ lit \in BOOLEAN
    /\ main \in {"idle", "initiated", "announced"}
    /\ shown \in ShownState
    /\ giving \subseteq {"main", "rx", "wq", "input"}
    /\ sem \in 0 .. 1
    /\ pc \in {"wait", "decide", "connected", "clear"}
    /\ frame \in 0 .. 1

DemoInit ==
    /\ making = FALSE /\ main = "idle" /\ timer = FALSE
    /\ announcing = FALSE /\ activity = FALSE /\ shown = "disconnected"
    /\ giving = {} /\ sem = 0
    /\ pc = "decide" /\ forever = FALSE /\ frame = 0 /\ lit = FALSE

------------------------------------------------------------------------------
(* blecon_led.c *)

(* A setter by a thread: the variable is set, and then the semaphore given. *)
MayRun(who) == who \notin giving

Sets(who, a, d, s) ==
    /\ announcing' = a /\ activity' = d /\ shown' = s
    /\ giving' = giving \union {who}
    /\ UNCHANGED sem

DataActivity(who)          == Sets(who, announcing, TRUE, shown)
SetConnectionState(who, s) == Sets(who, announcing, activity, s)

(* k_sem_give; its limit is 1. *)
Gives(who) ==
    /\ who \in giving
    /\ giving' = giving \ {who}
    /\ sem' = 1
    /\ UNCHANGED <<announcing, activity, shown, making, main, timer, ledVars>>

(* blecon_led_thread_entry: k_sem_take, by the semaphore or its timeout.   *)
LedTakes ==
    /\ pc = "wait"
    /\ sem = 1 \/ ~ forever
    /\ pc' = "decide"
    /\ sem' = 0
    /\ UNCHANGED <<announcing, activity, shown, giving, forever, frame, lit, making, main, timer>>

(* An announcement, and then no connection, show a pattern of two frames.  *)
LedDecides ==
    /\ pc = "decide"
    /\ IF announcing \/ shown # "connected"
       THEN /\ lit' = (frame = 0)
            /\ frame' = 1 - frame
            /\ pc' = "wait" /\ forever' = FALSE
       ELSE pc' = "connected" /\ UNCHANGED <<lit, frame, forever>>
    /\ UNCHANGED <<setVars, making, main, timer>>

(* Fault: the semaphore is reset before the thread sleeps. *)
LedConnectedResets ==
    /\ pc = "connected"
    /\ IF activity
       THEN lit' = FALSE /\ pc' = "clear" /\ UNCHANGED <<frame, forever, sem>>
       ELSE lit' = TRUE /\ frame' = 1 /\ pc' = "wait" /\ forever' = TRUE /\ sem' = 0
    /\ UNCHANGED <<announcing, activity, shown, giving, making, main, timer>>

(* A connection shows a steady light, which data interrupts. *)
LedConnected ==
    /\ pc = "connected"
    /\ IF activity
       THEN lit' = FALSE /\ pc' = "clear" /\ UNCHANGED <<frame, forever>>
       ELSE lit' = TRUE /\ frame' = 1 /\ pc' = "wait" /\ forever' = TRUE
    /\ UNCHANGED <<setVars, making, main, timer>>

(* Fault: the data is not marked as shown. *)
LedClearsNothing ==
    /\ pc = "clear"
    /\ activity' = activity
    /\ pc' = "wait" /\ forever' = FALSE
    /\ UNCHANGED <<announcing, shown, giving, sem, frame, lit, making, main, timer>>

LedClears ==
    /\ pc = "clear"
    /\ activity' = FALSE
    /\ pc' = "wait" /\ forever' = FALSE
    /\ UNCHANGED <<announcing, shown, giving, sem, frame, lit, making, main, timer>>

------------------------------------------------------------------------------
(* main.c *)

(* The host's callbacks: a link is reported on its receive thread, the end *)
(* of one on its work queue.                                               *)
ZephyrBtConnected ==
    /\ MayRun("rx")
    /\ LinkUp
    /\ SetConnectionState("rx", "connected")
    /\ UNCHANGED <<requestVars, making, main, timer, ledVars>>

ZephyrBtDisconnected ==
    /\ MayRun("wq")
    /\ LinkDown
    /\ SetConnectionState("wq", "disconnected")
    /\ UNCHANGED <<requestVars, making, main, timer, ledVars>>

OnInput ==
    /\ MayRun("input")
    /\ DataActivity("input")
    /\ UNCHANGED <<libVars, making, main, timer, ledVars>>

MainIdle == main = "idle" /\ MayRun("main")

(* cmd_blecon_request_event and cmd_blecon_ping_event, to the call that    *)
(* initiates the connection; it may fail, and then nothing is shown.       *)
RequestCommand ==
    /\ MainIdle
    /\ making' = TRUE
    /\ \/ Initiate /\ main' = "initiated"
       \/ UNCHANGED <<link, main>>
    /\ Leave(<<>>, "clean")
    /\ UNCHANGED <<timer, setVars, ledVars>>

PingCommand ==
    /\ MainIdle
    /\ Initiate
    /\ main' = "initiated"
    /\ UNCHANGED <<requestVars, making, timer, setVars, ledVars>>

(* ... and from there on. *)
ShowsConnecting ==
    /\ main = "initiated"
    /\ main' = "idle"
    /\ SetConnectionState("main", "connecting")
    /\ UNCHANGED <<libVars, making, timer, ledVars>>

(* cmd_blecon_announce_event: the LED is set, then the timer started.      *)
AnnounceCommand ==
    /\ MainIdle
    /\ main' = "announced"
    /\ Sets("main", TRUE, activity, shown)
    /\ UNCHANGED <<libVars, making, timer, ledVars>>

(* Fault: the timer is not started. *)
StartsNoTimer ==
    /\ main = "announced" /\ MayRun("main")
    /\ main' = "idle"
    /\ timer' = timer
    /\ UNCHANGED <<libVars, making, setVars, ledVars>>

StartsTimer ==
    /\ main = "announced" /\ MayRun("main")
    /\ main' = "idle"
    /\ timer' = TRUE
    /\ UNCHANGED <<libVars, making, setVars, ledVars>>

(* announce_timeout, in an interrupt. *)
AnnounceTimeout ==
    /\ timer
    /\ timer' = FALSE
    /\ announcing' = FALSE /\ sem' = 1
    /\ UNCHANGED <<libVars, making, main, activity, shown, giving, ledVars>>

(* example_on_connection: a request that is wanted is sent, unless the     *)
(* library refuses one of its operations.                                  *)
DemoOnConnection ==
    /\ MainIdle
    /\ Connected
    /\ \/ ~ making /\ UNCHANGED <<requestVars, making>>
       \/ making /\ Leave(<<>>, "clean") /\ UNCHANGED making
       \/ /\ making
          /\ Leave(<<[op |-> 0, from |-> 0, to |-> 1, finished |-> TRUE]>>, "submitted")
          /\ making' = FALSE
    /\ UNCHANGED <<main, timer, setVars, ledVars>>

DemoOnDataSent(o) ==
    /\ MainIdle
    /\ DataSent(o)
    /\ ops' = Tail(ops) /\ got' = o.to /\ complete' = o.finished
    /\ DataActivity("main")
    /\ UNCHANGED <<link, request, making, main, timer, ledVars>>

DemoOnDataReceived ==
    /\ MainIdle
    /\ DataReceived
    /\ DataActivity("main")
    /\ UNCHANGED <<making, main, timer, ledVars>>

(* The callbacks that touch nothing of the LED. *)
DemoOnOther ==
    /\ MainIdle
    /\ \/ Closed(FALSE)
       \/ Disconnected
       \/ \E i \in DOMAIN ops : DataFailed(ops[i])
    /\ UNCHANGED demoVars

DemoLed == LedTakes \/ LedDecides \/ LedConnected \/ LedClears

DemoGives == \E who \in giving : Gives(who)

DemoNext ==
    \/ (DemoLed \/ DemoGives) /\ UNCHANGED libVars
    \/ ZephyrBtConnected \/ ZephyrBtDisconnected
    \/ ShowsConnecting \/ StartsTimer \/ AnnounceTimeout
    \/ DemoOnConnection \/ DemoOnDataReceived \/ DemoOnOther
    \/ \E o \in {ops[i] : i \in DOMAIN ops} : DemoOnDataSent(o)

------------------------------------------------------------------------------

(* The LED's thread never sleeps through a change: when it has gone to     *)
(* sleep for good and nobody is about to wake it, the light is on, for a   *)
(* connection, with no announcement and no data to be shown.               *)
NoWakeupLost ==
    pc = "wait" /\ forever /\ sem = 0 /\ giving = {} =>
        lit /\ shown = "connected" /\ ~ announcing /\ ~ activity

(* A light that is interrupted by data comes on again: once a connection   *)
(* is shown for good it ends up steady.                                    *)
LedSettles == <>[](shown = "connected" /\ ~ announcing) => <>[]lit

(* What is announced is some day not announced any more.                   *)
AnnouncementEnds == announcing ~> ~ announcing

(* The LED shows an announcement for as long as its timer runs.  The       *)
(* interrupt of an earlier announcement may come between the two calls of  *)
(* a later one, which is then not shown.                                   *)
AnnouncementShown == timer => announcing

(* The LED does not show a connection attempt when there is a connection;  *)
(* the receive thread may report it before main sets "connecting".         *)
ConnectionShown == link = "up" /\ MainIdle /\ giving = {} => shown = "connected"
==================================================================================
