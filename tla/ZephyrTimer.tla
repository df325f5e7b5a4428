----------------------------- MODULE ZephyrTimer -----------------------------
(***************************************************************************)
(* The Zephyr port's timer (blecon_zephyr_timer.c) on top of its event     *)
(* loop: a one-shot k_timer whose interrupt signals the library's timer    *)
(* event.  The library sets and cancels it under the loop's lock, on       *)
(* whatever thread called it.                                              *)
(***************************************************************************)
EXTENDS EventLoop

(* The event of blecon_timer_setup. *)
TimerEvent == 0

VARIABLES armed,   (* the k_timer runs                                     *)
          expired  (* history: it expired, and no callback has started since *)

timerVars == <<vars, armed, expired>>

TimerInit == Init /\ armed = FALSE /\ expired = FALSE

(* The library runs on t: in a callback, or between lock and unlock. *)
InLibrary(t) == depth[t] > 0

(* set_timeout: k_timer_start also restarts a timer that runs. *)
SetTimeout(t) ==
    /\ InLibrary(t)
    /\ TimerEvent < eventsCount
    /\ armed' = TRUE
    /\ UNCHANGED <<vars, expired>>

(* cancel_timeout: k_timer_stop leaves a signal given before it posted. *)
CancelTimeout(t) ==
    /\ InLibrary(t)
    /\ armed' = FALSE
    /\ UNCHANGED <<vars, expired>>

(* Fault: the event is signalled only if nobody holds the loop's lock. *)
OnTimeoutIfUnlocked ==
    /\ armed
    /\ IF owner = Nobody THEN Signal(TimerEvent) ELSE UNCHANGED vars
    /\ armed' = FALSE
    /\ expired' = TRUE

(* The k_timer's interrupt: blecon_timer_on_timeout signals the event. *)
OnTimeout ==
    /\ armed
    /\ Signal(TimerEvent)
    /\ armed' = FALSE
    /\ expired' = TRUE

(* A step of the loop or of its callers; nobody else signals the timer's   *)
(* event, and its callback answers the expiry.                             *)
LoopNext ==
    /\ Next
    /\ ~ Signal(TimerEvent)
    /\ expired' = (expired /\ ~ (OnRaised /\ p = TimerEvent))
    /\ UNCHANGED armed

TimerNext ==
    \/ LoopNext
    \/ \E t \in Lockers : SetTimeout(t) \/ CancelTimeout(t)
    \/ OnTimeout

TimerSpec == TimerInit /\ [][TimerNext]_timerVars /\ Fairness

(* An expiry that was not answered since is on its way to a callback: in   *)
(* the k_event or ahead in the snapshot that run() walks over.             *)
ExpiryPending == expired => Pending(TimerEvent) > 0

(* What blecon_timer.h lets one expect of cancel_timeout and set_timeout:  *)
(* no callback is due to a timeout that was cancelled or replaced.  The    *)
(* code leaves it to the library to ignore such a call.                    *)
NoStaleCallback ==
    [][\A t \in Lockers : SetTimeout(t) \/ CancelTimeout(t) => ~ expired]_timerVars
==============================================================================
