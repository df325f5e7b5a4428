---------------------------- MODULE EventDelivery ----------------------------
(***************************************************************************)
(* What an event loop port promises the Blecon library, whatever the       *)
(* platform (include/blecon/port/blecon_event_loop.h): a signal given from *)
(* any context makes the main loop run the event's callback afterwards,    *)
(* callbacks run one at a time, and none runs that nobody asked for.       *)
(* Signals may merge: one call may serve all those given before it starts. *)
(***************************************************************************)
EXTENDS Naturals

CONSTANTS Events,   (* the events a component may register                 *)
          NoEvent   (* not an event: no callback runs                      *)

VARIABLES owed,     (* the events signalled and not called back since      *)
          pending,  (* for each event, the calls the loop still has to make *)
          running   (* the event whose callback runs in the main loop      *)

vars == <<owed, pending, running>>

Init ==
    /\ owed = {}
    /\ pending = [e \in Events |-> 0]
    /\ running = NoEvent

(* blecon_event_signal: one more call, or the one already to come. *)
Signal(e) ==
    /\ owed' = owed \union {e}
    /\ \/ pending' = [pending EXCEPT ![e] = @ + 1]
       \/ pending[e] > 0 /\ UNCHANGED pending
    /\ UNCHANGED running

(* blecon_event_on_raised: the callback starts and answers the signals. *)
Raise(e) ==
    /\ running = NoEvent
    /\ pending[e] > 0
    /\ pending' = [pending EXCEPT ![e] = @ - 1]
    /\ owed' = owed \ {e}
    /\ running' = e

(* The callback returns to the main loop. *)
Return ==
    /\ running # NoEvent
    /\ running' = NoEvent
    /\ UNCHANGED <<owed, pending>>

Next ==
    \/ \E e \in Events : Signal(e) \/ Raise(e)
    \/ Return

Spec == Init /\ [][Next]_vars

(* No signal is lost: an event owed a call has one to come. *)
NoSignalLost == \A e \in owed : pending[e] > 0
==============================================================================
