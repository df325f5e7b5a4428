------------------------------- MODULE Nrf5Timer -------------------------------
(***************************************************************************)
(* The nRF5 port's timer (blecon_nrf5_timer.c) on top of its event loop:   *)
(* a one-shot app timer that signals the library's timer event from its    *)
(* interrupt, and a monotonic clock kept by adding up the differences of   *)
(* an RTC that wraps around.  Main adds them up when it asks for the time, *)
(* and so does the interrupt of a repeated timer, without which a wrap     *)
(* could go by unseen.                                                     *)
(***************************************************************************)
EXTENDS Nrf5EventLoop, Integers

CONSTANTS MaxCount,   (* MAX_RTC_COUNTER_VAL                                 *)
          Latency,    (* bound on an interrupt's delay and on main's, ticks  *)
          MaxTime,    (* bound on the time modelled, in ticks                *)
          Timeouts,   (* the timeouts asked for, in thousandths of a second  *)
          WordSize,   (* the values of an unsigned long                      *)
          Thousand,   (* the thousandths of a second                         *)
          Frequency,  (* of the RTC: APP_TIMER_CLOCK_FREQ / (1 + prescaler)  *)
          MinTicks    (* the fewest ticks app_timer_start takes              *)

ASSUME ClockAssumption ==
    /\ {MaxCount, Thousand, Frequency, WordSize, MinTicks} \subseteq Nat \ {0}
    /\ {Latency, MaxTime} \subseteq Nat
    /\ Timeouts \subseteq 0 .. WordSize - 1
    /\ 4 * Latency <= MaxCount
    /\ MinTicks <= MaxCount
    /\ Frequency <= (Thousand * MaxCount) % WordSize

Modulus == MaxCount + 1
(* app_timer_cnt_diff_compute *)
Diff(to, from) == (to - from + Modulus) % Modulus

(* The event of blecon_timer_setup. *)
TimerEvent == 0

VARIABLES armed,     (* _timeout_timer_id runs                               *)
          refused,   (* app_timer_start refused a timeout, an assertion      *)
          now,       (* the ticks since setup; the RTC is this, modulo       *)
          ticks,     (* _monotonic_ticks                                     *)
          offset,    (* _rtc_ticks_offset                                    *)
          monitorAt, (* when the repeated timer expires next                 *)
          at,        (* where main is in update_monotonic_ticks,             *)
          count,     (* with its rtc_ticks,                                  *)
          change     (* and its rtc_ticks_diff, and then the sum to store    *)

clock     == <<now, ticks, offset, monitorAt, at, count, change>>
timer     == <<armed, refused>>
timerVars == <<vars, timer, clock>>

Rtc == now % Modulus

(* Fault: one look at every wrap. *)
MonitorOnce == MaxCount

(* MAX_RTC_COUNTER_VAL >> 1: two looks at every wrap of the RTC. *)
MonitorPeriod == MaxCount \div 2

TimerInit ==
    /\ Init
    /\ armed = FALSE /\ refused = FALSE
    /\ now = 0 /\ ticks = 0 /\ offset = 0 /\ monitorAt = MonitorPeriod
    /\ at = "idle" /\ count = 0 /\ change = 0

------------------------------------------------------------------------------
(* Timeouts.  The library runs on main, in the callback of an event or of  *)
(* the SoftDevice's observers.                                             *)

InLibrary == running # NoEvent /\ at = "idle"

(* The product in this bound is computed in an unsigned long; the last     *)
(* conjunct of the assumption keeps the difference from wrapping as well.  *)
LongestTimeout == ((Thousand * MaxCount) % WordSize) \div Frequency - 1

(* Fault: a short timeout is passed on as it is. *)
ToTicksUnbounded(ms) ==
    IF ms > LongestTimeout THEN MaxCount
    ELSE (ms * Frequency + Thousand \div 2) \div Thousand

(* set_timeout's ticks; APP_TIMER_TICKS rounds, with 64 bits. *)
ToTicks(ms) ==
    LET rounded == (ms * Frequency + Thousand \div 2) \div Thousand
        limited == IF ms > LongestTimeout THEN MaxCount ELSE rounded
    IN  IF limited < MinTicks THEN MinTicks ELSE limited

SetTimeout(ms) ==
    /\ InLibrary
    /\ TimerEvent < eventCount
    /\ IF ToTicks(ms) \in MinTicks .. MaxCount
       THEN armed' = TRUE /\ UNCHANGED refused
       ELSE armed' = FALSE /\ refused' = TRUE
    /\ UNCHANGED <<vars, clock>>

CancelTimeout ==
    /\ InLibrary
    /\ armed' = FALSE
    /\ UNCHANGED <<vars, refused, clock>>

(* The timer's interrupt signals the event. *)
OnTimeout ==
    /\ armed
    /\ Signal(TimerEvent)
    /\ armed' = FALSE
    /\ UNCHANGED <<refused, clock>>

------------------------------------------------------------------------------
(* The clock.  Main's update is cut where the interrupt can tell. *)

UpdateCount ==
    /\ InLibrary
    /\ at' = "counted"
    /\ count' = Rtc
    /\ UNCHANGED <<vars, timer, now, ticks, offset, monitorAt, change>>

UpdateDiff ==
    /\ at = "counted"
    /\ at' = "compared"
    /\ change' = Diff(count, offset)
    /\ UNCHANGED <<vars, timer, now, ticks, offset, monitorAt, count>>

(* _monotonic_ticks += rtc_ticks_diff, as a load ... *)
UpdateLoad ==
    /\ at = "compared"
    /\ at' = "loaded"
    /\ change' = ticks + change
    /\ UNCHANGED <<vars, timer, now, ticks, offset, monitorAt, count>>

(* ... and a store. *)
UpdateStore ==
    /\ at = "loaded"
    /\ at' = "stored"
    /\ ticks' = change
    /\ UNCHANGED <<vars, timer, now, offset, monitorAt, count, change>>

UpdateOffset ==
    /\ at = "stored"
    /\ at' = "idle"
    /\ offset' = count
    /\ count' = 0 /\ change' = 0
    /\ UNCHANGED <<vars, timer, now, ticks, monitorAt>>

(* monotonic_time_offset_monitor_handler: the same update, unpreempted.    *)
MonitorInterrupt ==
    /\ now >= monitorAt
    /\ ticks' = ticks + Diff(Rtc, offset)
    /\ offset' = Rtc
    /\ monitorAt' = monitorAt + MonitorPeriod
    /\ UNCHANGED <<vars, timer, now, at, count, change>>

(* Time passes; what is due is done within Latency. *)
Tick ==
    /\ now < MaxTime
    /\ now < monitorAt + Latency
    /\ at # "idle" => Diff(Rtc, count) < Latency
    /\ now' = now + 1
    /\ UNCHANGED <<vars, timer, ticks, offset, monitorAt, at, count, change>>

(* A step of the loop and its callers; nobody else signals this event, and *)
(* main is not in two places.                                              *)
LoopNext ==
    /\ Next
    /\ ~ Signal(TimerEvent)
    /\ at # "idle" => running' = running /\ eventCount' = eventCount
    /\ UNCHANGED <<timer, clock>>

TimerNext ==
    \/ LoopNext
    \/ \E ms \in Timeouts : SetTimeout(ms)
    \/ CancelTimeout
    \/ ~ failed /\ OnTimeout
    \/ UpdateCount \/ UpdateDiff \/ UpdateLoad \/ UpdateStore \/ UpdateOffset
    \/ MonitorInterrupt
    \/ Tick

(* Main runs, and an interrupt wakes it; time passes. *)
TimerSpec ==
    /\ TimerInit /\ [][TimerNext]_timerVars
    /\ WF_vars(~ failed /\ LoopStep)
    /\ WF_timerVars(UpdateDiff \/ UpdateLoad \/ UpdateStore \/ UpdateOffset)

------------------------------------------------------------------------------

(* The monotonic clock is never behind: no wrap of the RTC goes by unseen, *)
(* and no update of main or of the interrupt takes back what the other     *)
(* added.                                                                  *)
NeverSlow == at = "idle" => ticks + Diff(Rtc, offset) >= now

(* Types, and every timeout asked for is one that app_timer_start takes:   *)
(* the assertion on its error code does not fail.                          *)
TimerTypeOK ==
    /\ TypeOK
    /\ armed \in BOOLEAN
    /\ refused = FALSE
    /\ {now, ticks, monitorAt, change} \subseteq Nat
    /\ {offset, count} \subseteq 0 .. MaxCount
    /\ at \in {"idle", "counted", "compared", "loaded", "stored"}

(* What the clock should keep: the ticks since setup.  Violated: when the  *)
(* interrupt comes in the middle of main's update, ticks are counted twice *)
(* or, after UpdateCount, a whole wrap is added.                           *)
TimeKept == at = "idle" => ticks + Diff(Rtc, offset) = now

(* "Maximum timeout": the longest that the RTC can count.  Violated: the   *)
(* product wraps around, and a timeout the RTC could count is lengthened   *)
(* to MaxCount ticks.                                                      *)
LongestIsMaximum ==
    \A ms \in Timeouts : ms * Frequency <= MaxCount * Thousand =>
        ToTicks(ms) \in {MinTicks} \union 0 .. (ms * Frequency) \div Thousand + 1
==============================================================================
