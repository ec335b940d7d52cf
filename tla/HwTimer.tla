------------------------------- MODULE HwTimer -------------------------------
(***************************************************************************)
(* The periodic timer that blinks the warning lamp (LED0) and sounds the   *)
(* buzzer: TIM3 behind the RT-Thread device layer, the callback of         *)
(* my_hwtimer.c and the two pins that the callback toggles.                *)
(*                                                                         *)
(* The whole of it is one record t; an operator maps a record to the       *)
(* record after one access of the code.  A caller that can be preempted    *)
(* applies the accesses one by one, a caller that cannot applies OpenTimer *)
(* or CloseTimer.                                                          *)
(*                                                                         *)
(*   hw_dev   the handle my_hwtimer.c found (FALSE is RT_NULL)             *)
(*   active   RT_DEVICE_FLAG_ACTIVATED                                     *)
(*   open     RT_DEVICE_OFLAG_OPEN                                         *)
(*   ref      ref_count of the device                                      *)
(*   rx       rx_indicate is my_timeout_cb (FALSE is RT_NULL)              *)
(*   mode     software mode of the hwtimer                                 *)
(*   running  TIM3 counts and its update interrupt is enabled              *)
(*   ret      the file-level "ret" of my_hwtimer.c (TRUE is RT_EOK)        *)
(*   led0     level of LED0_PIN (the lamp is lit at level 0)               *)
(*   beep     level of BEEP_PIN (the buzzer sounds at level 1)             *)
(***************************************************************************)
EXTENDS Naturals

CONSTANT RefMax   \* largest ref_count: 255, it is a uint8_t

ASSUME RefAssumption == RefMax \in Nat \ {0}

Level == {0, 1}
PIN_LOW == 0
PIN_HIGH == 1

TimerType ==
    [hw_dev : BOOLEAN, active : BOOLEAN, open : BOOLEAN, ref : 0 .. RefMax,
     rx : BOOLEAN, mode : {"ONESHOT", "PERIOD"}, running : BOOLEAN,
     ret : BOOLEAN, led0 : Level, beep : Level]

(* After my_GPIO_Init: lamp and buzzer off, the timer never opened.        *)
TimerInit ==
    [hw_dev |-> FALSE, active |-> FALSE, open |-> FALSE, ref |-> 0,
     rx |-> FALSE, mode |-> "ONESHOT", running |-> FALSE,
     ret |-> TRUE, led0 |-> PIN_HIGH, beep |-> PIN_LOW]

----------------------------------------------------------------------------
(* rt_device_find: TIM3 is registered at boot.                             *)
DeviceFind(t) == [t EXCEPT !.hw_dev = TRUE]

(* device_init of an inactive device, access by access: the mode; the      *)
(* control register of TIM3, stored as it was loaded (a timer that was     *)
(* started or stopped in between does not run); the ACTIVATED flag.        *)
InitMode(t) == [t EXCEPT !.mode = "ONESHOT"]
InitStore(t, counting) == [t EXCEPT !.running = @ /\ counting]
InitDone(t) == [t EXCEPT !.active = TRUE]

DeviceInit(t) == IF t.active THEN t ELSE InitDone(InitMode(t))

(* The timer is registered STANDALONE: a second open is refused.           *)
OpenBusyNever(t) == FALSE
OpenBusy(t) == t.open

OpenFlag(t) == [t EXCEPT !.open = TRUE]

(* ref_count++ and ref_count--, as the store of what was loaded; both      *)
(* wrap around.                                                            *)
RefMore(t, loaded) ==
    [t EXCEPT !.ref = IF loaded = RefMax THEN 0 ELSE loaded + 1]
RefLessSigned(t, loaded) == [t EXCEPT !.ref = loaded - 1]
RefLess(t, loaded) ==
    [t EXCEPT !.ref = IF loaded = 0 THEN RefMax ELSE loaded - 1]

(* RT_ASSERT(dev->ref_count != 0) after the increment: the board is built  *)
(* with RT_DEBUG, a failed assertion spins for ever.                       *)
AssertFails(t) == t.ref = 0

Result(t, ok) == [t EXCEPT !.ret = ok]

SetRxIndicate(t) == [t EXCEPT !.rx = TRUE]

(* rt_device_control(MODE_SET, PERIOD).                                    *)
ControlModeLost(t) == t
ControlMode(t) == [t EXCEPT !.mode = "PERIOD"]

(* rt_device_write does nothing on a device nobody holds open; otherwise   *)
(* it stops TIM3 and starts it with the 0.1 s timeout.                     *)
WriteIdle(t) == t.ref = 0
WriteTimeout(t) == [t EXCEPT !.running = TRUE]

(* my_hwtimer_openTimer without interruption.                              *)
OpenHeld(t) == RefMore(OpenFlag(t), t.ref)
OpenRest(t) == WriteTimeout(ControlMode(SetRxIndicate(Result(t, TRUE))))

OpenTimer(t) ==
    LET i == DeviceInit(DeviceFind(t))
        h == OpenHeld(i)
    IN  IF OpenBusy(i) THEN Result(i, FALSE)
        ELSE IF AssertFails(h) THEN h ELSE OpenRest(h)

(* It runs into the assertion.                                             *)
OpenSpins(t) == ~OpenBusy(t) /\ AssertFails(OpenHeld(t))

----------------------------------------------------------------------------
(* my_hwtimer_closeTimer returns early on a RT_NULL handle and             *)
(* rt_device_close on a device nobody holds open.                          *)
CloseIdle(t) == ~t.hw_dev \/ t.ref = 0

CloseRefused(t) == IF t.hw_dev THEN Result(t, FALSE) ELSE t

(* The driver is closed only by the last user.                             *)
CloseShared(t) == t.ref # 0

(* rt_hwtimer_close (timer_init with state 0 does not stop TIM3): the      *)
(* ACTIVATED flag, the callback; then the open flag.                       *)
CloseActive(t) == [t EXCEPT !.active = FALSE]
CloseKeepsRx(t) == t
CloseRx(t) == [t EXCEPT !.rx = FALSE]
CloseFlag(t) == [t EXCEPT !.open = FALSE]

(* my_hwtimer_closeTimer without interruption.                             *)
CloseTimer(t) ==
    LET d == RefLess(t, t.ref)
    IN  IF CloseIdle(t) THEN CloseRefused(t)
        ELSE IF CloseShared(d) THEN Result(d, TRUE)
        ELSE Result(CloseFlag(CloseRx(CloseActive(d))), TRUE)

----------------------------------------------------------------------------
LampUntouched(t) == t
LampOff(t) == [t EXCEPT !.led0 = PIN_HIGH]
BuzzerOff(t) == [t EXCEPT !.beep = PIN_LOW]

(* my_timeout_cb: both pins change level.                                  *)
my_timeout_cb(t) == [t EXCEPT !.led0 = 1 - @, !.beep = 1 - @]

(* rt_device_hwtimer_isr when the cycle count runs out: ONESHOT stops      *)
(* TIM3, a registered callback is called.                                  *)
TimerIsr(t) ==
    LET s == IF t.mode = "ONESHOT" THEN [t EXCEPT !.running = FALSE] ELSE t
    IN  IF s.rx THEN my_timeout_cb(s) ELSE s

(* The timer part of beep_change, uninterrupted.                           *)
BeepTimer(t, state) ==
    IF state THEN OpenTimer(t) ELSE BuzzerOff(LampOff(CloseTimer(t)))

----------------------------------------------------------------------------
(* The siren is in force: the callback is installed, TIM3 runs and will    *)
(* not stop by itself, and one close will silence it.                      *)
SirenOn(t) ==
    /\ t.hw_dev /\ t.active /\ t.open /\ t.ref = 1
    /\ t.rx /\ t.mode = "PERIOD" /\ t.running

(* The siren is off and stays off: nobody holds the timer, no callback.    *)
SirenOff(t) ==
    /\ ~t.active /\ ~t.open /\ t.ref = 0 /\ ~t.rx
    /\ t.beep = PIN_LOW
=============================================================================
