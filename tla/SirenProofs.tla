---------------------------- MODULE SirenProofs ----------------------------
(***************************************************************************)
(* The siren: alarm record, timer, buzzer and warning lamp.                *)
(***************************************************************************)
EXTENDS AutoControlProofs

(* What the loop relies on inside beep_change, access by access.           *)
Free(t) == t.hw_dev /\ ~t.open /\ t.ref = 0
Sounding(t) == t.hw_dev /\ t.active /\ t.open /\ t.ref = 1
Periodic(t) == Sounding(t) /\ t.rx /\ t.mode = "PERIOD"
Released(t) == ~t.active /\ ~t.open /\ t.ref = 0 /\ ~t.rx

OpenAt ==
    /\ pc = "open2" => timer.hw_dev
    /\ pc \in {"init1", "init2", "init3", "init4"} => Free(timer)
    /\ pc = "open3" => SirenOn(timer) \/ (Free(timer) /\ timer.active)
    /\ pc = "busy" => SirenOn(timer)
    /\ pc = "open4" => Free(timer) /\ timer.active
    /\ pc \in {"open5", "open6"} =>
          timer.hw_dev /\ timer.active /\ timer.open /\ timer.ref = 0
    /\ pc = "open6" => reg = 0
    /\ pc \in {"open7", "open8", "rx"} => Sounding(timer)
    /\ pc = "ret1" => IF timer.ret THEN Sounding(timer) ELSE SirenOn(timer)
    /\ pc = "mode" => Sounding(timer) /\ timer.rx
    /\ pc \in {"ret", "ret2", "write1", "write2"} => Periodic(timer)
    /\ pc = "ret2" => timer.ret
    /\ pc # "asserted"

CloseAt ==
    /\ pc \in {"close2", "close3"} => SirenOn(timer)
    /\ pc = "close3" => reg = 1
    /\ pc \in {"close4", "close5", "close6", "close7"} => timer.ref = 0
    /\ pc \in {"close6", "close7"} => ~timer.active
    /\ pc = "close7" => ~timer.rx
    /\ pc \in {"lamp", "buzzer"} => Released(timer)

RestAt ==
    /\ pc \in {"led0", "beep"} =>
          IF state THEN SirenOn(timer) ELSE SirenOff(timer)
    /\ ~Inside("siren") =>
          IF my_devices.Beep_State THEN SirenOn(timer) ELSE SirenOff(timer)

SirenAt == OpenAt /\ CloseAt /\ RestAt

(* The branch of beep_change follows its argument, and the timer is as the *)
(* branch needs it until a callback cuts in; nobody runs into the          *)
(* assertion of rt_device_open until then.                                 *)
SirenInv ==
    /\ pc \in Opening \union {"open1", "open2"} => state
    /\ pc \in Closing \union {"close1"} => ~state
    /\ "siren" \notin stray => SirenAt /\ pc # "starved"

(* The lamp is dark from the moment the loop switched it off.              *)
LampInv ==
    {"siren", "lamp"} \intersect stray = {} =>
        /\ pc = "buzzer" => timer.led0 = PIN_HIGH
        /\ pc \in {"led0", "beep"} /\ ~state => timer.led0 = PIN_HIGH
        /\ ~Inside("siren") /\ ~my_devices.Beep_State => timer.led0 = PIN_HIGH

----------------------------------------------------------------------------
(* my_hwtimer_openTimer, uninterrupted, on a timer that is in force or     *)
(* released leaves it in force, and does not run into the assertion.       *)
LEMMA OpenSounds ==
    ASSUME NEW t \in TimerType, SirenOn(t) \/ SirenOff(t)
    PROVE  SirenOn(OpenTimer(t)) /\ ~OpenSpins(t)
  <1> DEFINE i == DeviceInit(DeviceFind(t))
             h == OpenHeld(i)
  <1>0. OpenTimer(t) = IF OpenBusy(i) THEN Result(i, FALSE)
                       ELSE IF AssertFails(h) THEN h ELSE OpenRest(h)
    BY DEF OpenTimer
  <1>1. CASE SirenOn(t)
    <2>1. i = DeviceFind(t)  BY <1>1 DEF DeviceInit, DeviceFind, SirenOn, TimerType
    <2>2. SirenOn(i) /\ i \in TimerType
      BY <1>1, <2>1 DEF DeviceFind, SirenOn, TimerType
    <2> HIDE DEF i
    <2>3. OpenTimer(t) = Result(i, FALSE)  BY <1>0, <2>2 DEF OpenBusy, SirenOn
    <2>4. SirenOn(Result(i, FALSE))  BY <2>2 DEF Result, SirenOn, TimerType
    <2>5. ~OpenSpins(t)  BY <1>1 DEF OpenSpins, OpenBusy, SirenOn
    <2> QED  BY <2>3, <2>4, <2>5
  <1>2. CASE SirenOff(t)
    <2>1. i \in TimerType /\ Free(i) /\ i.active
      <3>1. i = InitDone(InitMode(DeviceFind(t)))
        BY <1>2 DEF DeviceInit, DeviceFind, SirenOff, TimerType
      <3> QED  BY <1>2, <3>1 DEF InitDone, InitMode, DeviceFind, Free, SirenOff, TimerType
    <2> HIDE DEF i
    <2>2. h \in TimerType /\ Sounding(h)
      <3> DEFINE o == OpenFlag(i)
      <3>1. o \in TimerType /\ o.hw_dev /\ o.active /\ o.open
        BY <2>1 DEF OpenFlag, Free, TimerType
      <3>2. h = RefMore(o, 0)  BY <2>1 DEF OpenHeld, Free
      <3> HIDE DEF o
      <3>3. h = [o EXCEPT !.ref = 1]  BY <3>2, RefAssumption DEF RefMore
      <3> QED  BY <3>1, <3>3, RefAssumption DEF Sounding, TimerType
    <2> HIDE DEF h
    <2>3. OpenTimer(t) = OpenRest(h)
      BY <1>0, <2>1, <2>2 DEF OpenBusy, Free, AssertFails, Sounding
    <2>4. SirenOn(OpenRest(h))
      BY <2>2 DEF OpenRest, Result, SetRxIndicate, ControlMode, WriteTimeout,
                  SirenOn, Sounding, TimerType
    <2>5. ~OpenSpins(t)
      BY <1>2, RefAssumption
         DEF OpenSpins, OpenHeld, OpenFlag, RefMore, AssertFails, SirenOff, TimerType
    <2> QED  BY <2>3, <2>4, <2>5
  <1> QED  BY <1>1, <1>2

(* my_hwtimer_closeTimer and the two pin writes, uninterrupted, leave the  *)
(* timer released, the buzzer silent and the lamp dark.                    *)
LEMMA CloseSilences ==
    ASSUME NEW t \in TimerType, SirenOn(t) \/ SirenOff(t)
    PROVE  LET r == BuzzerOff(LampOff(CloseTimer(t)))
           IN  SirenOff(r) /\ r.led0 = PIN_HIGH
  <1> DEFINE c == CloseTimer(t)
  <1>1. c \in TimerType /\ Released(c)
    <2>1. CASE SirenOn(t)
      <3> DEFINE d == RefLess(t, t.ref)
      <3>1. d \in TimerType /\ d.ref = 0
        BY <2>1, RefAssumption DEF SirenOn, RefLess, TimerType
      <3>2. c = Result(CloseFlag(CloseRx(CloseActive(d))), TRUE)
        <4>1. ~CloseIdle(t)  BY <2>1 DEF SirenOn, CloseIdle
        <4>2. ~CloseShared(d)  BY <3>1 DEF CloseShared
        <4> QED  BY <4>1, <4>2 DEF CloseTimer
      <3> HIDE DEF d
      <3> DEFINE e == CloseRx(CloseActive(d))
      <3>3. e \in TimerType /\ e.ref = 0 /\ ~e.active /\ ~e.rx
        BY <3>1 DEF CloseRx, CloseActive, TimerType
      <3>4. c = Result(CloseFlag(e), TRUE)  BY <3>2
      <3> HIDE DEF e, c
      <3>5. c \in TimerType /\ Released(c)
        BY <3>3, <3>4 DEF Result, CloseFlag, Released, TimerType
      <3> QED  BY <3>5
    <2>2. CASE SirenOff(t)
      <3>1. c = CloseRefused(t)  BY <2>2 DEF SirenOff, CloseIdle, CloseTimer
      <3>2. c \in TimerType  BY <3>1, TimerOps
      <3>3. Released(c)
        BY <2>2, <3>1 DEF CloseRefused, Result, SirenOff, Released, TimerType
      <3> QED  BY <3>2, <3>3
    <2> QED  BY <2>1, <2>2
  <1>2. ASSUME NEW k \in TimerType, Released(k)
        PROVE  SirenOff(BuzzerOff(LampOff(k)))
               /\ BuzzerOff(LampOff(k)).led0 = PIN_HIGH
    BY <1>2 DEF BuzzerOff, LampOff, Released, SirenOff, TimerType
  <1> QED  BY <1>1, <1>2

(* The handle is kept.                                                     *)
LEMMA CloseKeepsHandle ==
    ASSUME NEW t \in TimerType
    PROVE  CloseTimer(t).hw_dev = t.hw_dev
  <1> USE DEF Result, CloseRefused, CloseFlag, CloseRx, CloseActive, RefLess
  <1> DEFINE d == RefLess(t, t.ref)
  <1>1. d.hw_dev = t.hw_dev  BY DEF TimerType
  <1>2. CASE CloseIdle(t)  BY <1>2 DEF CloseTimer, TimerType
  <1>3. CASE ~CloseIdle(t) /\ CloseShared(d)
    BY <1>1, <1>3 DEF CloseTimer
  <1>4. CASE ~CloseIdle(t) /\ ~CloseShared(d)
    BY <1>1, <1>4 DEF CloseTimer
  <1> QED  BY <1>2, <1>3, <1>4

(* The interrupt keeps everything but the pins and, in ONESHOT mode, the   *)
(* running timer; without a callback it keeps the pins too.                *)
LEMMA IsrKeeps ==
    ASSUME NEW t \in TimerType
    PROVE  LET s == TimerIsr(t)
           IN  /\ s.hw_dev = t.hw_dev /\ s.active = t.active /\ s.open = t.open
               /\ s.ref = t.ref /\ s.rx = t.rx /\ s.mode = t.mode
               /\ s.ret = t.ret
               /\ t.mode = "PERIOD" => s.running = t.running
               /\ ~t.rx => s.led0 = t.led0 /\ s.beep = t.beep
  BY DEF TimerIsr, my_timeout_cb, TimerType
----------------------------------------------------------------------------
LEMMA SirenOpen == TypeInv /\ SirenInv /\ BellOpen => SirenInv'
  <1> SUFFICES ASSUME TypeInv, SirenInv, BellOpen  PROVE SirenInv'
    OBVIOUS
  <1>1. UNCHANGED <<state, stray, my_devices>> /\ timer \in TimerType
    BY BellOpenFrame DEF TypeInv, TypeOK
  <1>2. /\ pc \in Opening \union {"open1", "open2"} /\ state
        /\ pc' \in Opening \union {"open2", "led0", "asserted"}
    BY BellOpenFrame DEF SirenInv
  <1>3. ASSUME "siren" \notin stray  PROVE SirenAt'
    <2> USE DEF Goes, Tests, Loads, Stores, Bell, Inside, Opening, Closing
    <2>1. OpenAt /\ RestAt /\ pc # "starved"  BY <1>3 DEF SirenInv, SirenAt
    <2>2. CloseAt'  BY <1>2 DEF CloseAt
    <2>3. CASE pc = "open1"
      <3>1. pc' = "open2" /\ timer' = DeviceFind(timer)  BY <2>3 DEF BellOpen
      <3>2. /\ timer'.hw_dev
            /\ SirenOn(timer) => SirenOn(timer')
            /\ SirenOff(timer) => SirenOff(timer')
        BY <1>1, <3>1 DEF DeviceFind, SirenOn, SirenOff, TimerType
      <3>3. OpenAt'  BY <3>1, <3>2 DEF OpenAt
      <3>4. RestAt'  BY <1>1, <2>1, <2>3, <3>1, <3>2 DEF RestAt
      <3> QED  BY <2>2, <3>3, <3>4 DEF SirenAt
    <2>4. CASE pc = "open2"
      <3>1. /\ pc' = IF timer.active THEN "open3" ELSE "init1"
            /\ timer' = timer
        BY <2>4 DEF BellOpen
      <3>2. timer.hw_dev /\ (SirenOn(timer) \/ SirenOff(timer))
        BY <2>1, <2>4 DEF OpenAt, RestAt
      <3>3. CASE timer.active
        BY <2>2, <3>1, <3>2, <3>3 DEF SirenAt, OpenAt, RestAt, SirenOff
      <3>4. CASE ~timer.active
        BY <2>2, <3>1, <3>2, <3>4 DEF SirenAt, OpenAt, RestAt, SirenOn, SirenOff, Free
      <3> QED  BY <3>3, <3>4
    <2>5. CASE pc \in {"init1", "init2", "init3", "init4"}
      <3>1. /\ timer' \in {timer, InitMode(timer), InitStore(timer, reg = 1),
                           InitDone(timer)}
            /\ pc' \in {"init2", "init3", "init4", "open3"}
            /\ pc' = "open3" => timer' = InitDone(timer)
        BY <2>5 DEF BellOpen
      <3>2. Free(timer)  BY <2>1, <2>5 DEF OpenAt
      <3>3. Free(timer')
        BY <1>1, <3>1, <3>2 DEF InitMode, InitStore, InitDone, Free, TimerType
      <3>4. pc' = "open3" => timer'.active  BY <1>1, <3>1 DEF InitDone, TimerType
      <3> QED  BY <2>2, <3>1, <3>3, <3>4 DEF SirenAt, OpenAt, RestAt
    <2>6. CASE pc = "open3"
      <3>1. /\ pc' = IF timer.open THEN "busy" ELSE "open4"
            /\ timer' = timer
        BY <2>6 DEF BellOpen, OpenBusy
      <3>2. SirenOn(timer) \/ (Free(timer) /\ timer.active)
        BY <2>1, <2>6 DEF OpenAt
      <3> QED  BY <2>2, <3>1, <3>2 DEF SirenAt, OpenAt, RestAt, SirenOn, Free
    <2>7. CASE pc = "busy"
      <3>1. pc' = "ret1" /\ timer' = Result(timer, FALSE)  BY <2>7 DEF BellOpen
      <3>2. SirenOn(timer)  BY <2>1, <2>7 DEF OpenAt
      <3>3. SirenOn(timer') /\ ~timer'.ret
        BY <1>1, <3>1, <3>2 DEF Result, SirenOn, TimerType
      <3> QED  BY <2>2, <3>1, <3>3 DEF SirenAt, OpenAt, RestAt
    <2>8. CASE pc = "open4"
      <3>1. pc' = "open5" /\ timer' = OpenFlag(timer)  BY <2>8 DEF BellOpen
      <3>2. Free(timer) /\ timer.active  BY <2>1, <2>8 DEF OpenAt
      <3>3. timer'.hw_dev /\ timer'.active /\ timer'.open /\ timer'.ref = 0
        BY <1>1, <3>1, <3>2 DEF OpenFlag, Free, TimerType
      <3> QED  BY <2>2, <3>1, <3>3 DEF SirenAt, OpenAt, RestAt
    <2>9. CASE pc = "open5"
      <3>1. pc' = "open6" /\ timer' = timer /\ reg' = timer.ref  BY <2>9 DEF BellOpen
      <3>2. timer.hw_dev /\ timer.active /\ timer.open /\ timer.ref = 0
        BY <2>1, <2>9 DEF OpenAt
      <3> QED  BY <2>2, <3>1, <3>2 DEF SirenAt, OpenAt, RestAt
    <2>10. CASE pc = "open6"
      <3>1. pc' = "open7" /\ timer' = RefMore(timer, reg)  BY <2>10 DEF BellOpen
      <3>2. timer.hw_dev /\ timer.active /\ timer.open /\ reg = 0
        BY <2>1, <2>10 DEF OpenAt
      <3>3. timer' = [timer EXCEPT !.ref = 1]
        BY <3>1, <3>2, RefAssumption DEF RefMore
      <3>4. Sounding(timer')  BY <1>1, <3>2, <3>3 DEF Sounding, TimerType
      <3> QED  BY <2>2, <3>1, <3>4 DEF SirenAt, OpenAt, RestAt
    <2>11. CASE pc = "open7"
      <3>1. Sounding(timer)  BY <2>1, <2>11 DEF OpenAt
      <3>2. pc' = "open8" /\ timer' = timer
        BY <2>11, <3>1 DEF BellOpen, AssertFails, Sounding
      <3> QED  BY <2>2, <3>1, <3>2 DEF SirenAt, OpenAt, RestAt
    <2>12. CASE pc = "open8"
      <3>1. pc' = "ret1" /\ timer' = Result(timer, TRUE)  BY <2>12 DEF BellOpen
      <3>2. Sounding(timer)  BY <2>1, <2>12 DEF OpenAt
      <3>3. Sounding(timer') /\ timer'.ret
        BY <1>1, <3>1, <3>2 DEF Result, Sounding, TimerType
      <3> QED  BY <2>2, <3>1, <3>3 DEF SirenAt, OpenAt, RestAt
    <2>13. CASE pc = "ret1"
      <3>1. pc' = (IF timer.ret THEN "rx" ELSE "led0") /\ timer' = timer
        BY <2>13 DEF BellOpen
      <3>2. IF timer.ret THEN Sounding(timer) ELSE SirenOn(timer)
        BY <2>1, <2>13 DEF OpenAt
      <3> QED  BY <1>1, <1>2, <2>2, <3>1, <3>2 DEF SirenAt, OpenAt, RestAt
    <2>14. CASE pc = "rx"
      <3>1. pc' = "mode" /\ timer' = SetRxIndicate(timer)  BY <2>14 DEF BellOpen
      <3>2. Sounding(timer)  BY <2>1, <2>14 DEF OpenAt
      <3>3. Sounding(timer') /\ timer'.rx
        BY <1>1, <3>1, <3>2 DEF SetRxIndicate, Sounding, TimerType
      <3> QED  BY <2>2, <3>1, <3>3 DEF SirenAt, OpenAt, RestAt
    <2>15. CASE pc = "mode"
      <3>1. pc' = "ret" /\ timer' = ControlMode(timer)  BY <2>15 DEF BellOpen
      <3>2. Sounding(timer) /\ timer.rx  BY <2>1, <2>15 DEF OpenAt
      <3>3. Periodic(timer')
        BY <1>1, <3>1, <3>2 DEF ControlMode, Sounding, Periodic, TimerType
      <3> QED  BY <2>2, <3>1, <3>3 DEF SirenAt, OpenAt, RestAt
    <2>16. CASE pc = "ret"
      <3>1. pc' = "ret2" /\ timer' = Result(timer, TRUE)  BY <2>16 DEF BellOpen
      <3>2. Periodic(timer)  BY <2>1, <2>16 DEF OpenAt
      <3>3. Periodic(timer') /\ timer'.ret
        BY <1>1, <3>1, <3>2 DEF Result, Sounding, Periodic, TimerType
      <3> QED  BY <2>2, <3>1, <3>3 DEF SirenAt, OpenAt, RestAt
    <2>17. CASE pc \in {"ret2", "write1"}
      <3>1. Periodic(timer) /\ (pc = "ret2" => timer.ret)
        BY <2>1, <2>17 DEF OpenAt
      <3>2. pc = "ret2" => pc' = "write1" /\ timer' = timer
        BY <3>1 DEF BellOpen
      <3>3. ASSUME pc = "write1"  PROVE pc' = "write2" /\ timer' = timer
        <4>1. ~WriteIdle(timer)  BY <3>1 DEF WriteIdle, Periodic, Sounding
        <4> QED  BY <3>3, <4>1 DEF BellOpen
      <3>4. pc' \in {"write1", "write2"} /\ timer' = timer
        BY <2>17, <3>2, <3>3
      <3> QED  BY <2>2, <3>1, <3>4 DEF SirenAt, OpenAt, RestAt
    <2>18. CASE pc = "write2"
      <3>1. pc' = "led0" /\ timer' = WriteTimeout(timer)  BY <2>18 DEF BellOpen
      <3>2. Periodic(timer)  BY <2>1, <2>18 DEF OpenAt
      <3>3. SirenOn(timer')
        BY <1>1, <3>1, <3>2 DEF WriteTimeout, Periodic, Sounding, SirenOn, TimerType
      <3> QED  BY <1>1, <1>2, <2>2, <3>1, <3>3 DEF SirenAt, OpenAt, RestAt
    <2> QED  BY <1>2, <2>3, <2>4, <2>5, <2>6, <2>7, <2>8, <2>9, <2>10, <2>11,
                <2>12, <2>13, <2>14, <2>15, <2>16, <2>17, <2>18
  <1> QED  BY <1>1, <1>2, <1>3 DEF SirenInv, Opening, Closing

LEMMA SirenClose == TypeInv /\ SirenInv /\ BellClose => SirenInv'
  <1> SUFFICES ASSUME TypeInv, SirenInv, BellClose  PROVE SirenInv'
    OBVIOUS
  <1>1. UNCHANGED <<state, my_devices>> /\ timer \in TimerType
        /\ ("siren" \in stray <=> "siren" \in stray')
    BY BellCloseFrame DEF TypeInv, TypeOK
  <1>2. /\ pc \in Closing \union {"close1"} /\ ~state
        /\ pc' \in Closing \union {"led0"}
    BY BellCloseFrame DEF SirenInv
  <1>3. ASSUME "siren" \notin stray  PROVE SirenAt'
    <2> USE DEF Goes, Loads, Stores, Bell, Inside, Opening, Closing
    <2>1. CloseAt /\ RestAt /\ pc # "starved"  BY <1>3 DEF SirenInv, SirenAt
    <2>2. OpenAt'  BY <1>2 DEF OpenAt
    <2>3. CASE pc = "close1"
      <3>1. SirenOn(timer) \/ SirenOff(timer)  BY <2>1, <2>3 DEF RestAt
      <3>2. CASE SirenOn(timer)
        <4>1. ~CloseIdle(timer)  BY <3>2 DEF SirenOn, CloseIdle
        <4>2. pc' = "close2" /\ timer' = timer  BY <2>3, <4>1 DEF BellClose
        <4> QED  BY <2>2, <3>2, <4>2 DEF SirenAt, CloseAt, RestAt
      <3>3. CASE SirenOff(timer)
        <4>1. CloseIdle(timer)  BY <3>3 DEF SirenOff, CloseIdle
        <4>2. pc' = "lamp" /\ timer' = CloseRefused(timer)
          BY <2>3, <4>1 DEF BellClose
        <4>3. Released(timer')
          BY <1>1, <3>3, <4>2 DEF SirenOff, Released, CloseRefused, Result, TimerType
        <4> QED  BY <2>2, <4>2, <4>3 DEF SirenAt, CloseAt, RestAt
      <3> QED  BY <3>1, <3>2, <3>3
    <2>4. CASE pc = "close2"
      <3>1. pc' = "close3" /\ timer' = timer /\ reg' = timer.ref
        BY <2>4 DEF BellClose
      <3>2. SirenOn(timer)  BY <2>1, <2>4 DEF CloseAt
      <3>3. reg' = 1  BY <3>1, <3>2 DEF SirenOn
      <3> QED  BY <2>2, <3>1, <3>2, <3>3 DEF SirenAt, CloseAt, RestAt
    <2>5. CASE pc = "close3"
      <3>1. pc' = "close4" /\ timer' = RefLess(timer, reg)  BY <2>5 DEF BellClose
      <3>2. reg = 1  BY <2>1, <2>5 DEF CloseAt
      <3>3. timer'.ref = 0  BY <1>1, <3>1, <3>2 DEF RefLess, TimerType
      <3> QED  BY <2>2, <3>1, <3>3 DEF SirenAt, CloseAt, RestAt
    <2>6. CASE pc = "close4"
      <3>1. timer.ref = 0  BY <2>1, <2>6 DEF CloseAt
      <3>2. pc' = "close5" /\ timer' = timer
        BY <2>6, <3>1 DEF BellClose, CloseShared
      <3> QED  BY <2>2, <3>1, <3>2 DEF SirenAt, CloseAt, RestAt
    <2>7. CASE pc = "close5"
      <3>1. pc' = "close6" /\ timer' = CloseActive(timer)  BY <2>7 DEF BellClose
      <3>2. timer'.ref = 0 /\ ~timer'.active
        BY <1>1, <2>1, <2>7, <3>1 DEF CloseAt, CloseActive, TimerType
      <3> QED  BY <2>2, <3>1, <3>2 DEF SirenAt, CloseAt, RestAt
    <2>8. CASE pc = "close6"
      <3>1. pc' = "close7" /\ timer' = CloseRx(timer)  BY <2>8 DEF BellClose
      <3>2. timer'.ref = 0 /\ ~timer'.active /\ ~timer'.rx
        BY <1>1, <2>1, <2>8, <3>1 DEF CloseAt, CloseRx, TimerType
      <3> QED  BY <2>2, <3>1, <3>2 DEF SirenAt, CloseAt, RestAt
    <2>9. CASE pc = "close7"
      <3>1. pc' = "lamp" /\ timer' = Result(CloseFlag(timer), TRUE)
        BY <2>9 DEF BellClose
      <3>2. Released(timer')
        BY <1>1, <2>1, <2>9, <3>1 DEF CloseAt, Result, CloseFlag, Released, TimerType
      <3> QED  BY <2>2, <3>1, <3>2 DEF SirenAt, CloseAt, RestAt
    <2>10. CASE pc = "lamp"
      <3>1. pc' = "buzzer" /\ timer' = LampOff(timer)  BY <2>10 DEF BellClose
      <3>2. Released(timer')
        BY <1>1, <2>1, <2>10, <3>1 DEF CloseAt, Released, LampOff, TimerType
      <3> QED  BY <2>2, <3>1, <3>2 DEF SirenAt, CloseAt, RestAt
    <2>11. CASE pc = "buzzer"
      <3>1. pc' = "led0" /\ timer' = BuzzerOff(timer)  BY <2>11 DEF BellClose
      <3>2. SirenOff(timer')
        BY <1>1, <2>1, <2>11, <3>1
           DEF CloseAt, Released, SirenOff, BuzzerOff, TimerType
      <3> QED  BY <1>1, <1>2, <2>2, <3>1, <3>2 DEF SirenAt, CloseAt, RestAt
    <2> QED  BY <1>2, <2>3, <2>4, <2>5, <2>6, <2>7, <2>8, <2>9, <2>10, <2>11
  <1> QED  BY <1>1, <1>2, <1>3 DEF SirenInv, Opening, Closing

(* The steps of the loop outside beep_change, but the one into it.         *)
LEMMA SirenIdle ==
    ASSUME TypeInv, WakeUp \/ CheckSensor \/ CheckFlags \/ Compare \/ DoorChange
                    \/ RelayChange \/ LightChange \/ PublishStatus
    PROVE  /\ UNCHANGED timer
           /\ "siren" \in stray' <=> "siren" \in stray
           /\ "lamp" \in stray' <=> "lamp" \in stray
           /\ my_devices'.Beep_State = my_devices.Beep_State
           /\ pc \notin Opening \union Closing
           /\ pc' \notin Opening \union Closing
           /\ pc' \notin {"open1", "open2", "close1", "led0", "beep",
                          "asserted", "starved"}
           /\ pc \notin {"open1", "open2", "close1", "led0", "beep",
                         "asserted", "starved"}
  <1> USE DEF Opening, Closing, TypeInv, TypeOK, Advance, Quantity
  <1>1. CASE WakeUp \/ CheckSensor \/ Compare \/ PublishStatus
    BY <1>1 DEF WakeUp, CheckSensor, Compare, PublishStatus
  <1>2. CASE CheckFlags
    BY <1>2 DEF CheckFlags, Look, Judge, Skip
  <1>3. CASE DoorChange  BY <1>3 DEF DoorChange, DeviceType
  <1>4. CASE RelayChange \/ LightChange
    BY <1>4 DEF RelayChange, LightChange, Set_Devpro_RelayState,
                Set_Devpro_LED1State, DeviceType
  <1> QED  BY <1>1, <1>2, <1>3, <1>4

LEMMA SirenAuto == TypeInv /\ SirenInv /\ AutoStep => SirenInv'
  <1> SUFFICES ASSUME TypeInv, SirenInv, AutoStep  PROVE SirenInv'
    OBVIOUS
  <1>1. CASE BellOpen  BY <1>1, SirenOpen
  <1>2. CASE BellClose  BY <1>2, SirenClose
  <1>3. CASE BellRecord
    <2>1. pc' \in {"beep", "door1"} /\ UNCHANGED <<timer, state, stray>>
      BY <1>3 DEF BellRecord
    <2>2. ASSUME "siren" \notin stray  PROVE SirenAt'
      <3>1. RestAt /\ pc \in {"led0", "beep"}
        BY <1>3, <2>2 DEF SirenInv, SirenAt, BellRecord
      <3>2. pc = "beep" => my_devices'.Beep_State = state
        BY <1>3 DEF BellRecord, TypeInv, TypeOK, DeviceType
      <3>3. pc = "led0" => pc' = "beep"  BY <1>3 DEF BellRecord
      <3>4. OpenAt' /\ CloseAt'  BY <2>1 DEF OpenAt, CloseAt
      <3>5. RestAt'  BY <2>1, <3>1, <3>2, <3>3 DEF RestAt, Inside
      <3> QED  BY <3>4, <3>5 DEF SirenAt
    <2> QED  BY <2>1, <2>2 DEF SirenInv, Opening, Closing
  <1>4. CASE PublishAlarm
    <2>1. /\ pc' \in {"open1", "close1", "pin"} /\ pc = "alarm"
          /\ pc' = "open1" => state
          /\ pc' = "close1" => ~state
          /\ UNCHANGED <<timer, state, stray, my_devices>>
      BY <1>4 DEF PublishAlarm
    <2>2. ASSUME "siren" \notin stray  PROVE SirenAt'
      <3>1. RestAt  BY <2>2 DEF SirenInv, SirenAt
      <3>2. OpenAt' /\ CloseAt'  BY <2>1 DEF OpenAt, CloseAt
      <3>3. RestAt'  BY <2>1, <3>1 DEF RestAt, Inside, Opening, Closing
      <3> QED  BY <3>2, <3>3 DEF SirenAt
    <2> QED  BY <2>1, <2>2 DEF SirenInv, Opening, Closing
  <1>5. CASE WakeUp \/ CheckSensor \/ CheckFlags \/ Compare \/ DoorChange
             \/ RelayChange \/ LightChange \/ PublishStatus
    <2>1. /\ UNCHANGED timer
          /\ "siren" \in stray' <=> "siren" \in stray
          /\ my_devices'.Beep_State = my_devices.Beep_State
          /\ pc \notin Opening \union Closing
          /\ pc' \notin Opening \union Closing
          /\ pc' \notin {"open1", "open2", "close1", "led0", "beep",
                         "asserted", "starved"}
          /\ pc \notin {"open1", "open2", "close1", "led0", "beep",
                        "asserted", "starved"}
      BY <1>5, SirenIdle
    <2>2. ASSUME "siren" \notin stray  PROVE SirenAt'
      <3>1. RestAt  BY <2>2 DEF SirenInv, SirenAt
      <3>2. OpenAt' /\ CloseAt'  BY <2>1 DEF OpenAt, CloseAt, Opening, Closing
      <3>3. RestAt'  BY <2>1, <3>1 DEF RestAt, Inside
      <3> QED  BY <3>2, <3>3 DEF SirenAt
    <2> QED  BY <2>1, <2>2 DEF SirenInv
  <1> QED  BY <1>1, <1>2, <1>3, <1>4, <1>5 DEF AutoStep

(* Until a callback cuts in, an open does not run into the assertion.      *)
LEMMA NoSpin ==
    ASSUME TypeInv, SirenInv, "siren" \notin stray
    PROVE  ~OpenSpins(timer)
  <1>1. OpenAt /\ CloseAt /\ RestAt /\ pc # "starved"  BY DEF SirenInv, SirenAt
  <1>2. timer.open \/ timer.ref = 0
    <2>1. CASE pc \in Opening
      BY <1>1, <2>1 DEF OpenAt, Opening, Free, Sounding, Periodic, SirenOn
    <2>2. CASE pc \in Closing
      BY <1>1, <2>2 DEF CloseAt, Closing, Released, SirenOn
    <2>3. CASE pc \notin Opening \union Closing
      BY <1>1, <2>3 DEF OpenAt, RestAt, Inside, SirenOn, SirenOff
    <2> QED  BY <2>1, <2>2, <2>3
  <1>3. timer.ref = 0 => OpenHeld(timer).ref = 1
    BY RefAssumption DEF OpenHeld, OpenFlag, RefMore, TypeInv, TypeOK, TimerType
  <1> QED  BY <1>2, <1>3 DEF OpenSpins, OpenBusy, AssertFails

(* A callback: a whole beep_change outside the loop's own, or a stray one. *)
LEMMA SirenApply ==
    ASSUME TypeInv, SirenInv, NEW m \in Commands \union Syncs, Apply(m)
    PROVE  SirenInv'
  <1>1. UNCHANGED <<sec, state, reg>> /\ timer \in TimerType /\ pc' \in {pc, "starved"}
    BY DEF Apply, TypeInv, TypeOK
  <1>2. ASSUME "siren" \notin stray'  PROVE SirenAt' /\ pc' # "starved"
    <2>1. "siren" \notin stray  BY <1>2 DEF Apply, StrayAfter, Repairs
    <2>2. SirenAt /\ pc # "starved"  BY <2>1 DEF SirenInv
    <2>3. ~Spins(m)  BY <2>1, NoSpin DEF Spins
    <2>4. pc' = pc /\ Reached(m) = m  BY <2>3, ReachedMessage DEF Apply
    <2>5. CASE "alarm" \notin m.fields
      <3>1. timer' = timer /\ my_devices'.Beep_State = my_devices.Beep_State
        BY <2>4, <2>5 DEF Apply, Recorded, Field
      <3> QED  BY <1>1, <2>2, <2>4, <3>1
               DEF SirenAt, OpenAt, CloseAt, RestAt, Inside
    <2>6. CASE "alarm" \in m.fields
      <3> DEFINE b == "alarm" \in m.on
      <3>1. ~Inside("siren")  BY <1>2, <2>4, <2>6 DEF Apply, StrayAfter, OutputOf
      <3>2. timer' = BeepTimer(timer, b) /\ my_devices'.Beep_State = b
        BY <2>4, <2>6 DEF Apply, Recorded, Field
      <3> HIDE DEF b
      <3>3. SirenOn(timer) \/ SirenOff(timer)  BY <2>2, <3>1 DEF SirenAt, RestAt
      <3>4. pc' \notin Opening \union Closing \union {"led0", "beep", "asserted"}
        BY <2>4, <3>1 DEF Inside
      <3>5. pc = "open2" => timer.hw_dev  BY <2>2 DEF SirenAt, OpenAt
      <3>6. /\ timer'.hw_dev \/ ~timer.hw_dev
            /\ IF b THEN SirenOn(timer') ELSE SirenOff(timer')
        <4>1. CASE b
          <5>1. timer' = OpenTimer(timer)  BY <3>2, <4>1 DEF BeepTimer
          <5>2. SirenOn(timer')  BY <1>1, <3>3, <5>1, OpenSounds
          <5> QED  BY <4>1, <5>2 DEF SirenOn
        <4>2. CASE ~b
          <5>1. timer' = BuzzerOff(LampOff(CloseTimer(timer)))
            BY <3>2, <4>2 DEF BeepTimer
          <5>2. SirenOff(timer')  BY <1>1, <3>3, <5>1, CloseSilences
          <5>3. CloseTimer(timer).hw_dev = timer.hw_dev  BY <1>1, CloseKeepsHandle
          <5>4. timer'.hw_dev = timer.hw_dev
            BY <5>1, <5>3 DEF BuzzerOff, LampOff
          <5> QED  BY <1>1, <4>2, <5>2, <5>4 DEF TimerType
        <4> QED  BY <4>1, <4>2
      <3>7. OpenAt' /\ CloseAt'
        BY <2>4, <3>4, <3>5, <3>6 DEF OpenAt, CloseAt, Opening, Closing
      <3>8. RestAt'  BY <3>2, <3>4, <3>6 DEF RestAt
      <3> QED  BY <2>2, <2>4, <3>7, <3>8 DEF SirenAt
    <2> QED  BY <2>5, <2>6
  <1> QED  BY <1>1, <1>2 DEF SirenInv, Opening, Closing

LEMMA SirenEnvironment == TypeInv /\ SirenInv /\ Environment => SirenInv'
  <1> SUFFICES ASSUME TypeInv, SirenInv, Environment  PROVE SirenInv'
    OBVIOUS
  <1>1. CASE Tim3Irq
    <2>1. /\ UNCHANGED <<pc, sec, state, reg, stray, my_devices>>
          /\ timer' = TimerIsr(timer)
      BY <1>1 DEF Tim3Irq, loop
    <2>2. /\ timer'.hw_dev = timer.hw_dev /\ timer'.active = timer.active
          /\ timer'.open = timer.open /\ timer'.ref = timer.ref
          /\ timer'.rx = timer.rx /\ timer'.mode = timer.mode
          /\ timer'.ret = timer.ret
          /\ timer.mode = "PERIOD" => timer'.running = timer.running
          /\ ~timer.rx => timer'.beep = timer.beep
      BY <2>1, IsrKeeps DEF TypeInv, TypeOK
    <2>3. /\ SirenOn(timer) => SirenOn(timer')
          /\ SirenOff(timer) => SirenOff(timer')
          /\ Sounding(timer) => Sounding(timer')
          /\ Periodic(timer) => Periodic(timer')
          /\ Free(timer) => Free(timer')
          /\ Released(timer) => Released(timer')
      BY <2>2 DEF SirenOn, SirenOff, Sounding, Periodic, Free, Released
    <2>4. OpenAt => OpenAt'  BY <2>1, <2>2, <2>3 DEF OpenAt
    <2>5. CloseAt => CloseAt'  BY <2>1, <2>2, <2>3 DEF CloseAt
    <2>6. RestAt => RestAt'  BY <2>1, <2>3 DEF RestAt, Inside
    <2> QED  BY <2>1, <2>4, <2>5, <2>6 DEF SirenInv, SirenAt
  <1>2. ASSUME NEW l \in ConsoleLeds, NEW v \in Level, my_control_led(l, v)
        PROVE  SirenInv'
    <2>1. /\ UNCHANGED <<pc, sec, state, reg, my_devices>>
          /\ "siren" \in stray' <=> "siren" \in stray
          /\ pc \in {"delay", "alarm", "status"}
      BY <1>2 DEF my_control_led, loop
    <2>2. /\ SirenOn(timer) => SirenOn(timer')
          /\ SirenOff(timer) => SirenOff(timer')
      BY <1>2 DEF my_control_led, SirenOn, SirenOff, TypeInv, TypeOK, TimerType
    <2>3. OpenAt' /\ CloseAt'  BY <2>1 DEF OpenAt, CloseAt
    <2>4. RestAt => RestAt'  BY <2>1, <2>2 DEF RestAt, Inside
    <2> QED  BY <2>1, <2>3, <2>4 DEF SirenInv, SirenAt
  <1>3. CASE SampleDht11 \/ Dht11Fails \/ SampleLight
             \/ IQR_HANDALE_KEY0 \/ IQR_HANDALE_KEY1
    <2>1. my_devices'.Beep_State = my_devices.Beep_State
      BY <1>3 DEF SampleDht11, Dht11Fails, SampleLight, IQR_HANDALE_KEY0,
                  IQR_HANDALE_KEY1, TypeInv, TypeOK, DeviceType
    <2>2. UNCHANGED <<timer, pc, sec, state, reg, stray>>
      BY <1>3 DEF SampleDht11, Dht11Fails, SampleLight, IQR_HANDALE_KEY0,
                  IQR_HANDALE_KEY1, others, loop
    <2> QED  BY <2>1, <2>2
             DEF SirenInv, SirenAt, OpenAt, CloseAt, RestAt, Inside
  <1> QED  BY <1>1, <1>2, <1>3 DEF Environment

LEMMA SirenStep == TypeInv /\ SirenInv /\ [Next]_vars => SirenInv'
  <1> SUFFICES ASSUME TypeInv, SirenInv, [Next]_vars  PROVE SirenInv'
    OBVIOUS
  <1>1. CASE AutoStep  BY <1>1, SirenAuto
  <1>2. ASSUME NEW m \in Commands \union Syncs, Apply(m)  PROVE SirenInv'
    BY <1>2, SirenApply
  <1>3. ASSUME UNCHANGED <<my_devices, timer, pc, sec, state, reg, stray>>
        PROVE  SirenInv'
    BY <1>3 DEF SirenInv, SirenAt, OpenAt, CloseAt, RestAt, Inside
  <1>4. CASE Callback
    <2>1. ASSUME NEW s \in Settings, mqtt_thresholds_callback(s)
          PROVE  SirenInv'
      BY <1>3, <2>1 DEF mqtt_thresholds_callback, loop
    <2> QED  BY <1>2, <1>4, <2>1
             DEF Callback, mqtt_dev_control_callback, mqtt_sync_callback
  <1>5. CASE Environment  BY <1>5, SirenEnvironment
  <1>6. CASE UNCHANGED vars  BY <1>3, <1>6 DEF vars
  <1> QED  BY <1>1, <1>4, <1>5, <1>6 DEF Next

LEMMA SirenInvariant == Spec => []SirenInv
  <1>1. Init => SirenInv
    BY DEF Init, TimerInit, SirenInv, SirenAt, OpenAt, CloseAt, RestAt, Inside,
           SirenOff, Opening, Closing
  <1> QED  BY <1>1, TypeInvariant, SirenStep, PTL DEF Spec

(***************************************************************************)
(* As long as no callback cuts into the loop's own beep_change, a recorded *)
(* alarm is a siren in force that one close silences, and no recorded      *)
(* alarm is a silent buzzer that no interrupt can start again.             *)
(***************************************************************************)
THEOREM SirenCorrect == Spec => []SirenMatches
  <1>1. SirenInv => SirenMatches
    BY DEF SirenInv, SirenAt, RestAt, SirenMatches
  <1> QED  BY <1>1, SirenInvariant, PTL

(***************************************************************************)
(* Neither the loop nor the worker runs into the assertion of              *)
(* rt_device_open before a callback has cut into a change of the siren.    *)
(***************************************************************************)
THEOREM AssertCorrect == Spec => []AssertOnlyAfterCut
  <1>1. SirenInv => AssertOnlyAfterCut
    BY DEF SirenInv, SirenAt, OpenAt, AssertOnlyAfterCut
  <1> QED  BY <1>1, SirenInvariant, PTL

----------------------------------------------------------------------------
LEMMA LampAuto ==
    TypeInv /\ SirenInv /\ LampInv /\ AutoStep => LampInv'
  <1> SUFFICES ASSUME TypeInv, SirenInv, LampInv, AutoStep,
                      {"siren", "lamp"} \intersect stray' = {}
               PROVE  LampInv'
    BY DEF LampInv
  <1>1. CASE BellOpen
    <2>1. pc' \in Opening \union {"open2", "led0", "asserted"} /\ state'
          /\ UNCHANGED <<my_devices, stray>> /\ timer \in TimerType
      BY <1>1, BellOpenFrame DEF SirenInv, TypeInv, TypeOK
    <2>2. CASE pc' # "open2"  BY <2>1, <2>2 DEF LampInv, Inside, Opening
    <2>3. CASE pc' = "open2"
      <3>1. pc = "open1" /\ timer' = DeviceFind(timer)
        BY <1>1, <2>3 DEF BellOpen, Goes, Tests, Loads, Stores, Bell
      <3>2. timer'.led0 = timer.led0  BY <2>1, <3>1 DEF DeviceFind, TimerType
      <3> QED  BY <2>1, <2>3, <3>1, <3>2 DEF LampInv, Inside, Opening, Closing
    <2> QED  BY <2>2, <2>3
  <1>2. CASE BellClose
    <2> USE DEF Goes, Loads, Stores, Bell
    <2>1. pc' \in Closing \union {"led0"} /\ timer \in TimerType
          /\ (pc # "lamp" => stray' = stray)
      BY <1>2, BellCloseFrame DEF TypeInv, TypeOK
    <2>2. CASE pc = "lamp"
      <3>1. timer' = LampOff(timer)  BY <1>2, <2>2 DEF BellClose
      <3>2. timer'.led0 = PIN_HIGH  BY <2>1, <3>1 DEF LampOff, TimerType
      <3> QED  BY <3>2 DEF LampInv
    <2>3. CASE pc = "buzzer"
      <3>1. timer' = BuzzerOff(timer) /\ stray' = stray
        BY <1>2, <2>3 DEF BellClose
      <3>2. timer.led0 = PIN_HIGH  BY <2>3, <3>1 DEF LampInv
      <3>3. timer'.led0 = PIN_HIGH  BY <2>1, <3>1, <3>2 DEF BuzzerOff, TimerType
      <3> QED  BY <3>3 DEF LampInv
    <2>4. CASE pc \notin {"lamp", "buzzer"}
      <3>1. pc' \in Closing \ {"buzzer"}  BY <1>2, <2>4 DEF BellClose, Closing
      <3> QED  BY <3>1 DEF LampInv, Inside, Closing
    <2> QED  BY <2>2, <2>3, <2>4
  <1>3. CASE BellRecord
    <2>1. /\ UNCHANGED <<timer, state, stray>> /\ pc \in {"led0", "beep"}
          /\ pc' \in {"beep", "door1"} /\ (pc' = "beep" <=> pc = "led0")
      BY <1>3 DEF BellRecord
    <2>2. pc = "beep" => my_devices'.Beep_State = state
      BY <1>3 DEF BellRecord, TypeInv, TypeOK, DeviceType
    <2> QED  BY <2>1, <2>2 DEF LampInv, Inside
  <1>4. CASE PublishAlarm
    <2>1. /\ UNCHANGED <<timer, stray, my_devices>> /\ pc = "alarm"
          /\ pc' \in {"open1", "close1", "pin"}
      BY <1>4 DEF PublishAlarm
    <2> QED  BY <2>1 DEF LampInv, Inside, Opening, Closing
  <1>5. CASE WakeUp \/ CheckSensor \/ CheckFlags \/ Compare \/ DoorChange
             \/ RelayChange \/ LightChange \/ PublishStatus
    <2>1. /\ UNCHANGED timer
          /\ "siren" \in stray' <=> "siren" \in stray
          /\ "lamp" \in stray' <=> "lamp" \in stray
          /\ my_devices'.Beep_State = my_devices.Beep_State
          /\ pc \notin Opening \union Closing
          /\ pc' \notin Opening \union Closing
          /\ pc' \notin {"led0", "beep", "asserted", "starved"}
          /\ pc \notin {"led0", "beep", "asserted", "starved"}
      BY <1>5, SirenIdle
    <2>2. ~Inside("siren") /\ pc' \notin {"buzzer", "led0", "beep"}
      BY <2>1 DEF Inside, Closing
    <2> QED  BY <2>1, <2>2 DEF LampInv
  <1> QED  BY <1>1, <1>2, <1>3, <1>4, <1>5 DEF AutoStep

LEMMA LampApply ==
    ASSUME TypeInv, SirenInv, LampInv, NEW m \in Commands \union Syncs, Apply(m)
    PROVE  LampInv'
  <1> SUFFICES ASSUME {"siren", "lamp"} \intersect stray' = {}
               PROVE  LampInv'
    BY DEF LampInv
  <1>1. UNCHANGED <<sec, state>> /\ timer \in TimerType
        /\ "siren" \notin stray
    BY DEF TypeInv, TypeOK, Apply, StrayAfter, Repairs
  <1>2. ~Spins(m)  BY <1>1, NoSpin DEF Spins
  <1>3. pc' = pc /\ Reached(m) = m  BY <1>2, ReachedMessage DEF Apply
  <1>4. CASE "alarm" \notin m.fields
    <2>1. timer' = timer /\ my_devices'.Beep_State = my_devices.Beep_State
          /\ {"siren", "lamp"} \intersect stray = {}
      BY <1>3, <1>4 DEF Apply, Recorded, Field, StrayAfter, Repairs
    <2> QED  BY <1>1, <1>3, <2>1 DEF LampInv, Inside
  <1>5. CASE "alarm" \in m.fields
    <2> DEFINE b == "alarm" \in m.on
    <2>1. ~Inside("siren")  BY <1>3, <1>5 DEF Apply, StrayAfter, OutputOf
    <2>2. timer' = BeepTimer(timer, b) /\ my_devices'.Beep_State = b
      BY <1>3, <1>5 DEF Apply, Recorded, Field
    <2> HIDE DEF b
    <2>3. SirenOn(timer) \/ SirenOff(timer)
      BY <1>1, <2>1 DEF SirenInv, SirenAt, RestAt
    <2>4. ~b => timer'.led0 = PIN_HIGH
      <3> SUFFICES ASSUME ~b  PROVE timer'.led0 = PIN_HIGH
        OBVIOUS
      <3>1. timer' = BuzzerOff(LampOff(CloseTimer(timer)))
        BY <2>2 DEF BeepTimer
      <3> QED  BY <1>1, <2>3, <3>1, CloseSilences
    <2>5. pc' \notin {"buzzer", "led0", "beep"}
      BY <1>3, <2>1 DEF Inside, Closing
    <2> QED  BY <2>2, <2>4, <2>5 DEF LampInv
  <1> QED  BY <1>4, <1>5

LEMMA LampStep ==
    TypeInv /\ SirenInv /\ LampInv /\ [Next]_vars => LampInv'
  <1> SUFFICES ASSUME TypeInv, SirenInv, LampInv, [Next]_vars  PROVE LampInv'
    OBVIOUS
  <1>1. CASE AutoStep  BY <1>1, LampAuto
  <1>2. ASSUME NEW m \in Commands \union Syncs, Apply(m)  PROVE LampInv'
    BY <1>2, LampApply
  <1>3. CASE Callback
    <2>1. ASSUME NEW s \in Settings, mqtt_thresholds_callback(s)
          PROVE  LampInv'
      BY <2>1 DEF mqtt_thresholds_callback, loop, LampInv, Inside
    <2> QED  BY <1>2, <1>3, <2>1
             DEF Callback, mqtt_dev_control_callback, mqtt_sync_callback
  <1>4. CASE Tim3Irq
    <2>1. UNCHANGED <<pc, sec, state, stray, my_devices>>
          /\ timer' = TimerIsr(timer) /\ timer \in TimerType
      BY <1>4 DEF Tim3Irq, loop, TypeInv, TypeOK
    <2>2. ~timer.rx => timer'.led0 = timer.led0  BY <2>1, IsrKeeps
    <2>3. "siren" \notin stray =>
            /\ pc = "buzzer" => ~timer.rx
            /\ pc \in {"led0", "beep"} /\ ~state => ~timer.rx
            /\ ~Inside("siren") /\ ~my_devices.Beep_State => ~timer.rx
      BY DEF SirenInv, SirenAt, CloseAt, RestAt, Released, SirenOff
    <2> QED  BY <2>1, <2>2, <2>3 DEF LampInv, Inside
  <1>5. ASSUME NEW l \in ConsoleLeds, NEW v \in Level, my_control_led(l, v)
        PROVE  LampInv'
    BY <1>5 DEF my_control_led, loop, LampInv, Inside
  <1>6. CASE SampleDht11 \/ Dht11Fails \/ SampleLight
    BY <1>6 DEF SampleDht11, Dht11Fails, SampleLight, others, loop, LampInv, Inside
  <1>7. CASE IQR_HANDALE_KEY0 \/ IQR_HANDALE_KEY1
    BY <1>7 DEF IQR_HANDALE_KEY0, IQR_HANDALE_KEY1, others, loop, LampInv,
                Inside, TypeInv, TypeOK, DeviceType
  <1>8. CASE UNCHANGED vars  BY <1>8 DEF vars, LampInv, Inside
  <1> QED  BY <1>1, <1>3, <1>4, <1>5, <1>6, <1>7, <1>8 DEF Next, Environment

(***************************************************************************)
(* The warning lamp, whatever phase the interrupt left it in, is dark      *)
(* whenever no alarm is recorded, unless the console lit it or a callback  *)
(* cut into the loop's beep_change.                                        *)
(***************************************************************************)
THEOREM LampCorrect == Spec => []LampDark
  <1>1. Init => LampInv
    BY DEF Init, TimerInit, LampInv, Inside
  <1>2. LampInv => LampDark  BY DEF LampInv, LampDark
  <1> QED  BY <1>1, <1>2, TypeInvariant, SirenInvariant, LampStep, PTL DEF Spec
=============================================================================
