------------------------------- MODULE Lights -------------------------------
(***************************************************************************)
(* The lights HAL, liblight/lights.c.                                      *)
(*                                                                         *)
(* Threads of the one process that loads the module (system_server) open   *)
(* lights and call set_light.  Battery, notifications and attention share  *)
(* one physical RGB LED; g_leds and g_cur_led arbitrate between them, and  *)
(* g_lock serialises every call.  The LED is programmed by eight separate  *)
(* sysfs writes, each of which can fail, and whose errors are dropped.     *)
(*                                                                         *)
(* A colour is a function from channels to levels; the alpha byte of       *)
(* light_state_t.color is the channel "alpha".  sysfs keeps the value of   *)
(* the last successful write of each file and outlives the process.        *)
(***************************************************************************)
EXTENDS Integers, FiniteSets, Sequences

CONSTANTS
    Threads,        \* threads of the process that uses the HAL
    NoThread,       \* owner of a mutex nobody holds
    States,         \* the light_state_t values callers pass to set_light
    Names,          \* the light names callers open
    MaxDevs,        \* BOUND: open devices of one light
    FailuresOccur,  \* whether a sysfs open or write may fail
    CrashesOccur    \* whether the process may die and be restarted

Channels == {"red", "green", "blue"}
FlashModes == {"LIGHT_FLASH_NONE", "LIGHT_FLASH_TIMED", "LIGHT_FLASH_HARDWARE"}

(* struct light_state_t of hardware/lights.h *)
LightState == [color : [Channels \cup {"alpha"} -> 0..255],
               flashMode : FlashModes, flashOnMS : Int, flashOffMS : Int]

(* Names open_lights accepts; the framework also asks for lights that this *)
(* device does not have.                                                   *)
LightIds == {"backlight", "notifications", "attention", "battery", "buttons"}
UnknownIds == {"keyboard"}

ASSUME ThreadsAssumption == NoThread \notin Threads
ASSUME StatesAssumption == States \subseteq LightState
ASSUME NamesAssumption == Names \subseteq LightIds \cup UnknownIds
ASSUME BoundAssumption == MaxDevs \in Nat \ {0}
ASSUME SwitchAssumption == FailuresOccur \in BOOLEAN /\ CrashesOccur \in BOOLEAN

-----------------------------------------------------------------------------
(* The index into g_leds that each set_light_* passes as `type'. *)
LedType == [battery |-> 0, notifications |-> 1, attention |-> 2]
LedLights == DOMAIN LedType

(* struct led_config, and the constant write_leds_locked uses for NULL. *)
LedConfig == [colorRGB : [Channels -> 0..255], onMS : Int, offMS : Int]
led_off == [colorRGB |-> [ch \in Channels |-> 0], onMS |-> 0, offMS |-> 0]

(* led->colorRGB > 0 *)
Lit(cfg) == \E ch \in Channels : cfg.colorRGB[ch] > 0

(* Y = 0.299R + 0.587G + 0.114B in 8-bit fixed point. *)
rgb_to_brightness(state) ==
    (77 * state.color["red"] + 150 * state.color["green"] + 29 * state.color["blue"]) \div 256

(* Mutant: the alpha byte is not masked off. *)
StoredConfig_Unmasked(state) ==
    [colorRGB |-> state.color, onMS |-> state.flashOnMS, offMS |-> state.flashOffMS]

(* What set_light_locked stores in g_leds[type]: no blinking times unless  *)
(* the light flashes, and the colour without its alpha byte.               *)
StoredConfig(state) ==
    LET flashes == state.flashMode \in {"LIGHT_FLASH_TIMED", "LIGHT_FLASH_HARDWARE"}
    IN [colorRGB |-> [ch \in Channels |-> state.color[ch]],
        onMS  |-> IF flashes THEN state.flashOnMS ELSE 0,
        offMS |-> IF flashes THEN state.flashOffMS ELSE 0]

(* The copy `fixed' that set_light_attention passes on. *)
FixedAttention(state) ==
    CASE state.flashMode = "LIGHT_FLASH_NONE" ->
            [state EXCEPT !.color = [ch \in DOMAIN state.color |-> 0]]
      [] state.flashMode = "LIGHT_FLASH_HARDWARE"
         /\ state.flashOnMS > 0 /\ state.flashOffMS = 0 ->
            [state EXCEPT !.flashMode = "LIGHT_FLASH_NONE"]
      [] OTHER -> state

-----------------------------------------------------------------------------
(* The files write_leds_locked writes, in its order; rgb_start first       *)
(* receives 0 and at the end 1.                                            *)
MsFiles == {"red_ms", "green_ms", "blue_ms"}
LedFiles == {"rgb_start"} \cup Channels \cup MsFiles
LedWrites == <<"rgb_start", "red", "green", "blue", "red_ms", "green_ms", "blue_ms", "rgb_start">>

(* Mutant: the LED is not started again. *)
LastWrite_Missing == 7

LastWrite == 8

(* The content of a LED file once cfg is fully programmed. *)
Shown(cfg, f) ==
    IF f = "rgb_start" THEN 1
    ELSE IF f \in Channels THEN cfg.colorRGB[f]
    ELSE <<cfg.onMS, cfg.offMS>>

(* Mutant: the LED is not stopped while it is reprogrammed. *)
WriteValue_Running(cfg, s) == Shown(cfg, LedWrites[s])

(* The value of write number s of write_leds_locked(cfg). *)
WriteValue(cfg, s) == IF s = 1 THEN 0 ELSE Shown(cfg, LedWrites[s])

-----------------------------------------------------------------------------
VARIABLES
    g_init,     \* pthread_once control: "never", "running", "done"
    g_lock,     \* owner of the mutex, or NoThread
    g_leds,     \* configuration requested by each of the three LED users
    g_cur_led,  \* index of the one presently showing, or -1
    devs,       \* number of open devices of each light
    pc,         \* where each thread is
    call,       \* each thread's pending set_light or open: light and state
    led,        \* the index write_leds_locked is programming, -1 for led_off
    step,       \* the next write of write_leds_locked
    err,        \* error the pending call will return, 0 for none
    file,       \* content of each sysfs file
    good        \* LED files whose last write of this process succeeded

hal == <<g_leds, g_cur_led>>
thread == <<pc, call, led, step, err>>
sysfs == <<file, good>>
vars == <<g_init, g_lock, hal, devs, thread, sysfs>>

Config(i) == IF i = -1 THEN led_off ELSE g_leds[i]

NoCall == [light |-> "none"]
Calls == [light : LightIds, state : States]
Opens == [light : LightIds]

Init ==
    /\ g_init = "never"
    /\ g_lock = NoThread
    /\ g_leds = [i \in 0..2 |-> led_off]
    /\ g_cur_led = -1
    /\ devs = [l \in LightIds |-> 0]
    /\ pc = [t \in Threads |-> "idle"]
    /\ call = [t \in Threads |-> NoCall]
    /\ led = [t \in Threads |-> -1]
    /\ step = [t \in Threads |-> 1]
    /\ err = [t \in Threads |-> 0]
    /\ file = [f \in LedFiles \cup {"lcd", "button"} |->
                  IF f \in LedFiles THEN Shown(led_off, f) ELSE 0]
    /\ good = {}

Goto(t, label) == pc' = [pc EXCEPT ![t] = label]

-----------------------------------------------------------------------------
(* open_lights: an unknown name is refused before anything is touched. *)
OpenUnknown(t, name) ==
    /\ pc[t] = "idle"
    /\ name \in Names \ LightIds
    /\ UNCHANGED vars

Opening == {"once", "init_globals", "alloc"}

OpenLights(t, l) ==
    /\ pc[t] = "idle"
    /\ l \in Names \cap LightIds
    /\ devs[l] + Cardinality({u \in Threads : pc[u] \in Opening /\ call[u].light = l}) < MaxDevs
    /\ Goto(t, "once")
    /\ call' = [call EXCEPT ![t] = [light |-> l]]
    /\ UNCHANGED <<g_init, g_lock, hal, devs, led, step, err, sysfs>>

(* Mutant: every open runs init_globals. *)
OnceEnter_EveryTime(t) ==
    /\ pc[t] = "once"
    /\ g_init' = "running"
    /\ Goto(t, "init_globals")
    /\ UNCHANGED <<g_lock, hal, devs, call, led, step, err, sysfs>>

(* Mutant: a later caller never notices that init_globals is done. *)
OnceSkip_Spins(t) == pc[t] = "once" /\ UNCHANGED vars

(* pthread_once: the first caller runs init_globals, the others wait. *)
OnceEnter(t) ==
    /\ pc[t] = "once" /\ g_init = "never"
    /\ g_init' = "running"
    /\ Goto(t, "init_globals")
    /\ UNCHANGED <<g_lock, hal, devs, call, led, step, err, sysfs>>

OnceSkip(t) ==
    /\ pc[t] = "once" /\ g_init = "done"
    /\ Goto(t, "alloc")
    /\ UNCHANGED <<g_init, g_lock, hal, devs, call, led, step, err, sysfs>>

(* pthread_mutex_init over g_lock, which was statically initialised: an    *)
(* owner would be forgotten.                                               *)
InitGlobals(t) ==
    /\ pc[t] = "init_globals"
    /\ g_lock' = NoThread
    /\ g_init' = "done"
    /\ Goto(t, "alloc")
    /\ UNCHANGED <<hal, devs, call, led, step, err, sysfs>>

(* The device is allocated, filled in and returned. *)
AllocDevice(t) ==
    /\ pc[t] = "alloc"
    /\ devs' = [devs EXCEPT ![call[t].light] = @ + 1]
    /\ call' = [call EXCEPT ![t] = NoCall]
    /\ Goto(t, "idle")
    /\ UNCHANGED <<g_init, g_lock, hal, led, step, err, sysfs>>

(* close_lights frees the device and nothing else: neither the requested   *)
(* configuration nor the LED changes.                                      *)
CloseLights(t, l) ==
    /\ pc[t] = "idle"
    /\ devs[l] > 0
    /\ devs' = [devs EXCEPT ![l] = @ - 1]
    /\ UNCHANGED <<g_init, g_lock, hal, thread, sysfs>>

-----------------------------------------------------------------------------
(* A set_light call: only a device obtained from open_lights has the       *)
(* method.  None of the methods looks at the device again.                 *)
SetLight(t, l, state) ==
    /\ pc[t] = "idle"
    /\ devs[l] > 0
    /\ call' = [call EXCEPT ![t] = [light |-> l, state |-> state]]
    /\ Goto(t, "lock")
    /\ UNCHANGED <<g_init, g_lock, hal, devs, led, step, err, sysfs>>

(* Mutant: the method forgets pthread_mutex_lock. *)
Lock_Missing(t) ==
    /\ pc[t] = "lock"
    /\ g_lock' = t
    /\ Goto(t, "locked")
    /\ UNCHANGED <<g_init, hal, devs, call, led, step, err, sysfs>>

Lock(t) ==
    /\ pc[t] = "lock"
    /\ g_lock = NoThread
    /\ g_lock' = t
    /\ Goto(t, "locked")
    /\ UNCHANGED <<g_init, hal, devs, call, led, step, err, sysfs>>

(* The configuration that thread t's call stores, after the attention      *)
(* light's fix-up.                                                         *)
NewConfig(t) ==
    StoredConfig(IF call[t].light = "attention" THEN FixedAttention(call[t].state)
                 ELSE call[t].state)

(* The LED user of the highest index below `type' that is lit, or -1. *)
LitBelow(type) == {i \in 0..(type - 1) : Lit(g_leds[i])}
NextLower(type) ==
    CHOOSE i \in LitBelow(type) \cup {-1} : \A j \in LitBelow(type) : j <= i

(* Mutant: a lit light always shows. *)
Programs_NoPriority(t) ==
    Lit(NewConfig(t)) \/ LedType[call[t].light] = g_cur_led

(* set_light_locked up to the decision: which LED, if any, to program.     *)
(* A lit light is shown unless a more important one is showing; an unlit   *)
(* one that is showing gives way to the next lower one or to led_off.      *)
Programs(t) ==
    LET type == LedType[call[t].light]
    IN IF Lit(NewConfig(t)) THEN type >= g_cur_led ELSE type = g_cur_led

SetLightLocked(t) ==
    LET type == LedType[call[t].light] IN
    /\ pc[t] = "locked"
    /\ call[t].light \in LedLights
    /\ g_leds' = [g_leds EXCEPT ![type] = NewConfig(t)]
    /\ IF Programs(t)
         THEN /\ led' = [led EXCEPT ![t] = IF Lit(NewConfig(t)) THEN type ELSE NextLower(type)]
              /\ Goto(t, "write")
         ELSE /\ Goto(t, "unlock")
              /\ led' = led
    /\ UNCHANGED <<g_init, g_lock, g_cur_led, devs, call, step, err, sysfs>>

(* One write_int or write_on_off of write_leds_locked.  Its error is       *)
(* dropped and the sequence goes on.                                       *)
WriteLed(t, ok) ==
    LET f == LedWrites[step[t]] IN
    /\ pc[t] = "write"
    /\ ok \/ FailuresOccur
    /\ IF ok THEN /\ file' = [file EXCEPT ![f] = WriteValue(Config(led[t]), step[t])]
                  /\ good' = good \cup {f}
             ELSE /\ file' = file
                  /\ good' = good \ {f}
    /\ IF step[t] = LastWrite
         THEN /\ Goto(t, "switched")
              /\ step' = [step EXCEPT ![t] = 1]
         ELSE /\ pc' = pc
              /\ step' = [step EXCEPT ![t] = @ + 1]
    /\ UNCHANGED <<g_init, g_lock, hal, devs, call, led, err>>

(* Mutant: g_cur_led is not updated. *)
Switched_Keeps(t) ==
    /\ pc[t] = "switched"
    /\ led' = [led EXCEPT ![t] = -1]
    /\ Goto(t, "unlock")
    /\ UNCHANGED <<g_init, g_lock, hal, devs, call, step, err, sysfs>>

(* g_cur_led = type, or g_cur_led = i at the label `switched'. *)
Switched(t) ==
    /\ pc[t] = "switched"
    /\ g_cur_led' = led[t]
    /\ led' = [led EXCEPT ![t] = -1]
    /\ Goto(t, "unlock")
    /\ UNCHANGED <<g_init, g_lock, g_leds, devs, call, step, err, sysfs>>

(* set_light_backlight and set_light_buttons: one write, whose error is    *)
(* returned.                                                               *)
BrightnessFile == [backlight |-> "lcd", buttons |-> "button"]

(* Mutant: a failed write returns at once, without the unlock. *)
WriteBrightness_Returns(t, ok) ==
    /\ pc[t] = "locked"
    /\ call[t].light \notin LedLights
    /\ ok \/ FailuresOccur
    /\ file' = IF ok THEN [file EXCEPT ![BrightnessFile[call[t].light]] =
                              rgb_to_brightness(call[t].state)]
                     ELSE file
    /\ call' = IF ok THEN call ELSE [call EXCEPT ![t] = NoCall]
    /\ Goto(t, IF ok THEN "unlock" ELSE "idle")
    /\ UNCHANGED <<g_init, g_lock, hal, devs, led, step, err, good>>

WriteBrightness(t, ok) ==
    /\ pc[t] = "locked"
    /\ call[t].light \notin LedLights
    /\ ok \/ FailuresOccur
    /\ IF ok THEN /\ file' = [file EXCEPT ![BrightnessFile[call[t].light]] =
                                  rgb_to_brightness(call[t].state)]
                  /\ err' = err
             ELSE /\ file' = file
                  /\ err' = [err EXCEPT ![t] = -1]
    /\ Goto(t, "unlock")
    /\ UNCHANGED <<g_init, g_lock, hal, devs, call, led, step, good>>

(* pthread_mutex_unlock and the return; the LED calls return 0 always. *)
Unlock(t) ==
    /\ pc[t] = "unlock"
    /\ g_lock' = NoThread
    /\ Goto(t, "idle")
    /\ call' = [call EXCEPT ![t] = NoCall]
    /\ err' = [err EXCEPT ![t] = 0]
    /\ UNCHANGED <<g_init, hal, devs, led, step, sysfs>>

(* The process dies, at any point, and is started again: its memory is     *)
(* fresh, the files keep what was written.                                 *)
Crash ==
    /\ CrashesOccur
    /\ g_init' = "never"
    /\ g_lock' = NoThread
    /\ g_leds' = [i \in 0..2 |-> led_off]
    /\ g_cur_led' = -1
    /\ devs' = [l \in LightIds |-> 0]
    /\ pc' = [t \in Threads |-> "idle"]
    /\ call' = [t \in Threads |-> NoCall]
    /\ led' = [t \in Threads |-> -1]
    /\ step' = [t \in Threads |-> 1]
    /\ err' = [t \in Threads |-> 0]
    /\ good' = {}
    /\ UNCHANGED file

-----------------------------------------------------------------------------
(* The steps a thread takes once it has called into the HAL. *)
Proceed(t) ==
    \/ OnceEnter(t) \/ OnceSkip(t) \/ InitGlobals(t) \/ AllocDevice(t)
    \/ Lock(t) \/ SetLightLocked(t)
    \/ \E ok \in BOOLEAN : WriteLed(t, ok) \/ WriteBrightness(t, ok)
    \/ Switched(t) \/ Unlock(t)

Calling(t) ==
    \/ \E name \in Names : OpenUnknown(t, name) \/ OpenLights(t, name)
    \/ \E l \in LightIds : CloseLights(t, l)
    \/ \E l \in LightIds, state \in States : SetLight(t, l, state)

Next == (\E t \in Threads : Calling(t) \/ Proceed(t)) \/ Crash

Spec == Init /\ [][Next]_vars

(* A thread inside the HAL keeps running; nobody has to call, and nothing  *)
(* makes pthread_mutex_lock fair between threads that wait.                *)
FairSpec == Spec /\ \A t \in Threads : WF_vars(Proceed(t))

-----------------------------------------------------------------------------
(* Properties *)

Critical == {"locked", "write", "switched", "unlock"}
Labels == {"idle", "lock"} \cup Opening \cup Critical

(* Type invariant: every variable of lights.c, and every sysfs file, has   *)
(* a value of its C type.                                                  *)
TypeOK ==
    /\ g_init \in {"never", "running", "done"}
    /\ g_lock \in Threads \cup {NoThread}
    /\ g_leds \in [0..2 -> LedConfig]
    /\ g_cur_led \in -1..2
    /\ devs \in [LightIds -> Nat]
    /\ pc \in [Threads -> Labels]
    /\ call \in [Threads -> {NoCall} \cup Opens \cup Calls]
    /\ \A t \in Threads : /\ pc[t] \in Opening => call[t] \in Opens
                          /\ pc[t] \in {"lock"} \cup Critical => call[t] \in Calls
    /\ led \in [Threads -> -1..2]
    /\ step \in [Threads -> 1..LastWrite]
    /\ err \in [Threads -> {0, -1}]
    /\ DOMAIN file = LedFiles \cup {"lcd", "button"}
    /\ \A f \in Channels \cup {"lcd", "button"} : file[f] \in 0..255
    /\ \A f \in MsFiles : file[f] \in Int \X Int
    /\ file["rgb_start"] \in {0, 1}
    /\ good \subseteq LedFiles

(* No call is between storing a request and updating g_cur_led. *)
Settled == \A t \in Threads : pc[t] \notin {"write", "switched"}

(* g_cur_led is the most important lit user, or -1: the multiplexing that  *)
(* set_light_locked keeps incrementally over g_leds (comment at 166-170).  *)
CurIsHighestLit ==
    Settled =>
      /\ g_cur_led # -1 => Lit(g_leds[g_cur_led])
      /\ \A i \in 0..2 : i > g_cur_led => ~Lit(g_leds[i])

(* The LED hardware shows the configuration of g_cur_led, file by file:    *)
(* whatever calls and failed writes came before, a file whose last write   *)
(* succeeded is up to date as soon as no call is under way.                *)
PanelFollowsTable ==
    Settled => \A f \in good : file[f] = Shown(Config(g_cur_led), f)

(* init_globals re-initialises g_lock; no thread owns or waits for the     *)
(* mutex at that moment, because a device comes only out of open_lights.   *)
LockNotReinitialised ==
    \A t, u \in Threads :
        pc[t] = "init_globals" => pc[u] \notin Critical \cup {"lock"}

(* set_light_backlight and set_light_buttons return 0 only when the file   *)
(* holds the brightness of that very call at the moment of the unlock.     *)
AckedBrightness ==
    \A t \in Threads :
        pc[t] = "unlock" /\ call[t].light \notin LedLights /\ err[t] = 0 =>
            file[BrightnessFile[call[t].light]] = rgb_to_brightness(call[t].state)

(* The comment on g_cur_led (line 56), "Presently showing LED of the       *)
(* above", read for the hardware at the end of a request that turns a      *)
(* light off: when g_cur_led is -1 by then, the LED does not run with a    *)
(* colour.                                                                 *)
PresentlyShowing ==
    \A t \in Threads :
        /\ pc[t] = "unlock" /\ call[t].light \in LedLights /\ ~Lit(NewConfig(t))
        /\ g_cur_led = -1
        => ~(file["rgb_start"] = 1 /\ \E ch \in Channels : file[ch] > 0)

(* g_lock is owned by exactly the thread that is between lock and unlock   *)
(* of a method: one at a time, and no path, through failed writes or not,  *)
(* leaves a method with the mutex or goes on without it.                   *)
LockHeldInside == \A t \in Threads : g_lock = t <=> pc[t] \in Critical

(* open_lights returns, also to a thread that waits for another thread's   *)
(* pthread_once.                                                           *)
OpenReturns == \A t \in Threads : pc[t] \in Opening ~> pc[t] = "idle"

-----------------------------------------------------------------------------
(* The abstract arbiter that this implements when sysfs does not fail. *)
Updating == [phase |-> "updating"]
Torn == [phase |-> "torn"]

Panel ==
    IF file["rgb_start"] = 0 THEN Updating
    ELSE IF \E f, g \in MsFiles : file[f] # file[g] THEN Torn
    ELSE [colorRGB |-> [ch \in Channels |-> file[ch]],
          onMS |-> file["red_ms"][1], offMS |-> file["red_ms"][2]]

Arbiter == INSTANCE LedArbiter WITH
    Configs <- {StoredConfig(s) : s \in States} \cup {StoredConfig(FixedAttention(s)) : s \in States},
    Off <- led_off, Updating <- Updating, Lit <- Lit, want <- g_leds, panel <- Panel

(* Refinement: seen through rgb_start, the LED goes from one complete      *)
(* configuration to the best requested one, never through a mixture, and   *)
(* an out-of-date LED is eventually brought up to date.                    *)
ImplementsArbiter == Arbiter!FairSpec
=============================================================================
