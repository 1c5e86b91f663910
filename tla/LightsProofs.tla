---------------------------- MODULE LightsProofs ----------------------------
(***************************************************************************)
(* Proofs about the lights HAL, for any set of threads, light states and   *)
(* names, with failing writes and with crashes of the process.             *)
(*                                                                         *)
(* The properties of Lights.tla are not inductive by themselves: between   *)
(* set_light_locked and the assignment to g_cur_led the table and the LED  *)
(* disagree with g_cur_led.  IInv adds who owns g_lock, what pthread_once  *)
(* guarantees, and what the thread that is writing has already written.    *)
(***************************************************************************)
EXTENDS Lights, TLAPS

-----------------------------------------------------------------------------
(* Facts about the operators *)

(* The three LED users are numbered within g_leds. *)
LEMMA LedTypeRange ==
    /\ LedLights = {"battery", "notifications", "attention"}
    /\ \A l \in LedLights : LedType[l] \in 0..2
BY DEF LedLights, LedType

(* write_leds_locked writes rgb_start first and last, and each other LED   *)
(* file exactly once in between.                                           *)
LEMMA WritesCover ==
    /\ LedWrites[1] = "rgb_start" /\ LedWrites[LastWrite] = "rgb_start"
    /\ \A s \in 2..7 : LedWrites[s] \in Channels \cup MsFiles
    /\ \A r, s \in 2..7 : LedWrites[r] = LedWrites[s] => r = s
    /\ \A f \in Channels \cup MsFiles : \E s \in 2..7 : LedWrites[s] = f
  <1>1. /\ LedWrites[1] = "rgb_start"
        /\ LedWrites[2] = "red"
        /\ LedWrites[3] = "green"
        /\ LedWrites[4] = "blue"
        /\ LedWrites[5] = "red_ms"
        /\ LedWrites[6] = "green_ms"
        /\ LedWrites[7] = "blue_ms"
        /\ LedWrites[8] = "rgb_start"
    BY DEF LedWrites
  <1>2. \A s \in 2..7 : s = 2 \/ s = 3 \/ s = 4 \/ s = 5 \/ s = 6 \/ s = 7
    OBVIOUS
  <1> QED BY <1>1, <1>2 DEF Channels, MsFiles, LastWrite

(* A 16-bit value shifted right by 8 is a byte. *)
LEMMA ByteOfSum ==
    ASSUME NEW n \in Int, n >= 0, n <= 65535
    PROVE  n \div 256 >= 0 /\ n \div 256 <= 255
BY SMTT(10)

(* The weights of rgb_to_brightness add up to 256, so that the weighted    *)
(* sum of three bytes fits 16 bits.                                        *)
LEMMA WeightedSum ==
    ASSUME NEW r \in Int, NEW g \in Int, NEW b \in Int,
           r >= 0, r <= 255, g >= 0, g <= 255, b >= 0, b <= 255
    PROVE  /\ 77 * r + 150 * g + 29 * b >= 0
           /\ 77 * r + 150 * g + 29 * b <= 65535
BY SMTT(10)

(* rgb_to_brightness never leaves 0..255, the range the backlight and      *)
(* button files take: for every light_state_t, no rounding or overflow     *)
(* gets past it.                                                           *)
THEOREM BrightnessRange ==
    \A state \in LightState : rgb_to_brightness(state) \in 0..255
  <1> SUFFICES ASSUME NEW state \in LightState
               PROVE  rgb_to_brightness(state) \in 0..255
    OBVIOUS
  <1> DEFINE r == state.color["red"]
             g == state.color["green"]
             b == state.color["blue"]
             n == 77 * r + 150 * g + 29 * b
  <1>1. r \in 0..255 /\ g \in 0..255 /\ b \in 0..255
    BY DEF LightState, Channels
  <1> HIDE DEF r, g, b
  <1>2. n \in Int /\ n >= 0 /\ n <= 65535
    BY <1>1, WeightedSum
  <1>3. rgb_to_brightness(state) = n \div 256
    BY DEF rgb_to_brightness, r, g, b
  <1> HIDE DEF n
  <1>4. n \div 256 \in Int
    BY <1>2
  <1> QED BY <1>2, <1>3, <1>4, ByteOfSum

(* A quotient and its remainder. *)
LEMMA ShiftedByte ==
    ASSUME NEW n \in Int
    PROVE  n \div 256 \in Int /\ 256 * (n \div 256) <= n /\ n < 256 * (n \div 256) + 256
BY SMTT(20)

(* The luminance that rgb_to_brightness approximates, in thousandths. *)
Luma(state) == 299 * state.color["red"] + 587 * state.color["green"] + 114 * state.color["blue"]

(* The 8-bit weights of rgb_to_brightness, with its shift, stay within one *)
(* and a half levels of 0.299 R + 0.587 G + 0.114 B, for every colour.     *)
THEOREM BrightnessLuma ==
    \A state \in LightState :
        /\ Luma(state) - 1500 < 1000 * rgb_to_brightness(state)
        /\ 1000 * rgb_to_brightness(state) < Luma(state) + 500
  <1> SUFFICES ASSUME NEW state \in LightState
               PROVE  /\ Luma(state) - 1500 < 1000 * rgb_to_brightness(state)
                      /\ 1000 * rgb_to_brightness(state) < Luma(state) + 500
    OBVIOUS
  <1> DEFINE n == 77 * state.color["red"] + 150 * state.color["green"] + 29 * state.color["blue"]
             q == rgb_to_brightness(state)
  <1>1. PICK r \in 0..255, g \in 0..255, b \in 0..255 :
            state.color["red"] = r /\ state.color["green"] = g /\ state.color["blue"] = b
    BY DEF LightState, Channels
  <1>2. n = 77 * r + 150 * g + 29 * b /\ q = n \div 256
    BY <1>1 DEF rgb_to_brightness
  <1>3. Luma(state) = 299 * r + 587 * g + 114 * b
    BY <1>1 DEF Luma
  <1> HIDE DEF n, q
  <1>4. n \in Int
    BY <1>1, <1>2
  <1>5. q \in Int /\ 256 * q <= n /\ n < 256 * q + 256
    BY <1>2, <1>4, ShiftedByte
  <1>6. 299 * r + 587 * g + 114 * b - 1500 < 1000 * q /\ 1000 * q < 299 * r + 587 * g + 114 * b + 500
    <2>1. 256 * q <= 77 * r + 150 * g + 29 * b /\ 77 * r + 150 * g + 29 * b < 256 * q + 256
      BY <1>2, <1>5
    <2>2. r \in 0..255 /\ g \in 0..255 /\ b \in 0..255
      BY <1>1
    <2>3. q \in Int
      BY <1>5
    <2> QED BY ONLY <2>1, <2>2, <2>3, SMTT(40)
  <1> QED BY <1>3, <1>6 DEF q

(* What set_light_locked stores is a led_config without an alpha byte, and *)
(* the attention light passes on a light_state_t.                          *)
LEMMA StoredConfigType ==
    /\ \A state \in LightState : StoredConfig(state) \in LedConfig
    /\ \A state \in LightState : FixedAttention(state) \in LightState
  <1>1. ASSUME NEW state \in LightState PROVE StoredConfig(state) \in LedConfig
    <2>1. state.flashOnMS \in Int /\ state.flashOffMS \in Int
      BY DEF LightState
    <2>2. [ch \in Channels |-> state.color[ch]] \in [Channels -> 0..255]
      BY DEF LightState
    <2> QED BY <2>1, <2>2 DEF StoredConfig, LedConfig
  <1>2. ASSUME NEW state \in LightState PROVE FixedAttention(state) \in LightState
    <2>1. [state EXCEPT !.color = [ch \in DOMAIN state.color |-> 0]] \in LightState
      BY DEF LightState
    <2>2. [state EXCEPT !.flashMode = "LIGHT_FLASH_NONE"] \in LightState
      BY DEF LightState, FlashModes
    <2> QED BY <2>1, <2>2 DEF FixedAttention
  <1> QED BY <1>1, <1>2

(* The loop of set_light_locked over the lower indices finds the highest   *)
(* lit one, or leaves i at -1.                                             *)
LEMMA NextLowerIsHighest ==
    ASSUME NEW type \in 0..2
    PROVE  /\ NextLower(type) \in -1..(type - 1)
           /\ NextLower(type) # -1 => Lit(g_leds[NextLower(type)])
           /\ \A i \in 0..(type - 1) : i > NextLower(type) => ~Lit(g_leds[i])
  <1> DEFINE Best(i) == i \in LitBelow(type) \cup {-1} /\ \A j \in LitBelow(type) : j <= i
  <1>1. \E i : Best(i)
    <2>0. type = 0 \/ type = 1 \/ type = 2 OBVIOUS
    <2>1. CASE 1 \in LitBelow(type)
      <3> Best(1) BY <2>0, <2>1 DEF LitBelow
      <3> QED OBVIOUS
    <2>2. CASE 1 \notin LitBelow(type) /\ 0 \in LitBelow(type)
      <3> Best(0) BY <2>0, <2>2 DEF LitBelow
      <3> QED OBVIOUS
    <2>3. CASE 1 \notin LitBelow(type) /\ 0 \notin LitBelow(type)
      <3> Best(-1) BY <2>0, <2>3 DEF LitBelow
      <3> QED OBVIOUS
    <2> QED BY <2>1, <2>2, <2>3
  <1>2. Best(NextLower(type)) BY <1>1 DEF NextLower
  <1> QED BY <1>2 DEF LitBelow

-----------------------------------------------------------------------------
(* The inductive invariant *)

(* Before init_globals is done nobody has a device or is inside a method,  *)
(* and at most one thread runs it.                                         *)
OnceInv ==
    /\ g_init # "done" =>
         /\ \A t \in Threads : pc[t] \notin {"alloc", "lock"} \cup Critical
         /\ \A l \in LightIds : devs[l] = 0
    /\ \A t \in Threads : pc[t] = "init_globals" => g_init = "running"
    /\ \A t, u \in Threads : pc[t] = "init_globals" /\ pc[u] = "init_globals" => t = u

(* The write sequence starts at its first write. *)
StepInv == \A t \in Threads : pc[t] # "write" => step[t] = 1

(* i is the most important lit user, or -1. *)
Highest(i) == /\ i # -1 => Lit(g_leds[i])
              /\ \A j \in 0..2 : j > i => ~Lit(g_leds[j])

(* The index being programmed is the right one for the table, and the      *)
(* files already written show its configuration.                           *)
WriteInv ==
    \A t \in Threads :
        /\ pc[t] \in {"write", "switched"} => Highest(led[t])
        /\ pc[t] = "write" =>
             \A s \in 2..7 : s < step[t] /\ LedWrites[s] \in good =>
                 file[LedWrites[s]] = Shown(Config(led[t]), LedWrites[s])
        /\ pc[t] = "switched" =>
             \A f \in good : file[f] = Shown(Config(led[t]), f)

IInv == /\ TypeOK /\ LockHeldInside /\ OnceInv /\ StepInv
        /\ WriteInv /\ CurIsHighestLit /\ PanelFollowsTable

(* The invariant holds in a fresh process. *)
LEMMA InitIInv == Init => IInv
  <1> SUFFICES ASSUME Init PROVE IInv OBVIOUS
  <1>0. led_off \in LedConfig /\ ~Lit(led_off)
    BY DEF led_off, LedConfig, Lit, Channels
  <1>1. TypeOK
    BY <1>0 DEF Init, TypeOK, Labels, Opening, Critical, LastWrite, LedFiles, Channels, MsFiles,
       Shown, led_off
  <1>2. LockHeldInside /\ OnceInv /\ StepInv /\ WriteInv
    BY ThreadsAssumption DEF Init, LockHeldInside, OnceInv, StepInv, WriteInv, Critical
  <1>3. CurIsHighestLit /\ PanelFollowsTable
    BY <1>0 DEF Init, CurIsHighestLit, PanelFollowsTable
  <1> QED BY <1>1, <1>2, <1>3 DEF IInv

(* Facts about the calls that reach set_light_locked. *)
LEMMA CallFacts ==
    ASSUME TypeOK, NEW t \in Threads, pc[t] \in {"lock"} \cup Critical
    PROVE  /\ call[t].light \in LightIds /\ call[t].state \in LightState
           /\ NewConfig(t) \in LedConfig
           /\ call[t].light \in LedLights => LedType[call[t].light] \in 0..2
  <1>1. call[t] \in Calls
    BY DEF TypeOK
  <1>2. call[t].light \in LightIds /\ call[t].state \in LightState
    BY <1>1, StatesAssumption DEF Calls
  <1> QED BY <1>2, StoredConfigType, LedTypeRange DEF NewConfig

(* What every step of one thread does to the program counters. *)
Moves(t, from, to) ==
    pc[t] \in from /\ \E label \in to : pc' = [pc EXCEPT ![t] = label]

(* A step that leaves the table, the LED and the write sequence alone      *)
(* keeps the three invariants about them.                                  *)
LEMMA LedFrame ==
    ASSUME IInv, NEW t \in Threads,
           UNCHANGED <<g_leds, g_cur_led, led, step, good>>,
           \A f \in LedFiles : file'[f] = file[f],
           Moves(t, Labels \ {"write", "switched"}, Labels \ {"write", "switched"})
    PROVE  StepInv' /\ WriteInv' /\ CurIsHighestLit' /\ PanelFollowsTable'
  <1> PICK label \in Labels \ {"write", "switched"} : pc' = [pc EXCEPT ![t] = label]
    BY DEF Moves
  <1>1. /\ pc'[t] = label /\ \A u \in Threads \ {t} : pc'[u] = pc[u]
        /\ pc[t] \notin {"write", "switched"} /\ good \subseteq LedFiles
        /\ label \notin {"write", "switched"}
    BY DEF IInv, TypeOK, Moves
  <1>2. StepInv'
    BY <1>1 DEF IInv, StepInv
  <1>3. \A s \in 2..7 : LedWrites[s] \in LedFiles
    BY WritesCover DEF LedFiles
  <1>4. WriteInv'
    <2>1. \A i : Highest(i)' <=> Highest(i)
      BY DEF Highest, Lit
    <2>2. \A i : Config(i)' = Config(i)
      BY DEF Config
    <2>3. \A u \in Threads : pc'[u] \in {"write", "switched"} => u # t /\ pc[u] = pc'[u]
      BY <1>1
    <2> QED BY <1>1, <1>3, <2>1, <2>2, <2>3 DEF IInv, WriteInv, Shown
  <1>5. Settled' <=> Settled
    BY <1>1 DEF Settled
  <1>6. CurIsHighestLit'
    BY <1>5 DEF IInv, CurIsHighestLit, Lit
  <1>7. PanelFollowsTable'
    BY <1>1, <1>5 DEF IInv, PanelFollowsTable, Config, Shown
  <1> QED BY <1>2, <1>4, <1>6, <1>7

(* open_lights for a light of this device keeps the invariant. *)
LEMMA OpenLightsStep ==
    ASSUME IInv, NEW t \in Threads, NEW l \in Names, OpenLights(t, l)
    PROVE  IInv'
  <1> USE DEF OpenLights, Goto, hal, sysfs, Labels, Opening, Critical
  <1>1. TypeOK'
    BY DEF IInv, TypeOK, Opens
  <1>2. LockHeldInside' /\ OnceInv'
    BY DEF IInv, TypeOK, LockHeldInside, OnceInv
  <1>3. StepInv' /\ WriteInv' /\ CurIsHighestLit' /\ PanelFollowsTable'
    BY LedFrame DEF Moves
  <1> QED BY <1>1, <1>2, <1>3 DEF IInv

(* Entering pthread_once first keeps the invariant: nobody is past it. *)
LEMMA OnceEnterStep ==
    ASSUME IInv, NEW t \in Threads, OnceEnter(t)
    PROVE  IInv'
  <1> USE DEF OnceEnter, Goto, hal, sysfs, Labels, Opening, Critical
  <1>1. TypeOK'
    BY DEF IInv, TypeOK
  <1>2. LockHeldInside' /\ OnceInv'
    BY DEF IInv, TypeOK, LockHeldInside, OnceInv
  <1>3. StepInv' /\ WriteInv' /\ CurIsHighestLit' /\ PanelFollowsTable'
    BY LedFrame DEF Moves
  <1> QED BY <1>1, <1>2, <1>3 DEF IInv

(* Passing a finished pthread_once keeps the invariant. *)
LEMMA OnceSkipStep ==
    ASSUME IInv, NEW t \in Threads, OnceSkip(t)
    PROVE  IInv'
  <1> USE DEF OnceSkip, Goto, hal, sysfs, Labels, Opening, Critical
  <1>1. TypeOK'
    BY DEF IInv, TypeOK
  <1>2. LockHeldInside' /\ OnceInv'
    BY DEF IInv, TypeOK, LockHeldInside, OnceInv
  <1>3. StepInv' /\ WriteInv' /\ CurIsHighestLit' /\ PanelFollowsTable'
    BY LedFrame DEF Moves
  <1> QED BY <1>1, <1>2, <1>3 DEF IInv

(* init_globals keeps the invariant: nobody holds the mutex it forgets. *)
LEMMA InitGlobalsStep ==
    ASSUME IInv, NEW t \in Threads, InitGlobals(t)
    PROVE  IInv'
  <1> USE DEF InitGlobals, Goto, hal, sysfs, Labels, Opening, Critical
  <1>1. TypeOK'
    BY DEF IInv, TypeOK
  <1>2. LockHeldInside' /\ OnceInv'
    BY DEF IInv, TypeOK, LockHeldInside, OnceInv
  <1>3. StepInv' /\ WriteInv' /\ CurIsHighestLit' /\ PanelFollowsTable'
    BY LedFrame DEF Moves
  <1> QED BY <1>1, <1>2, <1>3 DEF IInv

(* Returning the device keeps the invariant: pthread_once is done. *)
LEMMA AllocDeviceStep ==
    ASSUME IInv, NEW t \in Threads, AllocDevice(t)
    PROVE  IInv'
  <1> USE DEF AllocDevice, Goto, hal, sysfs, Labels, Opening, Critical
  <1>0. devs \in [LightIds -> Nat] /\ call[t].light \in LightIds
    BY DEF IInv, TypeOK, Opens
  <1>0a. devs' \in [LightIds -> Nat]
    BY <1>0
  <1>1. TypeOK'
    BY <1>0a DEF IInv, TypeOK
  <1>2. LockHeldInside' /\ OnceInv'
    BY DEF IInv, TypeOK, LockHeldInside, OnceInv
  <1>3. StepInv' /\ WriteInv' /\ CurIsHighestLit' /\ PanelFollowsTable'
    BY LedFrame DEF Moves
  <1> QED BY <1>1, <1>2, <1>3 DEF IInv

(* close_lights keeps the invariant: it touches neither table nor LED. *)
LEMMA CloseLightsStep ==
    ASSUME IInv, NEW t \in Threads, NEW l \in LightIds, CloseLights(t, l)
    PROVE  IInv'
  <1> USE DEF CloseLights, hal, thread, sysfs
  <1>1. devs' \in [LightIds -> Nat] /\ (g_init # "done" => devs' = devs)
    BY DEF IInv, TypeOK, OnceInv
  <1>2. TypeOK'
    BY <1>1 DEF IInv, TypeOK
  <1>3. LockHeldInside' /\ OnceInv' /\ StepInv'
    BY <1>1 DEF IInv, LockHeldInside, OnceInv, StepInv
  <1>4. WriteInv' /\ CurIsHighestLit' /\ PanelFollowsTable'
    BY DEF IInv, WriteInv, Highest, CurIsHighestLit, PanelFollowsTable, Settled, Config, Lit
  <1> QED BY <1>2, <1>3, <1>4 DEF IInv

(* Calling a set_light method keeps the invariant: a device exists, so     *)
(* that pthread_once is done.                                              *)
LEMMA SetLightStep ==
    ASSUME IInv, NEW t \in Threads, NEW l \in LightIds, NEW state \in States, SetLight(t, l, state)
    PROVE  IInv'
  <1> USE DEF SetLight, Goto, hal, sysfs, Labels, Opening, Critical
  <1>1. TypeOK'
    BY DEF IInv, TypeOK, Calls
  <1>2. LockHeldInside' /\ OnceInv'
    BY ThreadsAssumption DEF IInv, TypeOK, LockHeldInside, OnceInv
  <1>3. StepInv' /\ WriteInv' /\ CurIsHighestLit' /\ PanelFollowsTable'
    BY LedFrame DEF Moves
  <1> QED BY <1>1, <1>2, <1>3 DEF IInv

(* Acquiring g_lock keeps the invariant. *)
LEMMA LockStep ==
    ASSUME IInv, NEW t \in Threads, Lock(t)
    PROVE  IInv'
  <1> USE DEF Lock, Goto, hal, sysfs, Labels, Opening, Critical
  <1>1. TypeOK'
    BY DEF IInv, TypeOK
  <1>2. LockHeldInside' /\ OnceInv'
    BY ThreadsAssumption DEF IInv, TypeOK, LockHeldInside, OnceInv
  <1>3. StepInv' /\ WriteInv' /\ CurIsHighestLit' /\ PanelFollowsTable'
    BY LedFrame DEF Moves
  <1> QED BY <1>1, <1>2, <1>3 DEF IInv

(* The single write of backlight and buttons keeps the invariant: its file *)
(* is none of the LED, and its value a byte.                               *)
LEMMA WriteBrightnessStep ==
    ASSUME IInv, NEW t \in Threads, NEW ok \in BOOLEAN, WriteBrightness(t, ok)
    PROVE  IInv'
  <1> USE DEF WriteBrightness, Goto, hal, sysfs, Labels, Opening, Critical
  <1>0. rgb_to_brightness(call[t].state) \in 0..255
    BY CallFacts, BrightnessRange DEF IInv
  <1>0a. BrightnessFile[call[t].light] \in {"lcd", "button"}
    BY CallFacts, LedTypeRange DEF IInv, BrightnessFile, LightIds
  <1>1. TypeOK'
    <2>1. /\ DOMAIN file' = DOMAIN file
          /\ \A g \in DOMAIN file :
                \/ file'[g] = file[g]
                \/ g \in {"lcd", "button"} /\ file'[g] = rgb_to_brightness(call[t].state)
      BY <1>0a
    <2>2. DOMAIN file = {"rgb_start", "lcd", "button"} \cup Channels \cup MsFiles
      BY DEF IInv, TypeOK, LedFiles
    <2>3. {"lcd", "button"} \cap (MsFiles \cup {"rgb_start"}) = {}
      BY DEF MsFiles
    <2>4. /\ \A g \in Channels \cup {"lcd", "button"} : file'[g] \in 0..255
          /\ \A g \in MsFiles : file'[g] \in Int \X Int
          /\ file'["rgb_start"] \in {0, 1}
      <3>1. /\ \A g \in Channels \cup {"lcd", "button"} : file[g] \in 0..255
            /\ \A g \in MsFiles : file[g] \in Int \X Int
            /\ file["rgb_start"] \in {0, 1}
        BY DEF IInv, TypeOK
      <3>2. \A g \in Channels \cup {"lcd", "button"} : file'[g] \in 0..255
        BY ONLY <1>0, <2>1, <2>2, <3>1
      <3>3. \A g \in MsFiles : file'[g] \in Int \X Int
        BY <2>1, <2>2, <2>3, <3>1
      <3>4. file'["rgb_start"] \in {0, 1}
        BY <2>1, <2>2, <2>3, <3>1
      <3> QED BY <3>2, <3>3, <3>4
    <2>5. err' \in [Threads -> {0, -1}] /\ pc' \in [Threads -> Labels]
      BY DEF IInv, TypeOK
    <2> QED BY <2>1, <2>4, <2>5 DEF IInv, TypeOK
  <1>2. LockHeldInside' /\ OnceInv'
    BY ThreadsAssumption DEF IInv, TypeOK, LockHeldInside, OnceInv
  <1>3. StepInv' /\ WriteInv' /\ CurIsHighestLit' /\ PanelFollowsTable'
    <2>1. \A f \in LedFiles : file'[f] = file[f]
      BY <1>0a DEF IInv, TypeOK, LedFiles, Channels, MsFiles
    <2> QED BY <2>1, LedFrame DEF Moves
  <1> QED BY <1>1, <1>2, <1>3 DEF IInv

(* Releasing g_lock and returning keeps the invariant. *)
LEMMA UnlockStep ==
    ASSUME IInv, NEW t \in Threads, Unlock(t)
    PROVE  IInv'
  <1> USE DEF Unlock, Goto, hal, sysfs, Labels, Opening, Critical
  <1>1. TypeOK'
    BY DEF IInv, TypeOK
  <1>2. LockHeldInside' /\ OnceInv'
    BY ThreadsAssumption DEF IInv, TypeOK, LockHeldInside, OnceInv
  <1>3. StepInv' /\ WriteInv' /\ CurIsHighestLit' /\ PanelFollowsTable'
    BY LedFrame DEF Moves
  <1> QED BY <1>1, <1>2, <1>3 DEF IInv

(* A crash at any point keeps the invariant: nothing is known of the files *)
(* that the next process has not written.                                  *)
LEMMA CrashStep ==
    ASSUME IInv, Crash
    PROVE  IInv'
  <1> USE DEF Crash
  <1>0. led_off \in LedConfig /\ ~Lit(led_off)
    BY DEF led_off, LedConfig, Lit, Channels
  <1>1. TypeOK'
    BY <1>0 DEF IInv, TypeOK, Labels, Opening, Critical, LastWrite
  <1>2. LockHeldInside' /\ OnceInv' /\ StepInv' /\ WriteInv'
    BY ThreadsAssumption DEF LockHeldInside, OnceInv, StepInv, WriteInv, Critical
  <1>3. CurIsHighestLit' /\ PanelFollowsTable'
    <2>1. \A i \in 0..2 : ~Lit(g_leds[i])'
      BY <1>0 DEF Lit
    <2> QED BY <2>1 DEF CurIsHighestLit, PanelFollowsTable
  <1> QED BY <1>1, <1>2, <1>3 DEF IInv

(* Between two calls the decision of set_light_locked re-establishes the   *)
(* priority order: either the index it is going to program is the highest  *)
(* lit one, or g_cur_led still is.                                         *)
LEMMA DecisionIsHighest ==
    ASSUME IInv, NEW t \in Threads, SetLightLocked(t)
    PROVE  /\ Programs(t) => led'[t] \in -1..2 /\ Highest(led[t])'
           /\ ~Programs(t) => Highest(g_cur_led)' /\ Config(g_cur_led)' = Config(g_cur_led)
  <1> DEFINE type == LedType[call[t].light]
             new == NewConfig(t)
  <1>1. /\ type \in 0..2 /\ new \in LedConfig
        /\ g_leds \in [0..2 -> LedConfig] /\ g_cur_led \in -1..2
        /\ pc[t] = "locked"
    BY CallFacts DEF IInv, TypeOK, SetLightLocked, Critical
  <1>2. Settled
    BY <1>1 DEF IInv, LockHeldInside, Settled, Critical
  <1>3. Highest(g_cur_led)
    BY <1>2 DEF IInv, CurIsHighestLit, Highest
  <1>4. /\ g_leds'[type] = new /\ g_cur_led' = g_cur_led
        /\ \A i \in 0..2 : i # type => g_leds'[i] = g_leds[i]
    BY <1>1 DEF SetLightLocked
  <1>5. /\ led \in [Threads -> -1..2]
        /\ Programs(t) => led' = [led EXCEPT ![t] = IF Lit(new) THEN type ELSE NextLower(type)]
    BY DEF IInv, TypeOK, SetLightLocked
  <1>6. Programs(t) <=> IF Lit(new) THEN type >= g_cur_led ELSE type = g_cur_led
    BY DEF Programs
  <1>7. /\ Lit(g_leds'[type]) <=> Lit(new)
        /\ \A i \in 0..2 : i # type => (Lit(g_leds'[i]) <=> Lit(g_leds[i]))
    BY <1>4 DEF Lit
  <1> HIDE DEF type, new
  <1>a. CASE Lit(new) /\ type >= g_cur_led
    <2>1. led'[t] = type
      BY <1>5, <1>6, <1>a
    <2>2. Highest(led[t])'
      BY <1>1, <1>3, <1>7, <1>a, <2>1 DEF Highest
    <2> QED BY <1>1, <1>6, <1>a, <2>1, <2>2
  <1>b. CASE Lit(new) /\ ~(type >= g_cur_led)
    <2>1. Highest(g_cur_led)'
      BY <1>1, <1>3, <1>4, <1>7, <1>b DEF Highest
    <2>2. Config(g_cur_led)' = Config(g_cur_led)
      BY <1>1, <1>4, <1>b DEF Config
    <2> QED BY <1>6, <1>b, <2>1, <2>2
  <1>c. CASE ~Lit(new) /\ type = g_cur_led
    <2>1. led'[t] = NextLower(type)
      BY <1>5, <1>6, <1>c
    <2>2. /\ NextLower(type) \in -1..(type - 1)
          /\ NextLower(type) # -1 => Lit(g_leds[NextLower(type)])
          /\ \A i \in 0..(type - 1) : i > NextLower(type) => ~Lit(g_leds[i])
      BY <1>1, NextLowerIsHighest
    <2>3. Highest(led[t])'
      BY <1>1, <1>3, <1>7, <1>c, <2>1, <2>2 DEF Highest
    <2> QED BY <1>1, <1>6, <1>c, <2>1, <2>2, <2>3
  <1>d. CASE ~Lit(new) /\ type # g_cur_led
    <2>1. Highest(g_cur_led)'
      BY <1>1, <1>3, <1>4, <1>7, <1>d DEF Highest
    <2>2. Config(g_cur_led)' = Config(g_cur_led)
      BY <1>1, <1>4, <1>d DEF Config
    <2> QED BY <1>6, <1>d, <2>1, <2>2
  <1> QED BY <1>a, <1>b, <1>c, <1>d

(* Storing the request and deciding keeps the invariant. *)
LEMMA SetLightLockedStep ==
    ASSUME IInv, NEW t \in Threads, SetLightLocked(t)
    PROVE  IInv'
  <1>0. /\ pc[t] = "locked" /\ pc \in [Threads -> Labels]
        /\ pc' = [pc EXCEPT ![t] = IF Programs(t) THEN "write" ELSE "unlock"]
        /\ UNCHANGED <<g_init, g_lock, g_cur_led, devs, call, step, err, file, good>>
        /\ g_leds' = [g_leds EXCEPT ![LedType[call[t].light]] = NewConfig(t)]
        /\ ~Programs(t) => led' = led
        /\ Programs(t) => \E i : led' = [led EXCEPT ![t] = i]
    BY DEF IInv, TypeOK, SetLightLocked, Goto, sysfs
  <1>1. TypeOK'
    <2>1. g_leds' \in [0..2 -> LedConfig]
      BY <1>0, CallFacts DEF IInv, TypeOK, SetLightLocked, Critical
    <2>2. led' \in [Threads -> -1..2]
      BY <1>0, DecisionIsHighest DEF IInv, TypeOK
    <2> QED BY <1>0, <2>1, <2>2 DEF IInv, TypeOK, Labels, Opening, Critical
  <1>2. LockHeldInside' /\ OnceInv' /\ StepInv'
    BY <1>0 DEF IInv, LockHeldInside, OnceInv, StepInv, Labels, Opening, Critical
  <1>3. \A u \in Threads \ {t} : pc[u] \notin Critical /\ pc'[u] = pc[u]
    BY <1>0 DEF IInv, LockHeldInside, Critical
  <1>4. step[t] = 1 /\ step'[t] = 1
    BY <1>0 DEF IInv, StepInv
  <1>5. WriteInv'
    BY <1>0, <1>3, <1>4, DecisionIsHighest DEF WriteInv, Critical
  <1>6. Settled /\ (Settled' => ~Programs(t))
    BY <1>0, <1>3 DEF Settled, Critical
  <1>7. CurIsHighestLit'
    BY <1>6, DecisionIsHighest DEF CurIsHighestLit, Highest
  <1>8. PanelFollowsTable'
    BY <1>0, <1>6, DecisionIsHighest DEF IInv, PanelFollowsTable, Shown
  <1> QED BY <1>1, <1>2, <1>5, <1>7, <1>8 DEF IInv

(* Assigning g_cur_led keeps the invariant: all eight writes are behind. *)
LEMMA SwitchedStep ==
    ASSUME IInv, NEW t \in Threads, Switched(t)
    PROVE  IInv'
  <1> USE DEF Switched, Goto, sysfs
  <1>1. TypeOK'
    BY DEF IInv, TypeOK, Labels, Opening, Critical
  <1>2. LockHeldInside' /\ OnceInv' /\ StepInv'
    BY DEF IInv, TypeOK, LockHeldInside, OnceInv, StepInv, Labels, Opening, Critical
  <1>3. \A u \in Threads \ {t} : pc[u] \notin Critical /\ pc'[u] = pc[u]
    BY DEF IInv, LockHeldInside, Critical, TypeOK
  <1>4. /\ Highest(led[t])
        /\ \A f \in good : file[f] = Shown(Config(led[t]), f)
    BY DEF IInv, WriteInv
  <1>5. WriteInv'
    BY <1>3 DEF IInv, TypeOK, WriteInv, Critical
  <1>6. CurIsHighestLit'
    BY <1>4 DEF CurIsHighestLit, Highest, Lit
  <1>7. PanelFollowsTable'
    BY <1>4 DEF PanelFollowsTable, Config, Shown
  <1> QED BY <1>1, <1>2, <1>5, <1>6, <1>7 DEF IInv

(* A write of the LED, successful or not, keeps the invariant: the files   *)
(* before it that succeeded stay up to date.                               *)
LEMMA WriteLedStep ==
    ASSUME IInv, NEW t \in Threads, NEW ok \in BOOLEAN, WriteLed(t, ok)
    PROVE  IInv'
  <1> DEFINE s == step[t]
             f == LedWrites[s]
             cfg == Config(led[t])
  <1>0. /\ pc[t] = "write" /\ s \in 1..8 /\ led[t] \in -1..2
        /\ pc \in [Threads -> Labels] /\ step \in [Threads -> 1..8]
        /\ good \subseteq LedFiles
        /\ DOMAIN file = LedFiles \cup {"lcd", "button"}
        /\ pc' = [pc EXCEPT ![t] = IF s = 8 THEN "switched" ELSE "write"]
        /\ step' = [step EXCEPT ![t] = IF s = 8 THEN 1 ELSE s + 1]
        /\ file' = IF ok THEN [file EXCEPT ![f] = WriteValue(cfg, s)] ELSE file
        /\ good' = IF ok THEN good \cup {f} ELSE good \ {f}
        /\ UNCHANGED <<g_init, g_lock, g_leds, g_cur_led, devs, call, led, err>>
    BY DEF IInv, TypeOK, WriteLed, Goto, hal, LastWrite
  <1>1. cfg \in LedConfig /\ cfg' = cfg
    <2>1. led_off \in LedConfig /\ g_leds \in [0..2 -> LedConfig]
      <3>1. led_off \in LedConfig BY DEF led_off, LedConfig
      <3>2. g_leds \in [0..2 -> LedConfig] BY DEF IInv, TypeOK
      <3> QED BY <3>1, <3>2
    <2>2. cfg' = cfg
      BY <1>0 DEF Config
    <2> QED BY <1>0, <2>1, <2>2 DEF Config
  <1>2. /\ f \in LedFiles
        /\ s = 1 \/ s = 8 => f = "rgb_start"
        /\ s \in 2..7 => f \in Channels \cup MsFiles
    BY <1>0, WritesCover DEF LedFiles, LastWrite
  <1>3. TypeOK'
    <2>1. /\ f \in Channels => WriteValue(cfg, s) \in 0..255
          /\ f \in MsFiles => WriteValue(cfg, s) \in Int \X Int
          /\ f = "rgb_start" => WriteValue(cfg, s) \in {0, 1}
      <3>1. s \in 1..8 /\ f \in Channels \cup MsFiles => s # 1
        BY <1>0, <1>2 DEF Channels, MsFiles
      <3>2. /\ cfg.onMS \in Int /\ cfg.offMS \in Int
            /\ \A ch \in Channels : cfg.colorRGB[ch] \in 0..255
        BY <1>1 DEF LedConfig
      <3>3. f \in Channels => WriteValue(cfg, s) = cfg.colorRGB[f]
        BY <3>1 DEF WriteValue, Shown, Channels
      <3>4. f \in MsFiles => WriteValue(cfg, s) = <<cfg.onMS, cfg.offMS>>
        BY <3>1 DEF WriteValue, Shown, Channels, MsFiles
      <3>5. f = "rgb_start" => WriteValue(cfg, s) \in {0, 1}
        BY DEF WriteValue, Shown
      <3> QED BY <3>2, <3>3, <3>4, <3>5
    <2>2. /\ \A g \in Channels \cup {"lcd", "button"} : file'[g] \in 0..255
          /\ \A g \in MsFiles : file'[g] \in Int \X Int
          /\ file'["rgb_start"] \in {0, 1}
          /\ DOMAIN file' = LedFiles \cup {"lcd", "button"}
      <3>1. /\ \A g \in Channels \cup {"lcd", "button"} : file[g] \in 0..255
            /\ \A g \in MsFiles : file[g] \in Int \X Int
            /\ file["rgb_start"] \in {0, 1}
        BY DEF IInv, TypeOK
      <3>2. DOMAIN file' = DOMAIN file
        BY <1>0
      <3>3. \A g \in DOMAIN file : file'[g] = file[g] \/ (g = f /\ file'[g] = WriteValue(cfg, s))
        BY <1>0
      <3>4. Channels \cup MsFiles \cup {"lcd", "button", "rgb_start"} = DOMAIN file
        BY <1>0 DEF LedFiles
      <3>5. f \notin {"lcd", "button"}
        BY <1>2 DEF LedFiles, Channels, MsFiles
      <3>6. \A g \in Channels \cup {"lcd", "button"} : file'[g] \in 0..255
        BY <3>1, <3>3, <3>4, <3>5, <2>1
      <3>7. \A g \in MsFiles : file'[g] \in Int \X Int
        BY <3>1, <3>3, <3>4, <2>1
      <3>8. file'["rgb_start"] \in {0, 1}
        BY <3>1, <3>3, <3>4, <2>1
      <3> QED BY <1>0, <3>2, <3>6, <3>7, <3>8
    <2>3. good' \subseteq LedFiles
      BY <1>0, <1>2
    <2>4. /\ step' \in [Threads -> 1..8] /\ pc' \in [Threads -> Labels]
          /\ \A u \in Threads : /\ pc'[u] \in Opening => pc[u] \in Opening
                                /\ pc'[u] \in {"lock"} \cup Critical => pc[u] \in {"lock"} \cup Critical
      BY <1>0 DEF Labels, Opening, Critical
    <2> QED BY <1>0, <2>2, <2>3, <2>4 DEF IInv, TypeOK, LastWrite
  <1>4. LockHeldInside' /\ OnceInv' /\ StepInv'
    BY <1>0 DEF IInv, LockHeldInside, OnceInv, StepInv, Labels, Opening, Critical
  <1>5. \A u \in Threads \ {t} : pc[u] \notin Critical /\ pc'[u] = pc[u]
    BY <1>0 DEF IInv, LockHeldInside, Critical
  <1>6. /\ Highest(led[t])
        /\ \A r \in 2..7 : r < s /\ LedWrites[r] \in good =>
               file[LedWrites[r]] = Shown(cfg, LedWrites[r])
    BY <1>0 DEF IInv, WriteInv
  <1>7. \A r \in 2..7 : r <= s /\ LedWrites[r] \in good' =>
               file'[LedWrites[r]] = Shown(cfg, LedWrites[r])
    <2> SUFFICES ASSUME NEW r \in 2..7, r <= s, LedWrites[r] \in good'
                 PROVE  file'[LedWrites[r]] = Shown(cfg, LedWrites[r])
      OBVIOUS
    <2>0. LedWrites[r] \in LedFiles /\ LedWrites[r] # "rgb_start"
      BY WritesCover DEF LedFiles, Channels, MsFiles
    <2>1. CASE r = s
      BY <1>0, <2>0, <2>1 DEF WriteValue
    <2>2. CASE r < s
      <3>1. LedWrites[r] # f
        BY <1>0, <1>2, <2>0, <2>2, WritesCover
      <3> QED BY <1>0, <1>6, <2>0, <2>2, <3>1
    <2> QED BY <1>0, <2>1, <2>2
  <1>8. s = 8 => \A g \in good' : file'[g] = Shown(cfg, g)
    <2> SUFFICES ASSUME s = 8, NEW g \in good' PROVE file'[g] = Shown(cfg, g)
      OBVIOUS
    <2>1. CASE g = "rgb_start"
      BY <1>0, <1>2, <2>1 DEF WriteValue, LedFiles
    <2>2. CASE g # "rgb_start"
      <3>1. g \in Channels \cup MsFiles
        BY <1>0, <1>2, <2>2 DEF LedFiles
      <3>2. PICK r \in 2..7 : LedWrites[r] = g
        BY <3>1, WritesCover
      <3> QED BY <1>7, <3>2
    <2> QED BY <2>1, <2>2
  <1>9. WriteInv'
    <2>1. Highest(led[t])'
      BY <1>0, <1>6 DEF Highest, Lit
    <2> QED BY <1>0, <1>1, <1>5, <1>7, <1>8, <2>1 DEF WriteInv, Critical
  <1>10. ~Settled'
    BY <1>0 DEF Settled
  <1> QED BY <1>3, <1>4, <1>9, <1>10 DEF IInv, CurIsHighestLit, PanelFollowsTable

(* Every step keeps the invariant. *)
LEMMA NextIInv == IInv /\ [Next]_vars => IInv'
  <1> SUFFICES ASSUME IInv, [Next]_vars PROVE IInv' OBVIOUS
  <1>1. CASE UNCHANGED vars
    BY <1>1 DEF vars, hal, thread, sysfs, IInv, TypeOK, LockHeldInside, OnceInv, StepInv, WriteInv,
       Highest, CurIsHighestLit, PanelFollowsTable, Settled, Config, Lit
  <1>2. ASSUME NEW t \in Threads, Calling(t) PROVE IInv'
    BY <1>1, <1>2, OpenLightsStep, CloseLightsStep, SetLightStep DEF Calling, OpenUnknown
  <1>3. ASSUME NEW t \in Threads, Proceed(t) PROVE IInv'
    BY <1>3, OnceEnterStep, OnceSkipStep, InitGlobalsStep, AllocDeviceStep, LockStep,
       SetLightLockedStep, WriteLedStep, WriteBrightnessStep, SwitchedStep, UnlockStep
       DEF Proceed
  <1> QED BY <1>1, <1>2, <1>3, CrashStep DEF Next

(* The invariant holds always. *)
LEMMA Invariance == Spec => []IInv
  <1> QED BY InitIInv, NextIInv, PTL DEF Spec

-----------------------------------------------------------------------------
(* Theorems *)

(* The variables of lights.c and the sysfs files keep their types. *)
THEOREM TypeCorrect == Spec => []TypeOK
  <1>1. IInv => TypeOK BY DEF IInv
  <1> QED BY Invariance, <1>1, PTL

(* Whenever no call is under way in the middle, g_cur_led is the highest   *)
(* lit user of the LED: for every sequence and interleaving of calls the   *)
(* incremental rule of set_light_locked equals the maximum it stands for.  *)
THEOREM ArbitrationCorrect == Spec => []CurIsHighestLit
  <1>1. IInv => CurIsHighestLit BY DEF IInv
  <1> QED BY Invariance, <1>1, PTL

(* The LED files show the configuration of g_cur_led, except those whose   *)
(* last write failed, although write_leds_locked drops every error.        *)
THEOREM PanelCorrect == Spec => []PanelFollowsTable
  <1>1. IInv => PanelFollowsTable BY DEF IInv
  <1> QED BY Invariance, <1>1, PTL

(* g_lock belongs to the one thread that is inside a method, whatever      *)
(* fails there.                                                            *)
THEOREM MutualExclusion == Spec => []LockHeldInside
  <1>1. IInv => LockHeldInside BY DEF IInv
  <1> QED BY Invariance, <1>1, PTL

(* init_globals never re-initialises a mutex somebody owns or waits for.   *)
THEOREM OnceCorrect == Spec => []LockNotReinitialised
  <1>1. IInv => LockNotReinitialised BY DEF IInv, OnceInv, LockNotReinitialised
  <1> QED BY Invariance, <1>1, PTL

(* Only a call for the LED gets as far as write_leds_locked. *)
WritesForLed ==
    \A t \in Threads : pc[t] \in {"write", "switched"} => call[t].light \in LedLights

(* A step keeps it. *)
LEMMA WritesForLedStep == IInv /\ WritesForLed /\ [Next]_vars => WritesForLed'
  <1> SUFFICES ASSUME IInv, WritesForLed, [Next]_vars PROVE WritesForLed' OBVIOUS
  <1>0. DOMAIN pc = Threads /\ DOMAIN call = Threads BY DEF IInv, TypeOK
  <1>1. CASE UNCHANGED vars
    BY <1>1 DEF vars, thread, WritesForLed
  <1>2. CASE Crash
    BY <1>2 DEF Crash, WritesForLed
  <1>3. ASSUME NEW u \in Threads, Calling(u) PROVE WritesForLed'
    <2>1. ASSUME NEW name, OpenUnknown(u, name) PROVE WritesForLed'
      BY <2>1 DEF OpenUnknown, WritesForLed, vars, thread
    <2>2. ASSUME NEW l, OpenLights(u, l) PROVE WritesForLed'
      BY <1>0, <2>2 DEF OpenLights, Goto, WritesForLed
    <2>3. ASSUME NEW l, CloseLights(u, l) PROVE WritesForLed'
      BY <2>3 DEF CloseLights, WritesForLed, thread
    <2>4. ASSUME NEW l, NEW state, SetLight(u, l, state) PROVE WritesForLed'
      BY <1>0, <2>4 DEF SetLight, Goto, WritesForLed
    <2> QED BY <1>3, <2>1, <2>2, <2>3, <2>4 DEF Calling
  <1>4. ASSUME NEW u \in Threads, Proceed(u) PROVE WritesForLed'
    <2>1. CASE OnceEnter(u) \/ OnceSkip(u) \/ InitGlobals(u) \/ Lock(u) \/ Switched(u)
      BY <1>0, <2>1 DEF OnceEnter, OnceSkip, InitGlobals, Lock, Switched, Goto, WritesForLed
    <2>2. CASE AllocDevice(u) \/ Unlock(u)
      BY <1>0, <2>2 DEF AllocDevice, Unlock, Goto, WritesForLed
    <2>3. CASE SetLightLocked(u)
      BY <1>0, <2>3 DEF SetLightLocked, Goto, WritesForLed
    <2>4. ASSUME NEW ok \in BOOLEAN, WriteLed(u, ok) PROVE WritesForLed'
      BY <1>0, <2>4 DEF WriteLed, Goto, WritesForLed
    <2>5. ASSUME NEW ok \in BOOLEAN, WriteBrightness(u, ok) PROVE WritesForLed'
      BY <1>0, <2>5 DEF WriteBrightness, Goto, WritesForLed
    <2> QED BY <1>4, <2>1, <2>2, <2>3, <2>4, <2>5 DEF Proceed
  <1> QED BY <1>1, <1>2, <1>3, <1>4 DEF Next

(* A step keeps AckedBrightness: the file was written under g_lock, and    *)
(* only its owner writes.                                                  *)
LEMMA AckedStep ==
    IInv /\ WritesForLed /\ AckedBrightness /\ [Next]_vars => AckedBrightness'
  <1> SUFFICES ASSUME IInv, WritesForLed, AckedBrightness, [Next]_vars,
                      NEW t \in Threads, pc'[t] = "unlock", call'[t].light \notin LedLights,
                      err'[t] = 0
               PROVE  file'[BrightnessFile[call'[t].light]] = rgb_to_brightness(call'[t].state)
    BY DEF AckedBrightness
  <1>0. TypeOK /\ LockHeldInside BY DEF IInv
  <1>0a. DOMAIN pc = Threads /\ DOMAIN call = Threads /\ DOMAIN err = Threads BY <1>0 DEF TypeOK
  <1> DEFINE Kept == /\ pc[t] = "unlock" /\ call'[t] = call[t] /\ err'[t] = err[t]
                     /\ file' = file
  <1>k. ASSUME Kept PROVE file'[BrightnessFile[call'[t].light]] = rgb_to_brightness(call'[t].state)
    BY <1>k DEF AckedBrightness
  <1>1. CASE UNCHANGED vars
    BY <1>k, <1>1 DEF vars, thread, sysfs
  <1>2. ~Crash
    BY DEF Crash
  <1>3. ASSUME NEW u \in Threads, Calling(u) PROVE Kept
    <2>1. ASSUME NEW name, OpenUnknown(u, name) PROVE Kept
      BY <2>1 DEF OpenUnknown, vars, thread, sysfs
    <2>2. ASSUME NEW l, OpenLights(u, l) PROVE Kept
      BY <1>0a, <2>2 DEF OpenLights, Goto, sysfs
    <2>3. ASSUME NEW l, CloseLights(u, l) PROVE Kept
      BY <2>3 DEF CloseLights, thread, sysfs
    <2>4. ASSUME NEW l, NEW state, SetLight(u, l, state) PROVE Kept
      BY <1>0a, <2>4 DEF SetLight, Goto, sysfs
    <2> QED BY <1>3, <2>1, <2>2, <2>3, <2>4 DEF Calling
  <1>4. ASSUME NEW u \in Threads, NEW ok \in BOOLEAN, WriteBrightness(u, ok)
        PROVE  file'[BrightnessFile[call'[t].light]] = rgb_to_brightness(call'[t].state)
    <2>1. u = t
      BY <1>0, <1>4 DEF WriteBrightness, Goto, TypeOK, LockHeldInside, Critical
    <2>2. call[t].light \in {"backlight", "buttons"} /\ call'[t] = call[t]
      BY <1>0, <1>4, <2>1, LedTypeRange
         DEF WriteBrightness, TypeOK, Critical, Calls, LightIds
    <2>3. BrightnessFile[call[t].light] \in DOMAIN file
      BY <1>0, <2>2 DEF TypeOK, BrightnessFile
    <2>4. ok
      BY <1>0, <1>4, <2>1 DEF WriteBrightness, TypeOK
    <2> QED BY <1>4, <2>1, <2>2, <2>3, <2>4 DEF WriteBrightness
  <1>5. ASSUME NEW u \in Threads, NEW ok \in BOOLEAN, WriteLed(u, ok) PROVE FALSE
    BY <1>0, <1>5 DEF WriteLed, Goto, TypeOK, LockHeldInside, Critical
  <1>6. ASSUME NEW u \in Threads,
               OnceEnter(u) \/ OnceSkip(u) \/ InitGlobals(u) \/ AllocDevice(u) \/ Lock(u)
               \/ SetLightLocked(u) \/ Switched(u) \/ Unlock(u)
        PROVE  Kept
    <2>1. CASE OnceEnter(u) \/ OnceSkip(u) \/ InitGlobals(u) \/ Lock(u)
      BY <1>0a, <2>1 DEF OnceEnter, OnceSkip, InitGlobals, Lock, Goto, sysfs
    <2>2. CASE AllocDevice(u) \/ Unlock(u)
      BY <1>0a, <2>2 DEF AllocDevice, Unlock, Goto, sysfs
    <2>3. CASE SetLightLocked(u) \/ Switched(u)
      BY <1>0a, <2>3 DEF SetLightLocked, Switched, Goto, WritesForLed, sysfs
    <2> QED BY <1>6, <2>1, <2>2, <2>3
  <1> QED BY <1>k, <1>1, <1>2, <1>3, <1>4, <1>5, <1>6 DEF Next, Proceed

(* set_light_backlight and set_light_buttons answer 0 only with their own  *)
(* brightness in the file.                                                 *)
THEOREM BrightnessAcknowledged == Spec => []AckedBrightness
  <1>1. Init => WritesForLed /\ AckedBrightness
    BY DEF Init, WritesForLed, AckedBrightness
  <1> QED BY Invariance, <1>1, WritesForLedStep, AckedStep, PTL DEF Spec
=============================================================================
