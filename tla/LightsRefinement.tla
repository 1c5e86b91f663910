-------------------------- MODULE LightsRefinement --------------------------
(***************************************************************************)
(* The lights HAL implements the arbiter of LedArbiter when no write fails *)
(* and the process does not die: every step is a request, a blanking, a    *)
(* showing or a stutter of the arbiter.  The refinement mapping is that of *)
(* Lights: the LED, seen through rgb_start, is the arbiter's panel.        *)
(***************************************************************************)
EXTENDS LightsProofs

(* The hypothesis of the refinement: sysfs and the process do not fail. *)
Faultless == ~FailuresOccur /\ ~CrashesOccur

(* The LED files show the configuration of user i. *)
UpToDate(i) == \A f \in LedFiles : file[f] = Shown(Config(i), f)

(* Without failures the LED is up to date between the calls; during a call *)
(* it is stopped from the first write to the last.                         *)
RefInv ==
    /\ Settled => UpToDate(g_cur_led)
    /\ \A t \in Threads :
         /\ pc[t] = "write" /\ step[t] = 1 => file["rgb_start"] = 1
         /\ pc[t] = "write" /\ step[t] > 1 =>
              /\ file["rgb_start"] = 0
              /\ \A s \in 2..7 : s < step[t] => file[LedWrites[s]] = Shown(Config(led[t]), LedWrites[s])
         /\ pc[t] = "switched" => UpToDate(led[t])

-----------------------------------------------------------------------------
(* The refinement mapping *)

(* Files that show one configuration are that configuration. *)
LEMMA PanelOf ==
    ASSUME NEW cfg \in LedConfig, \A f \in LedFiles : file[f] = Shown(cfg, f)
    PROVE  Panel = cfg
  <1>1. /\ file["rgb_start"] = 1
        /\ \A ch \in Channels : file[ch] = cfg.colorRGB[ch]
        /\ \A f \in MsFiles : file[f] = <<cfg.onMS, cfg.offMS>>
    BY DEF LedFiles, Shown, Channels, MsFiles
  <1>2. "red_ms" \in MsFiles /\ file["rgb_start"] # 0
    BY <1>1 DEF MsFiles
  <1>3. Panel = [colorRGB |-> [ch \in Channels |-> file[ch]],
                 onMS |-> file["red_ms"][1], offMS |-> file["red_ms"][2]]
    BY <1>1, <1>2 DEF Panel
  <1>4. [ch \in Channels |-> file[ch]] = cfg.colorRGB
    BY <1>1 DEF LedConfig
  <1>5. file["red_ms"][1] = cfg.onMS /\ file["red_ms"][2] = cfg.offMS
    BY <1>1, <1>2
  <1>6. cfg = [colorRGB |-> cfg.colorRGB, onMS |-> cfg.onMS, offMS |-> cfg.offMS]
    BY DEF LedConfig
  <1> QED BY <1>3, <1>4, <1>5, <1>6

(* The same after a step. *)
ShowsOne == \A cfg \in LedConfig : (\A f \in LedFiles : file[f] = Shown(cfg, f)) => Panel = cfg

(* The same holds of the state after a step. *)
LEMMA PanelOfNext == ShowsOne'
  <1>1. ShowsOne
    BY PanelOf DEF ShowsOne
  <1> QED BY <1>1, PTL

(* The panel depends on the LED files alone. *)
LEMMA PanelFrame ==
    ASSUME \A f \in LedFiles : file'[f] = file[f]
    PROVE  Panel' = Panel
  <1>1. /\ file'["rgb_start"] = file["rgb_start"] /\ file'["red_ms"] = file["red_ms"]
        /\ \A ch \in Channels : file'[ch] = file[ch]
        /\ \A f \in MsFiles : file'[f] = file[f]
    BY DEF LedFiles, MsFiles
  <1> QED BY <1>1 DEF Panel, Updating, Torn

(* A LED that is started does not count as being reprogrammed. *)
LEMMA StartedShows == file["rgb_start"] = 1 => Panel # Updating
BY DEF Panel, Updating, Torn

(* The highest lit index of the table is the arbiter's choice. *)
LEMMA BestOf ==
    ASSUME NEW i \in -1..2, Highest(i)
    PROVE  Arbiter!Best = Config(i)
  <1>1. CASE i = -1
    <2>1. \A j \in 0..2 : ~Lit(g_leds[j])
      BY <1>1 DEF Highest
    <2> QED BY <1>1, <2>1 DEF Arbiter!Best, Config
  <1>2. CASE i # -1
    <2> DEFINE P(j) == Lit(g_leds[j]) /\ \A k \in (j + 1)..2 : ~Lit(g_leds[k])
    <2>1. i \in 0..2 /\ Lit(g_leds[i]) /\ \A j \in 0..2 : j > i => ~Lit(g_leds[j])
      BY <1>2 DEF Highest
    <2>2. P(i)
      BY <2>1
    <2>3. \A j \in 0..2 : P(j) => j = i
      <3> SUFFICES ASSUME NEW j \in 0..2, P(j) PROVE j = i
        OBVIOUS
      <3>1. ~(j > i)
        BY <2>1
      <3>2. ~(i > j)
        BY <2>1
      <3> QED BY <2>1, <3>1, <3>2
    <2>4. (CHOOSE j \in 0..2 : P(j)) = i
      <3> HIDE DEF P
      <3> QED BY <2>1, <2>2, <2>3
    <2> DEFINE c == CHOOSE j \in 0..2 : P(j)
    <2>5. Arbiter!Best = g_leds[c]
      <3>1. \E j \in 0..2 : Lit(g_leds[j])
        BY <2>1
      <3>2. Arbiter!Best = IF \E j \in 0..2 : Lit(g_leds[j]) THEN g_leds[c] ELSE led_off
        BY Zenon DEF Arbiter!Best
      <3> HIDE DEF c
      <3> QED BY <3>1, <3>2
    <2>6. c = i
      BY <2>4, Zenon
    <2> HIDE DEF c
    <2> QED BY <1>2, <2>5, <2>6 DEF Config
  <1> QED BY <1>1, <1>2

(* A fresh process maps to the arbiter's start, and the invariant holds. *)
LEMMA RefInit == Init => RefInv /\ Arbiter!Init
  <1> SUFFICES ASSUME Init PROVE RefInv /\ Arbiter!Init
    OBVIOUS
  <1>1. led_off \in LedConfig
    BY DEF led_off, LedConfig
  <1>2. \A f \in LedFiles : file[f] = Shown(led_off, f)
    BY DEF Init
  <1>3. Panel = led_off
    BY <1>1, <1>2, PanelOf
  <1>4. Arbiter!Init
    BY <1>3 DEF Init, Arbiter!Init
  <1>5. RefInv
    BY <1>2 DEF Init, RefInv, UpToDate, Config
  <1> QED BY <1>4, <1>5

-----------------------------------------------------------------------------
(* The steps *)

(* A step that leaves the table and the LED alone is a stutter. *)
LEMMA RefFrame ==
    ASSUME IInv, RefInv, NEW t \in Threads,
           UNCHANGED <<g_leds, g_cur_led, led, step>>,
           \A f \in LedFiles : file'[f] = file[f],
           Moves(t, Labels \ {"write", "switched"}, Labels \ {"write", "switched"})
    PROVE  RefInv' /\ UNCHANGED Arbiter!vars
  <1> PICK label \in Labels \ {"write", "switched"} : pc' = [pc EXCEPT ![t] = label]
    BY DEF Moves
  <1>1. /\ pc'[t] = label /\ \A u \in Threads \ {t} : pc'[u] = pc[u]
        /\ pc[t] \notin {"write", "switched"} /\ label \notin {"write", "switched"}
    BY DEF IInv, TypeOK, Moves
  <1>2. \A i : UpToDate(i)' <=> UpToDate(i)
    BY DEF UpToDate, Config, Shown
  <1>3. Settled' <=> Settled
    BY <1>1 DEF Settled
  <1>4. \A u \in Threads : pc'[u] \in {"write", "switched"} => u # t /\ pc[u] = pc'[u]
    BY <1>1
  <1>5. /\ file'["rgb_start"] = file["rgb_start"]
        /\ \A s \in 2..7 : file'[LedWrites[s]] = file[LedWrites[s]]
    BY WritesCover DEF LedFiles
  <1>6. \A i : Config(i)' = Config(i)
    BY DEF Config
  <1>7. RefInv'
    BY <1>2, <1>3, <1>4, <1>5, <1>6 DEF RefInv, Shown
  <1>8. UNCHANGED Arbiter!vars
    BY PanelFrame DEF Arbiter!vars
  <1> QED BY <1>7, <1>8

(* Storing a request is a Request of the arbiter: under g_lock the LED is  *)
(* up to date when the table changes.                                      *)
LEMMA RefRequest ==
    ASSUME IInv, RefInv, NEW t \in Threads, SetLightLocked(t)
    PROVE  RefInv' /\ Arbiter!Request
  <1> DEFINE type == LedType[call[t].light]
  <1>1. /\ pc[t] = "locked" /\ pc \in [Threads -> Labels]
        /\ pc' = [pc EXCEPT ![t] = IF Programs(t) THEN "write" ELSE "unlock"]
        /\ UNCHANGED <<g_cur_led, step, file>>
        /\ g_leds' = [g_leds EXCEPT ![type] = NewConfig(t)]
        /\ call[t].light \in LedLights
    BY DEF IInv, TypeOK, SetLightLocked, Goto, sysfs
  <1>2. /\ type \in 0..2 /\ call[t].state \in States
        /\ g_cur_led \in -1..2 /\ g_leds \in [0..2 -> LedConfig]
    BY <1>1, CallFacts DEF IInv, TypeOK, Critical, Calls
  <1>3. \A u \in Threads \ {t} : pc[u] \notin Critical /\ pc'[u] = pc[u]
    BY <1>1 DEF IInv, LockHeldInside, Critical
  <1>4. Settled
    BY <1>1, <1>3 DEF Settled, Critical
  <1>5. UpToDate(g_cur_led) /\ Highest(g_cur_led)
    BY <1>4 DEF IInv, RefInv, CurIsHighestLit, Highest
  <1>6. Config(g_cur_led) \in LedConfig
    <2>1. led_off \in LedConfig
      BY DEF led_off, LedConfig
    <2> QED BY <1>2, <2>1 DEF Config
  <1>7. Panel = Arbiter!Best
    <2>1. Panel = Config(g_cur_led)
      BY <1>5, <1>6, PanelOf DEF UpToDate
    <2>2. Arbiter!Best = Config(g_cur_led)
      BY <1>2, <1>5, BestOf
    <2> QED BY <2>1, <2>2
  <1>8. NewConfig(t) \in {StoredConfig(s) : s \in States} \cup {StoredConfig(FixedAttention(s)) : s \in States}
    BY <1>2 DEF NewConfig
  <1>9. Panel' = Panel
    BY <1>1, PanelFrame
  <1>10. Arbiter!Request
    BY <1>1, <1>2, <1>7, <1>8, <1>9 DEF Arbiter!Request
  <1>11. Settled' => ~Programs(t)
    BY <1>1 DEF Settled
  <1>12. Settled' => UpToDate(g_cur_led)'
    BY <1>1, <1>5, <1>11, DecisionIsHighest DEF UpToDate, Shown
  <1>13. step'[t] = 1 /\ file'["rgb_start"] = 1
    BY <1>1, <1>5 DEF IInv, StepInv, UpToDate, Shown, LedFiles
  <1>14. \A u \in Threads : pc'[u] \notin {"switched"} /\ (pc'[u] = "write" => u = t)
    BY <1>1, <1>3 DEF Critical
  <1>15. RefInv'
    BY <1>12, <1>13, <1>14 DEF RefInv
  <1> QED BY <1>10, <1>15

(* The first write of write_leds_locked blanks the LED, the last one shows *)
(* the best request, and those in between are not seen.                    *)
LEMMA RefWrite ==
    ASSUME Faultless, IInv, RefInv, NEW t \in Threads, NEW ok \in BOOLEAN, WriteLed(t, ok)
    PROVE  RefInv' /\ (Arbiter!Blank \/ Arbiter!Show \/ UNCHANGED Arbiter!vars)
  <1> DEFINE s == step[t]
             f == LedWrites[s]
             cfg == Config(led[t])
  <1>1. /\ pc[t] = "write" /\ s \in 1..8 /\ led[t] \in -1..2
        /\ pc \in [Threads -> Labels] /\ step \in [Threads -> 1..8]
        /\ DOMAIN file = LedFiles \cup {"lcd", "button"}
        /\ pc' = [pc EXCEPT ![t] = IF s = 8 THEN "switched" ELSE "write"]
        /\ step' = [step EXCEPT ![t] = IF s = 8 THEN 1 ELSE s + 1]
        /\ file' = [file EXCEPT ![f] = WriteValue(cfg, s)]
        /\ UNCHANGED <<g_leds, g_cur_led, led>>
    BY DEF IInv, TypeOK, WriteLed, Goto, hal, LastWrite, Faultless
  <1>2. cfg \in LedConfig /\ cfg' = cfg
    <2>1. led_off \in LedConfig
      BY DEF led_off, LedConfig
    <2>2. g_leds \in [0..2 -> LedConfig]
      BY DEF IInv, TypeOK
    <2> QED BY <1>1, <2>1, <2>2 DEF Config
  <1>3. /\ f \in LedFiles
        /\ s = 1 \/ s = 8 => f = "rgb_start"
        /\ s \in 2..7 => f \in Channels \cup MsFiles
    BY <1>1, WritesCover DEF LedFiles, LastWrite
  <1>4. \A g \in LedFiles : file'[g] = IF g = f THEN WriteValue(cfg, s) ELSE file[g]
    BY <1>1
  <1>5. \A u \in Threads \ {t} : pc[u] \notin Critical /\ pc'[u] = pc[u]
    BY <1>1 DEF IInv, LockHeldInside, Critical
  <1>6. "rgb_start" \in LedFiles /\ "rgb_start" \notin Channels \cup MsFiles
    BY DEF LedFiles, Channels, MsFiles
  <1>7. Highest(led[t])
    BY <1>1 DEF IInv, WriteInv
  <1>8. /\ \A u \in Threads : pc'[u] \in {"write", "switched"} => u = t
        /\ ~Settled'
        /\ pc'[t] = IF s = 8 THEN "switched" ELSE "write"
        /\ step'[t] = IF s = 8 THEN 1 ELSE s + 1
    BY <1>1, <1>5 DEF Critical, Settled
  <1>9. \A r \in 2..7 : r <= s => file'[LedWrites[r]] = Shown(cfg, LedWrites[r])
    <2> SUFFICES ASSUME NEW r \in 2..7, r <= s PROVE file'[LedWrites[r]] = Shown(cfg, LedWrites[r])
      OBVIOUS
    <2>1. LedWrites[r] \in LedFiles /\ LedWrites[r] # "rgb_start"
      BY WritesCover, <1>6 DEF LedFiles
    <2>2. CASE r = s
      BY <1>4, <2>1, <2>2 DEF WriteValue
    <2>3. CASE r < s
      <3>1. LedWrites[r] # f
        BY <1>1, <1>3, <2>1, <2>3, WritesCover
      <3>2. file[LedWrites[r]] = Shown(cfg, LedWrites[r])
        BY <1>1, <2>3 DEF RefInv
      <3> QED BY <1>4, <2>1, <3>1, <3>2
    <2> QED BY <1>1, <2>2, <2>3
  <1>10. CASE s = 1
    <2>1. file'["rgb_start"] = 0 /\ file["rgb_start"] = 1
      BY <1>1, <1>3, <1>4, <1>6, <1>10 DEF WriteValue, RefInv
    <2>2. Panel' = Updating /\ Panel # Updating
      BY <2>1, StartedShows DEF Panel, Updating
    <2>3. Arbiter!Blank
      BY <1>1, <2>2 DEF Arbiter!Blank
    <2>4. RefInv'
      BY <1>8, <1>10, <2>1 DEF RefInv
    <2> QED BY <2>3, <2>4
  <1>11. CASE s \in 2..7
    <2>1. file'["rgb_start"] = 0 /\ file["rgb_start"] = 0
      BY <1>1, <1>3, <1>4, <1>6, <1>11 DEF RefInv
    <2>2. Panel' = Updating /\ Panel = Updating
      BY <2>1 DEF Panel, Updating
    <2>3. UNCHANGED Arbiter!vars
      BY <1>1, <2>2 DEF Arbiter!vars
    <2>4. \A r \in 2..7 : r < s + 1 => file'[LedWrites[r]] = Shown(cfg', LedWrites[r])
      BY <1>2, <1>9, <1>11
    <2>5. pc'[t] = "write" /\ step'[t] = s + 1 /\ s + 1 > 1 /\ s + 1 # 1
      BY <1>8, <1>11
    <2>6. RefInv'
      BY <1>8, <2>1, <2>4, <2>5 DEF RefInv
    <2> QED BY <2>3, <2>6
  <1>12. CASE s = 8
    <2>1. \A g \in LedFiles : file'[g] = Shown(cfg, g)
      <3> SUFFICES ASSUME NEW g \in LedFiles PROVE file'[g] = Shown(cfg, g)
        OBVIOUS
      <3>1. CASE g = "rgb_start"
        BY <1>3, <1>4, <1>12, <3>1 DEF WriteValue
      <3>2. CASE g # "rgb_start"
        <4>1. g \in Channels \cup MsFiles
          BY <3>2 DEF LedFiles
        <4>2. PICK r \in 2..7 : LedWrites[r] = g
          BY <4>1, WritesCover
        <4> QED BY <1>9, <1>12, <4>2
      <3> QED BY <3>1, <3>2
    <2>2. file["rgb_start"] = 0
      BY <1>1, <1>12 DEF RefInv
    <2>3. Panel = Updating
      BY <2>2 DEF Panel
    <2>4. Panel' = cfg
      <3>1. \A c \in LedConfig : (\A g \in LedFiles : file'[g] = Shown(c, g)) => Panel' = c
        BY PanelOfNext DEF ShowsOne
      <3> QED BY <1>2, <2>1, <3>1
    <2>5. Arbiter!Best = cfg
      BY <1>1, <1>7, BestOf
    <2>6. Arbiter!Show
      BY <1>1, <2>3, <2>4, <2>5 DEF Arbiter!Show
    <2>7. UpToDate(led[t])'
      BY <1>2, <2>1 DEF UpToDate, Shown
    <2>8. RefInv'
      BY <1>8, <1>12, <2>7 DEF RefInv
    <2> QED BY <2>6, <2>8
  <1> QED BY <1>1, <1>10, <1>11, <1>12

(* Every step of the HAL is a step of the arbiter or a stutter. *)
LEMMA RefNext ==
    Faultless /\ IInv /\ RefInv /\ [Next]_vars => RefInv' /\ [Arbiter!Next]_(Arbiter!vars)
  <1> SUFFICES ASSUME Faultless, IInv, RefInv, [Next]_vars
               PROVE  RefInv' /\ [Arbiter!Next]_(Arbiter!vars)
    OBVIOUS
  <1> DEFINE Quiet == Labels \ {"write", "switched"}
             Goal == RefInv' /\ [Arbiter!Next]_(Arbiter!vars)
  <1>1. ASSUME UNCHANGED <<g_leds, g_cur_led, led, step, pc, file>> PROVE Goal
    <2>1. \A i : UpToDate(i)' <=> UpToDate(i)
      BY <1>1 DEF UpToDate, Config, Shown
    <2>2. RefInv'
      BY <1>1, <2>1 DEF RefInv, Settled, Config, Shown
    <2>3. UNCHANGED Arbiter!vars
      BY <1>1, PanelFrame DEF Arbiter!vars
    <2> QED BY <2>2, <2>3
  <1>2. ASSUME NEW t \in Threads, UNCHANGED <<g_leds, g_cur_led, led, step>>,
               \A f \in LedFiles : file'[f] = file[f], Moves(t, Quiet, Quiet)
        PROVE  Goal
    BY <1>2, RefFrame
  <1> HIDE DEF Goal
  <1>3. ASSUME UNCHANGED vars PROVE Goal
    BY <1>1, <1>3 DEF vars, hal, thread, sysfs
  <1>4. ~Crash
    BY DEF Crash, Faultless
  <1>5. ASSUME NEW t \in Threads, NEW name, OpenUnknown(t, name) PROVE Goal
    BY <1>1, <1>5 DEF OpenUnknown, vars, hal, thread, sysfs
  <1>6. ASSUME NEW t \in Threads, NEW l, OpenLights(t, l) PROVE Goal
    BY <1>2, <1>6 DEF OpenLights, Goto, hal, sysfs, Moves, Labels, Opening, Critical
  <1>7. ASSUME NEW t \in Threads, NEW l, CloseLights(t, l) PROVE Goal
    BY <1>1, <1>7 DEF CloseLights, hal, thread, sysfs
  <1>8. ASSUME NEW t \in Threads, NEW l, NEW state, SetLight(t, l, state) PROVE Goal
    BY <1>2, <1>8 DEF SetLight, Goto, hal, sysfs, Moves, Labels, Opening, Critical
  <1>9. ASSUME NEW t \in Threads, OnceEnter(t) \/ OnceSkip(t) PROVE Goal
    BY <1>2, <1>9 DEF OnceEnter, OnceSkip, Goto, hal, sysfs, Moves, Labels, Opening, Critical
  <1>10. ASSUME NEW t \in Threads, InitGlobals(t) \/ AllocDevice(t) PROVE Goal
    BY <1>2, <1>10 DEF InitGlobals, AllocDevice, Goto, hal, sysfs, Moves, Labels, Opening, Critical
  <1>11. ASSUME NEW t \in Threads, Lock(t) \/ Unlock(t) PROVE Goal
    BY <1>2, <1>11 DEF Lock, Unlock, Goto, hal, sysfs, Moves, Labels, Opening, Critical
  <1>12. ASSUME NEW t \in Threads, SetLightLocked(t) PROVE Goal
    BY <1>12, RefRequest DEF Goal, Arbiter!Next
  <1>13. ASSUME NEW t \in Threads, NEW ok \in BOOLEAN, WriteLed(t, ok) PROVE Goal
    BY <1>13, RefWrite DEF Goal, Arbiter!Next
  <1>14. ASSUME NEW t \in Threads, NEW ok \in BOOLEAN, WriteBrightness(t, ok) PROVE Goal
    <2>1. pc[t] = "locked" /\ BrightnessFile[call[t].light] \in {"lcd", "button"}
      BY <1>14, CallFacts, LedTypeRange DEF IInv, BrightnessFile, LightIds, WriteBrightness, Critical
    <2>2. \A f \in LedFiles : file'[f] = file[f]
      BY <1>14, <2>1 DEF WriteBrightness, IInv, TypeOK, LedFiles, Channels, MsFiles
    <2>3. UNCHANGED <<g_leds, g_cur_led, led, step>> /\ Moves(t, Quiet, Quiet)
      BY <1>14 DEF WriteBrightness, Goto, hal, Moves, Labels, Opening, Critical
    <2> QED BY <1>2, <2>2, <2>3
  <1>15. ASSUME NEW t \in Threads, Switched(t) PROVE Goal
    <2>1. /\ pc[t] = "switched" /\ pc' = [pc EXCEPT ![t] = "unlock"] /\ pc \in [Threads -> Labels]
          /\ g_cur_led' = led[t] /\ UNCHANGED <<g_leds, step, file>>
      BY <1>15 DEF Switched, Goto, sysfs, IInv, TypeOK
    <2>2. \A u \in Threads : pc'[u] \notin {"write", "switched"}
      BY <2>1 DEF IInv, LockHeldInside, Critical
    <2>3. UpToDate(led[t])
      BY <2>1 DEF RefInv
    <2>4. UpToDate(g_cur_led)'
      BY <2>1, <2>3 DEF UpToDate, Config, Shown
    <2>5. RefInv'
      BY <2>2, <2>4 DEF RefInv
    <2>6. UNCHANGED Arbiter!vars
      BY <2>1, PanelFrame DEF Arbiter!vars
    <2> QED BY <2>5, <2>6 DEF Goal
  <1>16. ASSUME NEW t \in Threads, Calling(t) PROVE Goal
    BY <1>5, <1>6, <1>7, <1>8, <1>16 DEF Calling
  <1>17. ASSUME NEW t \in Threads, Proceed(t) PROVE Goal
    BY <1>9, <1>10, <1>11, <1>12, <1>13, <1>14, <1>15, <1>17 DEF Proceed
  <1>18. Goal
    BY <1>3, <1>4, <1>16, <1>17 DEF Next
  <1> QED BY <1>18 DEF Goal

(* The HAL implements the arbiter as long as no write fails and the        *)
(* process does not die: whatever the threads do, the LED goes only from   *)
(* one complete configuration to the best one requested, through a blank.  *)
(* That it gets there is a liveness property, checked for small instances. *)
THEOREM Refinement == Faultless => (Spec => Arbiter!Spec)
  <1> SUFFICES ASSUME Faultless PROVE Spec => Arbiter!Spec
    OBVIOUS
  <1>1. Init => RefInv /\ Arbiter!Init
    BY RefInit
  <1>2. IInv /\ RefInv /\ [Next]_vars => RefInv' /\ [Arbiter!Next]_(Arbiter!vars)
    BY RefNext
  <1> QED BY <1>1, <1>2, Invariance, PTL DEF Spec, Arbiter!Spec
=============================================================================
