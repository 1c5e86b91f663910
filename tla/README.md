# Verification of the MT6582 device tree

This directory holds TLA+ models of the code in the device repository that
carries behaviour of its own (HAL libraries, the MediaTek RIL class, the Wi-Fi
driver commands, the USB scripts of init), the TLC runs that check them and the TLAPS proofs about them.
`PROJECT.json` lists components, runs, mutants, the map from definitions to
source lines, findings, hazards and theorems.

## 1. Inventory

| Component | State it keeps | Operations | What is hard |
|---|---|---|---|
| Lights HAL, `liblight/lights.c` | `g_init`, `g_lock`, `g_leds[3]`, `g_cur_led`; the sysfs files of LED, LCD and buttons | `open_lights`, `close_lights`, five `set_light_*` | several threads of system_server; eight separate writes per LED change, each of which may fail; process death while the LED keeps its content |
| Bluetooth vendor library, `libbt-vendor-mtk/libbt-vendor-mtk.c` | library handle, two function pointers, `hci_tty_fd`, callbacks | `mtk_init`, `mtk_op` (11 opcodes), `mtk_cleanup` | repeated sessions over state that is never reset; loader failures |
| MediaTek RIL, `MediaTekRIL.java` | the parent's request list and sender queue; properties | request methods, `processSolicited`, `processUnsolicited` | phone threads, sender and receiver threads, modem, socket loss; late, repeated and malformed messages |
| RIL operator names, same file | `gsm.cops.lac`, which it clears; `gsm.baseband.capability`, which it reads per operator | `responseOperatorInfos`, `responseOperator`, hex decoding | properties that change between two reads, index arithmetic over a mixture of named and nameless operators, encodings |
| USB scripts, `rootdir/root/init.mt6582.usb.rc` | properties, android_usb files, adbd | one script per value of `sys.usb.config` (45), the persistent property, charging, bicr, port mode | settings made while scripts run; values expanded late; state inherited between configurations |
| Wi-Fi driver commands, `wpa_supplicant_8_lib` | none of its own; interface flags, link, block list, country and filters are in the kernel driver, `drv->associated` in the process | one branch per driver command; four build-time features add WAPI keys, P2P tests, beam and link detection | two processes over one driver that may refuse; association events that arrive late; partial replies whose attributes pass through a switch, a structure and labels; message indices shared by commands; wrong context for `ap0` |
| Boot scripts, `init*.rc` | services, files | triggers | order of boot stages |
| `pack.pl`, `bootimg.mk` | one file | prefix a header | rewriting in place, running twice |
| Audio and xlog stubs, configuration data | none | - | - |

How they interact. The framework (system_server, the phone process, the
Bluetooth process, wpa_supplicant) loads the libraries and sets properties; init
runs the scripts. The components of this repository do not call one another:
each meets only its own client above and its own driver, blob or modem below.
There is accordingly no composed model; each module has its clients and its
lower layer as environment actions.

What makes each correct: the LED shows the most important lit user and never a
mixture; a Bluetooth session uses nothing stale and leaves nothing behind unless
the loader or the stack gave cause; every RIL caller is answered exactly once; a completed USB switch leaves exactly the
configuration that was asked for, an enabled gadget is never reconfigured, and
the last setting is always announced; a scan that is delivered lists every
operator under a readable name; of the Wi-Fi commands, `STA-BLOCK`, `STA-UNBLOCK`
and `COUNTRY` are answered with 0 only if the driver carried them out (the filter,
smt, WAPI and P2P test commands drop the outcome and answer 0 whatever became of the
message), the driver can tell every message from every other, and every line printed of a reply shows what
it is named for.

## 2. Modules

| Module | Models | Runs |
|---|---|---|
| `Lights` | `lights.c` | `lights_*` |
| `LedArbiter` | abstract specification of the shared LED | `lights_arbiter` |
| `LightsProofs` | theorems about `Lights` | - |
| `LightsRefinement` | `Lights` implements `LedArbiter` | - |
| `BtVendor` | `libbt-vendor-mtk.c` | `bt_*` |
| `BtVendorProofs` | theorems about `BtVendor` | - |
| `MediaTekRIL` | `MediaTekRIL.java`: requests, responses, indications | `ril_safety`, `ril_indications`, `ril_radio_power` |
| `MediaTekRILProofs` | theorems about `MediaTekRIL` | - |
| `OperatorInfos` | `MediaTekRIL.java`: operator lists and names | `ril_operators` |
| `OperatorInfosProofs` | theorems about `OperatorInfos` | - |
| `UsbGadget` | `init.mt6582.usb.rc` | `usb_*` |
| `UsbGadgetProofs` | theorems about `UsbGadget`, for any framework | - |
| `UsbSwitchProofs` | theorems about a switch, for a framework that waits | - |
| `WifiDriverCmd` | `mediatek_driver_cmd_nl80211.c` | `wifi_commands` |
| `WifiDriverCmdProofs` | theorems about `WifiDriverCmd` | - |
| `MC*` | constants for TLC | |

### Lights

Variables have the names of the globals; `pc`, `call`, `led`, `step`, `err` are
the locals of each thread. One action per step that another thread or a crash
can observe: `OnceEnter`/`OnceSkip`/`InitGlobals` (pthread_once), `AllocDevice`,
`Lock`, `SetLightLocked` (store and decide, under the lock), `WriteLed` (one of
the eight writes), `Switched` (assign `g_cur_led`), `WriteBrightness`, `Unlock`.
Storing the request and deciding are one action because both happen under
`g_lock` and touch nothing that is visible outside it. A colour is a function
from channels to bytes, so that `Lit` is `colorRGB > 0`. The text a write
produces is left out: a file holds the number, or the pair of numbers, that the
kernel parses from it. `err` is -1 for any errno. `malloc` failing and
`already_warned` (logging only) are left out. `Crash` is the death and restart
of the process; `file` survives it. `good` is a history variable: the LED files
whose last write by this process succeeded.

`LedArbiter` says what the LED users are promised. `Panel` is the refinement
mapping: the LED seen through `rgb_start`.

### BtVendor

Variables have the names of the globals. `refs` is the loader's reference count,
`enabled` the descriptors the blob has open. A call through a pointer that does
not lead into a mapped blob, a `dlclose` without a reference and an answer
through NULL callbacks end the process (`Die`) and are recorded in `misuse`.
Disabling a descriptor that is not open is recorded as `stale_fd`. The stack may
make any call at any time: init twice, operations and cleanup without an init or
after a cleanup. The loader may fail at any init. No guard stands for good
behaviour; instead the history variable `blame` records what else went wrong in
this process: `"loader"` (a dlopen or dlsym failed), `"session"` (a second init, or
a call outside a session), `"port"` (a second open, a close without an open, a
cleanup with the port open). A property then says which of these a misuse or a leak
must have been caused by. In particular a second `dlclose` after a failed `dlsym`
and a second close of the same descriptor do happen in the model, as in the code.

### MediaTekRIL

`call` is what each caller's Message has seen. Requests travel through `sendQ`
to `mRequestList` and the modem; responses and unsolicited codes come back
through `socket`. `processSolicited` is a whole handler. `processUnsolicited` is
cut where another thread can come in between: it decodes and decides, then the
requests that the receiver makes by itself (`todo`) go out one by one (`SendOwn`: a
serial and one `send()`, which phone threads may interleave), then the message goes to
the parent (`SuperProcessUnsolicited`), all before the next message. Every code
whose decoder reads the parcel (`Decoded`) may be ill-formed: the decoders stand
outside any `try`, the exception leaves the receive loop and costs the socket
(`UnsolicitedFails`), after the request of `setCallIndication` was obtained or before.
A lost socket answers what waits in `mRequestList`, but the sender queue stays:
`leftover` counts its requests of the lost connection, which the next one still
sends. `ring` and `radio` count the incoming calls and the radio-on messages
that have not been followed by what the modem waits for. `gprs` is the modem's
side of the two-part set-up.
All requests with a case in the switch are one value, `AOSP_REQUEST`; codes that
are decoded and dropped are one value as well. Payloads are reduced to whether
the decoder accepts them. External, from the use made of the parent class: the
sender thread, the error answers on a lost socket, reconnection. Serial numbers
are taken as unique.

### OperatorInfos

The decoder of a network scan as steps of the receiver thread: check the count
and read `gsm.cops.lac` (`responseOperatorInfos`), clear it (`ClearLac`), one
iteration per operator (`Operator`), `Return`. Between any two of them the daemon
may leave area codes (`LacLeft`) and the capability of the baseband may change
(`CapabilityChanges`), which the loop reads anew for each operator.
`responseOperator` touches no property and is one step. The module ends where
`processSolicited` takes the result or the exception (`Answered`);
`MediaTekRIL!Outcome` is what becomes of it. Strings are sequences of UTF-16 code
units, because the properties are about how names are converted: `Decoded` is
the marker, `hexStringToBytes` and Java's UTF-16 decoder (external; surrogates
are not distinguished). The five strings of an operator are a record, and `stray`
counts the strings that are left over. `LacHarmless` says, of the step that
throws, what it may have thrown for: strings left over, or the one operator the loop
has come to, if its name cannot be decoded (`Malformed`) or, with a capability
above 3 at that step, is missing where the technology must follow (`Nameless`).
Operators before or after it, and the area codes, are no excuse. An area-code string is its length,
whether it is hexadecimal, and a number that tells it from others; its value is
parsed and then used by nothing but a comment (276-280). `applied` is a history
variable. `Encodings` is the reference: every way a daemon may send a text. The
assumptions on the constants say what the daemon is taken to send: a first name
is null, marked but not in pairs of digits, or an encoding of a text
(`NamesAssumption`): the text itself, or the marker and the digits, all of
one case, of its code units, high byte first, with a big-endian mark or none. A text does not
start with the marker or with a byte-order mark (`TextsAssumption`): the decoder
takes both for its own, and no sender could avoid it.

### UsbGadget

A property or file value is the set of its words, so `mtp,adb` is
`{"mtp", "adb"}`; init compares strings, and the framework always builds them in
the order of the scripts. `GadgetScript` is the common shape of all scripts that
set up a gadget; its conditional parts and the id tables together give, command
by command, the 43 scripts of the file. Init is external: one command at a time,
`$property` expanded when the command runs, a script that already waits is not
queued twice. Settings may come between any two commands. `Patient` makes the
framework wait for `sys.usb.state` before it goes on, as it does unless its
timeout expires. adbd is started not only by these scripts: `init.mt6582.rc:92`
starts it at boot whatever the configuration.

### WifiDriverCmd

Two processes, wpa_supplicant on `wlan0` and hostapd on `ap0`, run the same
handler, each one command at a time; both meet in the kernel driver, which is
external and may fail any request before or after it took it (`Outcomes`). One
action per branch of `wpa_driver_nl80211_driver_cmd` with a different effect;
`stop` is two steps, `Stop` (leave the network) and `StopFlags` (take the
interface down), so that links and events may change in between. The kernel's
`link` and the process's copy `drv` differ while `events` are on the way. The
outcome of a software command (`rxfilter-*`, `smt-*`) is dropped as in
`wpa_driver_nl80211_driver_sw_cmd`; that of `STA-BLOCK` and `COUNTRY` is not, and
`acked` records what an answer of 0 entitles the caller to. `COUNTRY` with more than
two letters, or with none, writes past the end of an 11-byte buffer
(`SetCountryOverflow`): any text may then reach the driver and the process may end.

A reply is a function from the attributes the driver sends, any part of them, to
values. `sta_statistics_handler` and `link_detect_handler` store each in the field of
its case (`StatisticsFields`, `LinkFields`), halving the rate, converting the signal
and negating the count of missing acknowledgements; `print_sta_statistics` and
`print_link_detect` show each line's field (`StatisticsLines`, `LinkLines`) under its
label. The tables are those of the code, not of the names: the property has its own
table of the attribute a reader of a label expects (`Expected`). A 32-bit word is
`<<top bit, rest>>`, so that `%d` of an unsigned count is negative from 2^31 on
(`AsInt`). A line whose attribute was not sent shows the uninitialised structure
(`Garbage`).

A message is its index, with the version in the upper byte, and the words after the
header: `Stored` is the choice of a handler by the masked index in
`wpa_driver_nl80211_testmode`, and `Message` the words each command sends, from which `MessageTellsCommand` asks the
driver to recover it. `last` is the answer that has not been given yet, with the
message or the reply it stands for; nothing else happens before `Answer`, because
nothing else could observe it. `Features` are the macros that build variables of
`Android.mk` add; the run has all of them, since the branches do not disable one
another. `GetStaLinkDetect` prints as many lines as fit the caller's buffer.
`SigmaTest` writes through the result of `os_strchr` unchecked and ends the
process when there is no second word. `Mcc` walks the interfaces that exist at
that moment and sets P2P's `concurrent_operations` only if `global->p2p` is there
(`P2pExists`); `P2pInterface` adds p2p0 and removes it, and P2P with it.
`Deauthenticate` may be refused, and whether the process forgets its association
then is left open, because `wpa_drv_deauthenticate` is not in the repository; the
history variable `orphan` records that the driver refused to leave the present
link, or that the process is younger than it. `WapiMsgSend` sends nothing:
`wpa_driver_nl80211_send_msg` only checks the length, although the comment above
it says "send some information to driver". On `ap0` the variable `wpa_s` is
uninitialised: `UndefinedContext` is what the commands that use it may then do.
`IgnoredCall` stands for the four callbacks at the end of the file that ignore
their arguments.

## 3. Runs

| Run | Expect | Bounds | Shows |
|---|---|---|---|
| `lights_faults` | pass | 2 threads, 1 LED user, the backlight and an unknown name, states black and green, 1 device per light, failures, crashes | `LockHeldInside`, `PanelFollowsTable`, `LockNotReinitialised`, `AckedBrightness` |
| `lights_arbiter` | pass | 2 threads, 3 LED users, 3 states, no failures | `CurIsHighestLit`, refinement of `LedArbiter` with fairness, `OpenReturns` |
| `lights_restart` | violation | 2 threads, 2 LED users, states black and blinking, crashes, writes do not fail | finding: a finished off request leaves the LED of the old process running |
| `bt_sessions` | pass | 3 descriptors, at most 2 references on the blob, any call at any time, loader fails | `NoMisuse`, `NoDescriptorLeak` and `NoLibraryLeak`, each up to its cause in `blame` |
| `bt_init_status` | violation | as `bt_sessions` | finding: status of `mtk_init` |
| `ril_safety` | pass | 2 calls, every code, 1 message the modem sends by itself, 1 socket loss | `AnsweredOnce`, `NoLostCall` |
| `ril_indications` | pass | 1 call, an incoming call or a radio state, 2 such messages, 1 loss | `GprsInOrder`, `GprsSetUp`, `PendingAnswered`, `IncomingCallHandled` |
| `ril_radio_power` | violation | 2 calls | finding: `setRadioPower` |
| `ril_operators` | pass | scans of up to 2 operators out of 18, complete or with 3 strings over, area codes of 3, 4 and 8 characters, 2 of them, capabilities 3 and 4 | `ScanFaithful`, `LacHarmless`, `LacUsedOnce`, `OperatorNamed` |
| `usb_switch` | pass | all 44 configurations, the factory default persistent, framework waits | `SwitchedCorrectly`, `IdsTellFunctions`, `SwitchCompletes` |
| `usb_hurry` | pass | 2 configurations, 1 persistent, 1 other setting at any time, framework never waits | `StateSettles`, `NoLiveReconfiguration` |
| `wifi_commands` | pass | all features, 2 interchangeable access points, 1 station, 1 country, numbers 0, 255 and 256, 3 replies of statistics (signals 0, 219 and 255, counts below and above 2^31, odd and even rates, attributes missing), 1 of link detection (a signed count, one missing), 2 events | `DriverAgrees`, `AnnouncedState`, `MessageTellsCommand`, `StatisticsFaithful`, `LinkDetectFaithful`, `NoStrayConcurrency`, `NoKnownLinkDropped` |

Why the bounds are enough. Two threads are all that a mutex and a pthread_once
can tell apart. The choice among LED users needs all three and no failures
(`lights_arbiter`); with failing writes every file keeps its own history, so
`lights_faults` has one LED user, one lit colour and no blinking, and the
backlight for errors that are returned. The theorems cover any threads, users and
states with failures and crashes. Three descriptors allow one in use, one stale or leaked
and one fresh; two references on the blob one that a second init adds. Two calls give every order of two responses, with one repeated
response or one indication and one lost socket in between; the RIL runs do not
check for deadlock because their calls and messages are finite in number. For
USB all configurations occur; where settings interleave freely two are enough to
have one that overtakes another. `usb_switch` does not check for deadlock:
nobody is obliged to ask for another switch. For scans two
operators are enough for a nameless one before a named one and for one that
loses the other; area codes of three lengths match none, one or both. For Wi-Fi one station and one
country show an answer that disagrees with the driver, because the two processes
compete for them; two events allow a link to be lost and come back while the
process still believes in the old one, and two access points a link that is
another one than the process knows of. Each attribute of a reply has a value of
its own, so that a line that shows another's is seen. `MessageTellsCommand` is about numbers below
256: the code lets larger ones through, and 256 turns `rxfilter-add` into
`rxfilter-remove`; nothing in the repository states the range.

Fairness. `Lights`: weak fairness of each thread inside the HAL; nobody is
obliged to call, and pthread_mutex is not assumed to be fair between waiters
(therefore no claim that every waiter gets the lock).
`MediaTekRIL`: the receiver and sender threads keep running, the parent
reconnects for ever, and the modem answers what it has received while the socket
is open. `UsbGadget`: init's loop keeps running and the framework goes on with a
switch that it has begun.

## 4. Findings

Each is a run expected to be violated, with the line of the repository it
contradicts in `PROJECT.json`: `g_cur_led` after a restart (`lights.c:56`: an off
request finishes without a write while the LED runs with a colour), the
status of `mtk_init` (`libbt-vendor-mtk.c:80`, `:90`), the missing case for the
request `setRadioPower` sends (`MediaTekRIL.java:496`).

## 5. Proofs

All theorems hold for every value of the constants that the named assumptions of
the modules allow. None of the properties is inductive by itself; for each
component the invariant that is, and why it is needed, is given below. The
invariants were model-checked before they were proved.

**Lights.** `LightsProofs` proves for every set of threads, states and names, with
failures and crashes: `TypeCorrect`, `ArbitrationCorrect` (`CurIsHighestLit`),
`PanelCorrect` (`PanelFollowsTable`), `MutualExclusion` (`LockHeldInside`),
`OnceCorrect` (`LockNotReinitialised`), `BrightnessAcknowledged` (`AckedBrightness`),
and about the arithmetic `BrightnessRange` (within a byte) and `BrightnessLuma`
(within one and a half levels of the luminance 0.299 R + 0.587 G + 0.114 B). While a
thread writes, table, LED and `g_cur_led` disagree. `IInv`
adds `LockHeldInside` (who is between lock and unlock owns `g_lock`), `OnceInv` (before
init_globals is done there is no device and nobody past pthread_once), `StepInv`
and `WriteInv` (the index being programmed is the highest lit one, and what has
been written so far shows it). The heart is `DecisionIsHighest`: comparing `type`
with `g_cur_led` is enough to keep the maximum. `BrightnessAcknowledged` needs in
addition that only LED calls reach the write sequence (`WritesForLed`).

`LightsRefinement` proves `Refinement`: `Spec` implies the safety specification
`Arbiter!Spec` of `LedArbiter`, under `Faultless` (no write fails, the process
does not die; after a failed write the LED keeps a part of its last
configuration, and `lights_restart` shows what a restart does). `RefInv` says when the LED may
differ from `g_cur_led`: between the calls it does not; during a call it is
stopped from the first write to the last, and the files written so far are those
of the new configuration. Then only the first write (blank), the last one (show)
and the store of a request map to steps of the arbiter; everything else is a
stutter.

**Bluetooth.** `BtVendorProofs` proves `TypeCorrect`, `LibraryReleased`
(`NoLibraryLeak`), `DescriptorsReleased` (`NoDescriptorLeak`) and `SessionsSafe`
(`NoMisuse`) for a stack that may make any call at any time, any descriptors and
any bound on references. Two invariants state why stale globals do no harm, each
under the causes it depends on: `LoaderInv` (without a mixed-up session the
references are those of the session, and if the loader has not failed either, both
pointers lead into the mapped blob; callbacks are set in a session) and `PortInv`
(without carelessness about the port, `hci_tty_fd` is the one open descriptor exactly while the
port is open).

**RIL.** `MediaTekRILProofs` proves, for any calls, both SIMs and any number of
indications and lost sockets, `TypeCorrect`, `EveryCallAnsweredOnce`
(`AnsweredOnce`), `NoCallLost` (`NoLostCall`) and `GprsOrder` (`GprsInOrder`). A
modem that repeats or delays an answer cannot answer a call twice because of
`CallInv`: serials grow along the queue and tell requests apart (`Serials`), and a
call is carried by one request exactly as long as it waits (`Held`). `GprsInv` is
about every connect type in the sender queue that was sent on the present connection,
and about the one the receiver has still to send: the last GPRS request before its
place, or what the modem heard last if there is none, is a transfer type (`Paired`).
Requests of phone threads in between and at the end keep this (`PairedKept`,
`PairedLengthened`), so does the sender (`PairedSent`), and a lost socket makes
everything in the queue a leftover.

**Operator names.** `OperatorInfosProofs` proves `DecodeEncode` (`Decoded` gives
back every text, of any length, from each of its encodings), `TypeCorrect`,
`ScansAreFaithful` (`ScanFaithful`), `AreaCodesHarmless` (`LacHarmless`),
`AreaCodesOnce` (`LacUsedOnce`) and `OperatorsNamed` (`OperatorNamed`), for any
scans, table, area codes and capabilities within the assumptions described in
section 2. `DecodeEncode` is arithmetic on the four digits of a code unit and on
positions of sequences; it needs no induction because `hexStringToBytes` and
`Utf16` are given element by element. `LacInv`: area codes are numbered as they
are left, and those in the property, or just read and not yet applied, have never
been applied. `DecodeInv`: the operators converted so far are shown as they
should be, and the position in the area codes is at most four times the number of
operators converted, so that `substring` stays within the string. `LacHarmless` is
about steps: under `DecodeInv`, a step of the loop over hexadecimal area codes that
throws does so for the operator it has come to (`OperatorThrows`).

**USB.** `UsbGadgetProofs` proves for any framework, also one that does not wait,
and any other settings of the three mode properties (`OthersAssumption`):
`TypeCorrect`, `LastSettingAnnounced` (`StateSettles`) and `NoChangeWhileEnabled`
(`NoLiveReconfiguration`). `UsbInv` is about what is left of the running script:
nothing of the gadget is written after USB is enabled, while USB is enabled it is
disabled before anything is written (`CurOrdered`), and a setting that is not
announced has a script that will do so, running or waiting (`Settling`). That
each of the 43 scripts has this shape is proved once, from `GadgetScript`.

`UsbSwitchProofs` proves `SwitchCorrect` (`SwitchedCorrectly`) and `IdsMean`
(`IdsTellFunctions`), both under `Undisturbed`: the framework waits for
`sys.usb.state`, and nobody sets `sys.usb.bicr` by itself. A framework that does
not wait lets scripts overtake each other, and a setting of `sys.usb.bicr` puts in
or takes out the disk image of the configuration in use, as it is meant to. Any
number of other settings of the charging and the port mode may come in between,
which `usb_switch` leaves out. `SwitchInv` says that at most one setting is on its way (`OneSetting`,
`CurKind`), what the framework can tell from `sys.usb.state` (`PhaseKnows`), that
a configuration starts from the state that `none` leaves (`StartsClean`), and
that each command a configuration needs is still in the script or has had its
effect (`GadgetProgress`, `NoneProgress`, `ChargingProgress`).

**Wi-Fi.** `WifiDriverCmdProofs` proves for any stations, networks, countries and
build features, signals of a byte and numbers below 2^30 (`NumbersAssumption`: no
sum of the code leaves its 32-bit word, so that none wraps around):
`TypeCorrect`, `DriverAgreement` (`DriverAgrees`), `AnnouncedTruth`
(`AnnouncedState`), `Concurrency` (`NoStrayConcurrency`), `LinkLeftFirst`
(`NoKnownLinkDropped`), `StatisticsAsSent` (`StatisticsFaithful`),
`LinkDetectAsSent` (`LinkDetectFaithful`) and `MessagesTell`
(`MessageTellsCommand`). `StateInv` adds to the properties that what was
acknowledged is one of few values. `NoKnownLinkDropped` needs `LinkInv`: the link is
what the process believes or what the last event on the way will tell it, unless it
is an orphan (`Coherent`), and a process that is still associated in the middle of
`stop` was refused or has an event to hear (`StoppingLeft`). `LastInv` ties an
answer to the one command or query that gave it, so that the last three theorems are
facts about the handlers, the printers and `Message`: for each line, the field it
shows is that of the attribute it is named for (the tables are composed), and the
conversions on the way are those the property names, for any reply within the types
of the attributes (`StatisticsAssumption`, `LinkAssumption`).

**Only model-checked.** Liveness, for which this prover has no rules for fairness
and `ENABLED`: `OpenReturns`, `PendingAnswered`, `IncomingCallHandled`, `GprsSetUp`,
`SwitchCompletes`, and the fairness part of
`ImplementsArbiter` (the safety part is `Refinement`). The properties of the runs
that expect a violation are false and have no theorem.

## 6. Not modelled, and the plan

- Boot scripts (`init.rc`, `init.mt6582.rc`, `factory_init.rc`, `init.project.rc`,
  the modem, fuse and xlog scripts): each boot stage is one straight line of
  `mkdir`, `chown`, `write` and `class_start` that init runs in the order of the
  imports, with nothing running beside it that could change the outcome. The
  scripts with an order of their own are those for `vold.decrypt`; they are never
  set off on this device, because `fstab.mt6582` marks no partition as
  encryptable, so a model of them would have no reachable behaviour. What a boot
  script leaves for another component (adbd, for USB) is in that component's
  initial state.
- `pack.pl`, `bootimg.mk`: a build step over one file on the build host.
- `audio.cpp`, `mtkaudio.cpp`, `xlog.c`: functions that return constants or log,
  so that vendor libraries find their symbols; no state.
- `media_profiles.xml`, `ueventd`, fstab, properties, overlays, board makefiles:
  tables that other programs read.
- Logging, message texts, `malloc` failures.
- The parent class RIL, init, the kernel drivers, the vendor blobs and the
  framework are external: each appears as what its neighbour in this repository
  may rely on.

Left for later: every safety property that a run checks has its theorem; what
remains are the liveness properties, which stay with TLC, and an assumption of
`OperatorInfos` that could be weaker (digits of mixed case decode as well; the
reference `Encodings` has only the two uniform ones).
