----------------------------- MODULE UsbGadget ------------------------------
(***************************************************************************)
(* The USB configuration scripts, rootdir/root/init.mt6582.usb.rc.         *)
(*                                                                         *)
(* Setting sys.usb.config queues the script of the new value; init runs    *)
(* one command at a time, and properties may be set between two commands.  *)
(* A `$property' in a command is expanded when the command runs, not when  *)
(* the script was queued.                                                  *)
(*                                                                         *)
(* External, modelled from how the scripts use them: init (a script that   *)
(* already waits is not queued again; the one being run no longer waits),  *)
(* and the framework, which disables USB with "none", waits for            *)
(* sys.usb.state, and then asks for a configuration, directly or through   *)
(* the persistent property.                                                *)
(*                                                                         *)
(* A property or file value is the set of its comma-separated words.       *)
(***************************************************************************)
EXTENDS Sequences, FiniteSets

CONSTANTS
    Configs,    \* the configurations the framework asks for
    Persistent, \* those it also asks for through persist.sys.usb.config
    Others,     \* the settings <<property, value>> it makes besides
    Patient     \* whether it waits for sys.usb.state, or gives up at any time

-----------------------------------------------------------------------------
(* The product id of each configuration, by group of scripts. *)

SingleProducts == {
    <<{"acm"}, "0006">>, <<{"adb"}, "0C01">>, <<{"adb", "acm"}, "200E">>,
    <<{"mass_storage"}, "0001">>, <<{"mass_storage", "adb"}, "0C03">>}

MediaProducts == {
    <<{"mtp"}, "2008">>, <<{"mtp", "acm"}, "2012">>, <<{"mtp", "adb"}, "0C02">>,
    <<{"mtp", "adb", "acm"}, "200A">>, <<{"mtp", "mass_storage"}, "2016">>,
    <<{"mtp", "mass_storage", "adb"}, "2017">>,
    <<{"ptp"}, "200B">>, <<{"ptp", "acm"}, "2013">>, <<{"ptp", "adb"}, "200C">>,
    <<{"ptp", "adb", "acm"}, "200D">>, <<{"ptp", "mass_storage"}, "2015">>,
    <<{"ptp", "mass_storage", "adb"}, "2014">>}

ModemProducts == {
    <<{"rndis"}, "0003">>, <<{"rndis", "acm"}, "2011">>, <<{"rndis", "adb"}, "0004">>,
    <<{"rndis", "adb", "acm"}, "2010">>,
    <<{"mass_storage", "acm"}, "200F">>, <<{"mass_storage", "adb", "acm"}, "0005">>,
    <<{"mtp", "mass_storage", "acm"}, "2018">>, <<{"mtp", "mass_storage", "adb", "acm"}, "2019">>,
    <<{"ptp", "mass_storage", "acm"}, "201A">>, <<{"ptp", "mass_storage", "adb", "acm"}, "201B">>}

AccessoryProducts == {
    <<{"accessory"}, "2d00">>, <<{"accessory", "adb"}, "2d01">>,
    <<{"audio_source"}, "2d02">>, <<{"audio_source", "adb"}, "2d03">>,
    <<{"accessory", "audio_source"}, "2d04">>, <<{"accessory", "audio_source", "adb"}, "2d05">>}

BicrProducts == {
    <<{"bicr"}, "0001">>, <<{"bicr", "adb"}, "0C03">>,
    <<{"bicr", "adb", "acm"}, "0005">>, <<{"bicr", "acm"}, "200F">>}

(* Mutant: an id copied from the script above. *)
EemProducts_Copied == {
    <<{"eem"}, "2026">>, <<{"eem", "acm"}, "2027">>, <<{"eem", "adb"}, "2027">>,
    <<{"eem", "adb", "acm"}, "2029">>}

EemProducts == {
    <<{"eem"}, "2026">>, <<{"eem", "acm"}, "2027">>, <<{"eem", "adb"}, "2028">>,
    <<{"eem", "adb", "acm"}, "2029">>}

PortProducts == {<<{"acm_third"}, "0005">>, <<{"gs3"}, "0005">>}

Products == UNION {SingleProducts, MediaProducts, ModemProducts, AccessoryProducts,
                   BicrProducts, EemProducts, PortProducts}
ProductOf(config) == (CHOOSE p \in Products : p[1] = config)[2]

GadgetConfigs == {p[1] : p \in Products}
AllConfigs == GadgetConfigs \cup {{"charging"}}

ASSUME ConfigsAssumption == Configs \subseteq AllConfigs /\ Persistent \subseteq Configs
ASSUME PatientAssumption == Patient \in BOOLEAN
ASSUME OthersAssumption ==
    Others \subseteq ({"sys.usb.charging", "sys.usb.bicr"} \X {{"yes"}, {"no"}})
                     \cup ({"mediatek.usb.port.mode"} \X {{"usb"}, {"uart"}})

-----------------------------------------------------------------------------
(* Scripts: sequences of commands *)

Write(f, words) == [do |-> "write", name |-> f, value |-> words]
SetProp(p, words) == [do |-> "setprop", name |-> p, value |-> words]
Service(verb) == [do |-> verb, name |-> "adbd", value |-> {}]

sys_usb_config == {"$sys.usb.config"}
Starts(config) == "adb" \in config \/ config \in {{"acm_third"}, {"gs3"}}

(* Mutant: USB stays enabled while it is reconfigured. *)
DisableGadget_Missing == <<>>

DisableGadget == <<Write("enable", {"0"})>>
ReportState == <<SetProp("sys.usb.state", sys_usb_config)>>

(* What a script writes to `functions': a literal in the scripts whose     *)
(* value is no list of functions, and in mtp,adb.                          *)
FunctionsOf(config) ==
    CASE "bicr" \in config -> (config \ {"bicr"}) \cup {"mass_storage"}
      [] config \in {{"acm_third"}, {"gs3"}} -> {"mass_storage", "adb", "acm"}
      [] OTHER -> config

FunctionsWord(config) ==
    IF FunctionsOf(config) # config \/ config = {"mtp", "adb"}
    THEN FunctionsOf(config) ELSE sys_usb_config

ClassOf(config) ==
    CASE config = {"acm"} -> {"02"}
      [] config \in {{"rndis"}, {"eem"}} -> {"224"}
      [] OTHER -> {"0"}

(* A list with one command, or none. *)
Only(condition, command) == IF condition THEN <<command>> ELSE <<>>

(* The scripts that set up a gadget. *)
GadgetScript(config) ==
    DisableGadget
    \o <<Write("idVendor", {IF config \cap {"accessory", "audio_source"} # {} THEN "18d1" ELSE "0BB4"}),
         Write("idProduct", {ProductOf(config)})>>
    \o Only("acm" \in config, Write("instances", {"1"}))
    \o Only(config = {"acm_third"}, Write("port_index", {"3"}))
    \o Only(config = {"gs3"}, Write("port_index", {"4"}))
    \o <<Write("functions", FunctionsWord(config))>>
    \o Only(ClassOf(config) # {"0"}, Write("bDeviceClass", ClassOf(config)))
    \o Only("bicr" \in config, Write("bicr", {"1"}))
    \o Only("bicr" \in config, Write("lun/file", {"/dev/block/loop0"}))
    \o <<Write("enable", {"1"})>>
    \o Only(Starts(config), Service("start"))
    \o ReportState

(* Mutants: adbd is left running; the new state is not announced. *)
NoneScript_KeepsAdbd == DisableGadget \o <<Write("bDeviceClass", {"0"})>> \o ReportState
NoneScript_Silent == <<Service("stop")>> \o DisableGadget \o <<Write("bDeviceClass", {"0"})>>

NoneScript ==
    <<Service("stop")>> \o DisableGadget \o <<Write("bDeviceClass", {"0"})>> \o ReportState

ChargingScript == ReportState \o <<SetProp("sys.usb.charging", {"yes"})>>

PersistScript == <<SetProp("sys.usb.config", {"$persist.sys.usb.config"})>>

(* The triggers that are not about sys.usb.config. *)
ChargeModeScript(words) == <<Write("cmode", {IF words = {"yes"} THEN "2" ELSE "1"})>>
BicrModeScript(words) ==
    <<Write("bicr", {IF words = {"yes"} THEN "1" ELSE "0"}),
      Write("lun/file", {IF words = {"yes"} THEN "/dev/block/loop0" ELSE "0"})>>
PortModeScript(words) == <<Write("portmode", {IF words = {"usb"} THEN "0" ELSE "1"})>>

(* Triggers are pairs of a property and the value that fires it. *)
ConfigScript(words) ==
    CASE words = {"none"} -> NoneScript
      [] words = {"charging"} -> ChargingScript
      [] words \in GadgetConfigs -> GadgetScript(words)

Script(trigger) ==
    CASE trigger[1] = "persist.sys.usb.config" -> PersistScript
      [] trigger[1] = "sys.usb.config" -> ConfigScript(trigger[2])
      [] trigger[1] = "sys.usb.charging" -> ChargeModeScript(trigger[2])
      [] trigger[1] = "sys.usb.bicr" -> BicrModeScript(trigger[2])
      [] trigger[1] = "mediatek.usb.port.mode" -> PortModeScript(trigger[2])

-----------------------------------------------------------------------------
VARIABLES
    props,    \* the properties
    file,     \* the files of the USB driver
    adbd,     \* whether adbd runs
    queue,    \* triggers whose scripts wait
    cur,      \* what is left of the script init is running
    client    \* the framework's switch: its phase and its target

vars == <<props, file, adbd, queue, cur, client>>

Properties == {"persist.sys.usb.config", "sys.usb.config", "sys.usb.state", "sys.usb.charging",
               "sys.usb.bicr", "mediatek.usb.port.mode"}
Files == {"enable", "idVendor", "idProduct", "functions", "bDeviceClass", "instances",
          "port_index", "bicr", "lun/file", "cmode", "portmode"}
Phases == {"idle", "disabling", "enabling"}

(* post-fs-data has started adbd by the time the triggers are enabled. *)
adbdAtBoot == TRUE

(* Booted up to the point where init looks at all property triggers. *)
Init ==
    /\ props \in {[p \in Properties |-> IF p = "persist.sys.usb.config" THEN config ELSE {}] :
                  config \in Persistent}
    /\ file = [f \in Files |-> CASE f = "enable" -> {"0"}
                                 [] f = "bDeviceClass" -> {"0"}
                                 [] f = "idVendor" -> {"0BB4"}
                                 [] OTHER -> {}]
    /\ adbd = adbdAtBoot
    /\ queue = <<<<"persist.sys.usb.config", {"*"}>>>>
    /\ cur = <<>>
    /\ client = [phase |-> "idle", target |-> {}]

(* property_set of init: the new value, and the scripts it triggers. *)
TriggerOf(p, words) == <<p, IF p = "persist.sys.usb.config" THEN {"*"} ELSE words>>
HasScript(p, words) ==
    /\ p # "sys.usb.state"
    /\ p = "sys.usb.config" => words \in AllConfigs \cup {{"none"}}

property_set(p, words) ==
    LET trigger == TriggerOf(p, words)
        waiting == {queue[i] : i \in DOMAIN queue}
    IN /\ props' = [props EXCEPT ![p] = words]
       /\ queue' = IF HasScript(p, words) /\ trigger \notin waiting
                   THEN Append(queue, trigger) ELSE queue

(* Init takes the next script that waits. *)
NextScript ==
    /\ cur = <<>> /\ queue # <<>>
    /\ cur' = Script(Head(queue))
    /\ queue' = Tail(queue)
    /\ UNCHANGED <<props, file, adbd, client>>

(* Mutant: `$property' is written as it stands. *)
Expand_Literally(words) == words

Expand(words) ==
    CASE words = sys_usb_config -> props["sys.usb.config"]
      [] words = {"$persist.sys.usb.config"} -> props["persist.sys.usb.config"]
      [] OTHER -> words

(* Init runs one command. *)
RunWrite ==
    /\ cur # <<>> /\ Head(cur).do = "write"
    /\ file' = [file EXCEPT ![Head(cur).name] = Expand(Head(cur).value)]
    /\ cur' = Tail(cur)
    /\ UNCHANGED <<props, adbd, queue, client>>

RunService ==
    /\ cur # <<>> /\ Head(cur).do \in {"start", "stop"}
    /\ adbd' = (Head(cur).do = "start")
    /\ cur' = Tail(cur)
    /\ UNCHANGED <<props, file, queue, client>>

RunSetProp ==
    /\ cur # <<>> /\ Head(cur).do = "setprop"
    /\ property_set(Head(cur).name, Expand(Head(cur).value))
    /\ cur' = Tail(cur)
    /\ UNCHANGED <<file, adbd, client>>

-----------------------------------------------------------------------------
(* The framework *)

(* A patient framework starts from a configuration that is in place. *)
StartSwitch(config) ==
    /\ client.phase = "idle"
    /\ Patient => props["sys.usb.config"] \notin {{}, {"none"}}
                  /\ props["sys.usb.state"] = props["sys.usb.config"]
    /\ property_set("sys.usb.config", {"none"})
    /\ client' = [phase |-> "disabling", target |-> config]
    /\ UNCHANGED <<file, adbd, cur>>

AskFor(p) ==
    /\ client.phase = "disabling"
    /\ Patient => props["sys.usb.state"] = {"none"}
    /\ p = "persist.sys.usb.config" => client.target \in Persistent
    /\ property_set(p, client.target)
    /\ client' = [client EXCEPT !.phase = "enabling"]
    /\ UNCHANGED <<file, adbd, cur>>

FinishSwitch ==
    /\ client.phase = "enabling"
    /\ Patient => props["sys.usb.state"] = client.target
    /\ client' = [client EXCEPT !.phase = "idle"]
    /\ UNCHANGED <<props, file, adbd, queue, cur>>

SetOther(p, words) ==
    /\ <<p, words>> \in Others
    /\ property_set(p, words)
    /\ UNCHANGED <<file, adbd, cur, client>>

-----------------------------------------------------------------------------
init == NextScript \/ RunWrite \/ RunService \/ RunSetProp

Switching ==
    \/ \E p \in {"sys.usb.config", "persist.sys.usb.config"} : AskFor(p)
    \/ FinishSwitch

Next ==
    \/ init \/ Switching
    \/ \E config \in Configs : StartSwitch(config)
    \/ \E other \in Others : SetOther(other[1], other[2])

Spec == Init /\ [][Next]_vars

(* Init's loop keeps running, and the framework goes on with a switch it   *)
(* has begun; nothing makes it begin one.                                  *)
FairSpec == Spec /\ WF_vars(init) /\ WF_vars(Switching)

-----------------------------------------------------------------------------
(* Properties *)

Words == (UNION AllConfigs) \cup {"none", "yes", "no", "usb", "uart"}
Numbers == {"0", "1", "2", "3", "4", "02", "224", "0BB4", "18d1", "/dev/block/loop0"}
Enabled == file["enable"] = {"1"}

(* Type invariant: properties hold words of the scripts and files hold     *)
(* what the scripts write, never an unexpanded `$property'.                *)
TypeOK ==
    /\ props \in [Properties -> SUBSET Words]
    /\ DOMAIN file = Files
    /\ \A f \in Files \ {"idProduct", "functions"} : file[f] \subseteq Numbers
    /\ file["functions"] \subseteq Words
    /\ adbd \in BOOLEAN
    /\ client \in [phase : Phases, target : Configs \cup {{}}]

(* A switch that the framework has seen complete left exactly what was     *)
(* asked for: the functions, the device class, the serial port, the disk   *)
(* image and adbd, whatever the configuration before it was, and USB off   *)
(* for charging only.                                                      *)
SwitchedCorrectly ==
    client.phase = "idle" /\ client.target # {} =>
        /\ Enabled <=> client.target # {"charging"}
        /\ Enabled => /\ file["functions"] = FunctionsOf(client.target)
                      /\ file["bDeviceClass"] = ClassOf(client.target)
                      /\ client.target = {"acm_third"} => file["port_index"] = {"3"}
                      /\ client.target = {"gs3"} => file["port_index"] = {"4"}
                      /\ "bicr" \in client.target => file["bicr"] = {"1"} /\ file["lun/file"] = {"/dev/block/loop0"}
        /\ adbd <=> Enabled /\ "adb" \in file["functions"]

(* Hosts choose and remember drivers by vendor and product: while USB is   *)
(* enabled, every configuration announced under the same two ids has the   *)
(* functions the gadget has.                                               *)
IdsTellFunctions ==
    Enabled =>
        \A config \in GadgetConfigs :
            file["idProduct"] = {ProductOf(config)} => file["functions"] = FunctionsOf(config)

(* No script, however many are set off while others run, changes the ids,  *)
(* the functions or the class of a gadget that is and stays enabled.       *)
NoLiveReconfiguration ==
    [][Enabled /\ Enabled' =>
         \A f \in {"idVendor", "idProduct", "functions", "bDeviceClass"} : file'[f] = file[f]]_vars

(* However settings overtake each other, once init has nothing left to run *)
(* the last one is announced: a framework that sits down to wait for it is *)
(* not left waiting, although a setting whose script already waits in the  *)
(* queue is not queued again.                                              *)
StateSettles ==
    queue = <<>> /\ cur = <<>> /\ props["sys.usb.config"] # {} =>
        props["sys.usb.state"] = props["sys.usb.config"]

(* Every switch the framework begins is seen to complete: each script ends *)
(* by announcing the state that the framework waits for.                   *)
SwitchCompletes == client.phase # "idle" ~> client.phase = "idle"
=============================================================================
