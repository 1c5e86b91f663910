--------------------------- MODULE UsbSwitchProofs ---------------------------
(***************************************************************************)
(* Proofs about switches of a framework that waits for sys.usb.state.      *)
(*                                                                         *)
(* What a completed switch leaves behind is the work of two scripts: that  *)
(* of "none" brings USB to one known state, and that of the target starts  *)
(* from there.  SwitchInv says how far the work has come: what is on its   *)
(* way (the settings that wait, and the script that runs), what the        *)
(* framework knows of it, and, for each command that is needed, that it    *)
(* still waits in the script or has had its effect.                        *)
(***************************************************************************)
EXTENDS UsbGadgetProofs

(* The framework waits, and nobody sets the disk image by itself. *)
Undisturbed == Patient /\ \A other \in Others : other[1] # "sys.usb.bicr"

-----------------------------------------------------------------------------
(* The commands of each kind of script *)

Charging == SetProp("sys.usb.charging", {"yes"})
Persist == SetProp("sys.usb.config", {"$persist.sys.usb.config"})
Harmless == {Charging} \cup [do : {"write"}, name : {"cmode", "portmode"}, value : SUBSET Numbers]

NoneClass == Write("bDeviceClass", {"0"})
NoneCommands == {Service("stop"), Disable, NoneClass, Report}

(* The commands that make the gadget what it is. *)
Needed(config) ==
    {Write("idProduct", {ProductOf(config)}), Write("functions", FunctionsWord(config))}
    \cup {c \in {Write("port_index", {"3"})} : config = {"acm_third"}}
    \cup {c \in {Write("port_index", {"4"})} : config = {"gs3"}}
    \cup {c \in {Write("bDeviceClass", ClassOf(config))} : ClassOf(config) # {"0"}}
    \cup {c \in {Write("bicr", {"1"}), Write("lun/file", {"/dev/block/loop0"})} : "bicr" \in config}
    \cup {c \in {Service("start")} : Starts(config)}

GadgetCommands(config) ==
    Needed(config) \cup {Disable, Enable, Report}
    \cup [do : {"write"}, name : {"idVendor", "instances"}, value : SUBSET Numbers]

(* The command c is still to be run, or its effect is there. *)
In(c, s) == \E i \in DOMAIN s : s[i] = c
Pending(c) == In(c, cur)
Value(config, c) == IF c.name = "functions" THEN FunctionsOf(config) ELSE c.value
Done(config, c) == IF c.do = "write" THEN file[c.name] = Value(config, c) ELSE adbd

(* A script that disables USB enables it afterwards. *)
EnableFollows(s) == \A i \in DOMAIN s : s[i] = Disable => \E j \in DOMAIN s : j > i /\ s[j] = Enable

-----------------------------------------------------------------------------
(* The inductive invariant *)

Config == props["sys.usb.config"]
State == props["sys.usb.state"]

Main(t) == t[1] \in {"persist.sys.usb.config", "sys.usb.config"}
Waits(p) == \E i \in DOMAIN queue : queue[i][1] = p
PersistComes == Waits("persist.sys.usb.config") \/ cur = <<Persist>>
InFlight == Waits("sys.usb.config") \/ PersistComes \/ Announces(cur)

(* At most one setting is on its way, and the running script is its. *)
QueueOK ==
    /\ \A i, j \in DOMAIN queue : Main(queue[i]) /\ Main(queue[j]) => i = j
    /\ \A i \in DOMAIN queue : queue[i][1] = "sys.usb.config" => queue[i][2] = Config
    /\ \A i \in DOMAIN queue : queue[i][1] # "sys.usb.bicr"
MainWaits == Waits("sys.usb.config") \/ Waits("persist.sys.usb.config")
OneSetting == QueueOK /\ (MainWaits => cur \in Seq(Harmless))

(* A script of sys.usb.config announces the state and does little else     *)
(* after that.                                                             *)
QuietAfterReport(s) == \A i, j \in DOMAIN s : i < j /\ s[i] = Report => s[j] \in Harmless
ConfigKind ==
    \/ Config = {"none"} /\ cur \in Seq(NoneCommands)
    \/ Config = {"charging"} /\ cur \in Seq({Report, Charging})
    \/ Config \in GadgetConfigs /\ cur \in Seq(GadgetCommands(Config))
CurKind ==
    \/ cur \in Seq(Harmless)
    \/ cur = <<Persist>>
    \/ ConfigKind /\ Announces(cur) /\ QuietAfterReport(cur)

(* What the framework can tell from sys.usb.state. *)
PhaseKnows ==
    /\ client.phase = "idle" /\ client.target = {} =>
         /\ Config # {"none"} /\ (PersistComes <=> Config = {})
         /\ State = IF InFlight THEN {} ELSE Config
    /\ client.phase = "idle" /\ client.target # {} =>
         ~InFlight /\ Config = client.target /\ State = client.target
    /\ client.phase = "disabling" =>
         Config = {"none"} /\ ~PersistComes /\ (InFlight <=> State # {"none"})
    /\ client.phase = "enabling" =>
         IF PersistComes
         THEN /\ Config = {"none"} /\ State = {"none"}
              /\ props["persist.sys.usb.config"] = client.target
         ELSE Config = client.target /\ State = IF InFlight THEN {"none"} ELSE client.target

(* Where the script of a configuration starts from.  At boot adbd runs. *)
AdbdOff == adbd => client.target = {}
Clean == ~Enabled /\ file["bDeviceClass"] = {"0"} /\ AdbdOff
StartsClean == Config = {} \/ (Waits("sys.usb.config") /\ Config # {"none"}) => Clean

(* How far the script of each kind has come. *)
GadgetProgress ==
    Config \in GadgetConfigs /\ ~Waits("sys.usb.config") =>
        /\ \A c \in Needed(Config) : Pending(c) \/ Done(Config, c)
        /\ Pending(Enable) \/ Enabled
        /\ EnableFollows(cur)
        /\ ClassOf(Config) = {"0"} => file["bDeviceClass"] = {"0"}
        /\ ~Starts(Config) => AdbdOff

ChargingProgress ==
    Config = {"charging"} /\ ~Waits("sys.usb.config") => ~Enabled /\ AdbdOff

NoneProgress ==
    Config = {"none"} /\ ~Waits("sys.usb.config") =>
        /\ Pending(Service("stop")) \/ ~adbd
        /\ Pending(Disable) \/ ~Enabled
        /\ Pending(NoneClass) \/ file["bDeviceClass"] = {"0"}

(* An enabled gadget has the ids and functions of one configuration. *)
OneGadget ==
    Enabled => \E config \in GadgetConfigs : /\ file["idProduct"] = {ProductOf(config)}
                                             /\ file["functions"] = FunctionsOf(config)

SwitchInv ==
    /\ OneSetting /\ CurKind /\ PhaseKnows
    /\ StartsClean /\ GadgetProgress /\ ChargingProgress /\ NoneProgress
    /\ OneGadget

-----------------------------------------------------------------------------
(* Products *)

LEMMA ProductChosen ==
    ASSUME NEW config \in GadgetConfigs
    PROVE  \E p \in Products : p[1] = config /\ p[2] = ProductOf(config)
  <1>1. \E p \in Products : p[1] = config
    BY DEF GadgetConfigs
  <1> QED BY <1>1, Zenon DEF ProductOf

(* No product id is the name of a property, so that init never expands *)
(* one.                                                                *)
LEMMA ProductWords ==
    \A p \in Products : p[2] # "$sys.usb.config" /\ p[2] # "$persist.sys.usb.config"
  <1> DEFINE Id(p) == p[2] # "$sys.usb.config" /\ p[2] # "$persist.sys.usb.config"
  <1>1. \A p \in SingleProducts \cup PortProducts : Id(p)
    BY DEF SingleProducts, PortProducts
  <1>2. \A p \in MediaProducts : Id(p)
    BY DEF MediaProducts
  <1>3. \A p \in ModemProducts : Id(p)
    BY DEF ModemProducts
  <1>4. \A p \in AccessoryProducts \cup BicrProducts \cup EemProducts : Id(p)
    BY DEF AccessoryProducts, BicrProducts, EemProducts
  <1>5. \A p \in Products : Id(p)
    <2> HIDE DEF Id
    <2> QED BY <1>1, <1>2, <1>3, <1>4 DEF Products
  <1> QED BY <1>5

(* The ids that configurations share. *)
LEMMA SharedIds ==
    ASSUME NEW p \in Products
    PROVE  /\ p[2] = "0001" => p[1] \in {{"mass_storage"}, {"bicr"}}
           /\ p[2] = "0C03" => p[1] \in {{"mass_storage", "adb"}, {"bicr", "adb"}}
           /\ p[2] = "0005" => p[1] \in {{"mass_storage", "adb", "acm"}, {"bicr", "adb", "acm"},
                                         {"acm_third"}, {"gs3"}}
           /\ p[2] = "200F" => p[1] \in {{"mass_storage", "acm"}, {"bicr", "acm"}}
           /\ \A q \in Products : q[2] = p[2] =>
                 q[1] = p[1] \/ p[2] \in {"0001", "0C03", "0005", "200F"}
BY SMTT(60) DEF Products, SingleProducts, MediaProducts, ModemProducts, AccessoryProducts,
                BicrProducts, EemProducts, PortProducts

(* Configurations that share a product id have the same functions. *)
LEMMA SharedFunctions ==
    /\ \A config \in {{"mass_storage"}, {"bicr"}} : FunctionsOf(config) = {"mass_storage"}
    /\ \A config \in {{"mass_storage", "adb"}, {"bicr", "adb"}} :
          FunctionsOf(config) = {"mass_storage", "adb"}
    /\ \A config \in {{"mass_storage", "adb", "acm"}, {"bicr", "adb", "acm"}, {"acm_third"}, {"gs3"}} :
          FunctionsOf(config) = {"mass_storage", "adb", "acm"}
    /\ \A config \in {{"mass_storage", "acm"}, {"bicr", "acm"}} :
          FunctionsOf(config) = {"mass_storage", "acm"}
  <1> DEFINE Fixed == {{"mass_storage"}, {"mass_storage", "adb"}, {"mass_storage", "adb", "acm"},
                       {"mass_storage", "acm"}}
  <1>1. \A config \in Fixed : FunctionsOf(config) = config
    <2>1. \A config \in Fixed : "mass_storage" \in config /\ "bicr" \notin config
      OBVIOUS
    <2>2. \A config \in Fixed : config \notin {{"acm_third"}, {"gs3"}}
      BY <2>1
    <2> QED BY <2>1, <2>2, FunctionsCases
  <1>2. \A config \in {{"acm_third"}, {"gs3"}} : FunctionsOf(config) = {"mass_storage", "adb", "acm"}
    BY FunctionsCases
  <1>3. /\ FunctionsOf({"bicr"}) = ({"bicr"} \ {"bicr"}) \cup {"mass_storage"}
        /\ FunctionsOf({"bicr", "adb"}) = ({"bicr", "adb"} \ {"bicr"}) \cup {"mass_storage"}
        /\ FunctionsOf({"bicr", "adb", "acm"}) = ({"bicr", "adb", "acm"} \ {"bicr"}) \cup {"mass_storage"}
        /\ FunctionsOf({"bicr", "acm"}) = ({"bicr", "acm"} \ {"bicr"}) \cup {"mass_storage"}
    BY FunctionsCases
  <1>4. /\ ({"bicr"} \ {"bicr"}) \cup {"mass_storage"} = {"mass_storage"}
        /\ ({"bicr", "adb"} \ {"bicr"}) \cup {"mass_storage"} = {"mass_storage", "adb"}
        /\ ({"bicr", "adb", "acm"} \ {"bicr"}) \cup {"mass_storage"} = {"mass_storage", "adb", "acm"}
        /\ ({"bicr", "acm"} \ {"bicr"}) \cup {"mass_storage"} = {"mass_storage", "acm"}
    OBVIOUS
  <1> QED BY <1>1, <1>2, <1>3, <1>4

(* Configurations with the same product id have the same functions. *)
LEMMA SameIdSameFunctions ==
    ASSUME NEW config \in GadgetConfigs, NEW other \in GadgetConfigs,
           ProductOf(config) = ProductOf(other)
    PROVE  FunctionsOf(config) = FunctionsOf(other)
  <1>1. PICK p \in Products : p[1] = config /\ p[2] = ProductOf(config)
    BY ProductChosen
  <1>2. PICK q \in Products : q[1] = other /\ q[2] = ProductOf(other)
    BY ProductChosen
  <1>3. CASE p[1] = q[1]
    BY <1>1, <1>2, <1>3
  <1>4. CASE p[2] \in {"0001", "0C03", "0005", "200F"}
    BY <1>1, <1>2, <1>4, SharedIds, SharedFunctions, ZenonT(40)
  <1> QED BY <1>1, <1>2, <1>3, <1>4, SharedIds

-----------------------------------------------------------------------------
(* The commands of each kind *)

LEMMA Records ==
    /\ Disable = [do |-> "write", name |-> "enable", value |-> {"0"}]
    /\ Enable = [do |-> "write", name |-> "enable", value |-> {"1"}]
    /\ NoneClass = [do |-> "write", name |-> "bDeviceClass", value |-> {"0"}]
    /\ Report = [do |-> "setprop", name |-> "sys.usb.state", value |-> sys_usb_config]
    /\ Charging = [do |-> "setprop", name |-> "sys.usb.charging", value |-> {"yes"}]
    /\ Persist = [do |-> "setprop", name |-> "sys.usb.config", value |-> {"$persist.sys.usb.config"}]
    /\ Service("start") = [do |-> "start", name |-> "adbd", value |-> {}]
    /\ Service("stop") = [do |-> "stop", name |-> "adbd", value |-> {}]
BY DEF Disable, Enable, NoneClass, Report, Charging, Persist, Write, SetProp, Service

(* A harmless command is none of those that a switch depends on. *)
LEMMA HarmlessKinds ==
    ASSUME NEW d \in Harmless
    PROVE  /\ d # Report /\ d # Persist /\ d # Enable /\ d # Disable /\ d # NoneClass
           /\ d # Service("start") /\ d # Service("stop")
           /\ d.do \in {"write", "setprop"}
           /\ d.do = "write" => d.name \in {"cmode", "portmode"}
           /\ d.do = "setprop" => d = Charging
BY Records DEF Harmless

(* What a command of the script for none can be. *)
LEMMA NoneKinds ==
    ASSUME NEW d \in NoneCommands
    PROVE  /\ d # Persist /\ d # Enable
           /\ d.do = "write" => d = Disable \/ d = NoneClass
           /\ d.do \in {"start", "stop"} => d = Service("stop")
           /\ d.do = "setprop" => d = Report
BY Records DEF NoneCommands

(* A needed command is written out by its name. *)
LEMMA NeededKinds ==
    ASSUME NEW config, NEW c \in Needed(config)
    PROVE  \/ c = Write("idProduct", {ProductOf(config)})
           \/ c = Write("functions", FunctionsWord(config))
           \/ c = Write("port_index", {"3"}) /\ config = {"acm_third"}
           \/ c = Write("port_index", {"4"}) /\ config = {"gs3"}
           \/ c = Write("bDeviceClass", ClassOf(config)) /\ ClassOf(config) # {"0"}
           \/ c = Write("bicr", {"1"}) /\ "bicr" \in config
           \/ c = Write("lun/file", {"/dev/block/loop0"}) /\ "bicr" \in config
           \/ c = Service("start") /\ Starts(config)
BY DEF Needed

(* A needed command is none of those common to all scripts. *)
LEMMA NeededNames ==
    ASSUME NEW config, NEW c \in Needed(config)
    PROVE  /\ c \notin {Disable, Enable, Report, NoneClass, Persist, Charging, Service("stop")}
           /\ c.do \in {"write", "start"}
           /\ c.do = "start" => c = Service("start") /\ Starts(config)
           /\ c.do = "write" => c.name \in {"idProduct", "functions", "port_index", "bDeviceClass",
                                            "bicr", "lun/file"}
           /\ c.name = "bDeviceClass" => ClassOf(config) # {"0"}
  <1>1. \A f, v : Write(f, v).do = "write" /\ Write(f, v).name = f /\ Write(f, v).value = v
    BY DEF Write
  <1>2. CASE c = Service("start") /\ Starts(config)
    BY <1>2, Records
  <1>3. ASSUME NEW f \in {"idProduct", "functions", "port_index", "bDeviceClass", "bicr", "lun/file"},
               NEW v, c = Write(f, v), f = "bDeviceClass" => v # {"0"} /\ ClassOf(config) # {"0"}
        PROVE  /\ c \notin {Disable, Enable, Report, NoneClass, Persist, Charging, Service("stop")}
               /\ c.do = "write" /\ c.name = f
    <2>1. c.do = "write" /\ c.name = f /\ c.value = v
      BY <1>1, <1>3
    <2> QED BY <1>3, <2>1, Records
  <1> DEFINE Goal == /\ c \notin {Disable, Enable, Report, NoneClass, Persist, Charging, Service("stop")}
                     /\ c.do = "write"
                     /\ c.name \in {"idProduct", "functions", "port_index", "bDeviceClass", "bicr",
                                    "lun/file"}
                     /\ c.name = "bDeviceClass" => ClassOf(config) # {"0"}
  <1>4. CASE \/ c = Write("idProduct", {ProductOf(config)})
             \/ c = Write("functions", FunctionsWord(config))
    <2>1. Goal BY <1>3, <1>4
    <2> QED BY <2>1
  <1>5. CASE c = Write("port_index", {"3"}) \/ c = Write("port_index", {"4"})
    <2>1. Goal BY <1>3, <1>5
    <2> QED BY <2>1
  <1>6. CASE c = Write("bDeviceClass", ClassOf(config)) /\ ClassOf(config) # {"0"}
    <2>1. Goal BY <1>3, <1>6
    <2> QED BY <2>1
  <1>7. CASE c = Write("bicr", {"1"}) \/ c = Write("lun/file", {"/dev/block/loop0"})
    <2>1. Goal BY <1>3, <1>7
    <2> QED BY <2>1
  <1> QED BY <1>2, <1>4, <1>5, <1>6, <1>7, NeededKinds

(* No two needed commands write the same file with different values. *)
LEMMA NeededOnce ==
    ASSUME NEW config, NEW c \in Needed(config), NEW d \in Needed(config),
           c.do = "write", d.do = "write", c.name = d.name
    PROVE  c = d
  <1>1. \A f, v : Write(f, v).do = "write" /\ Write(f, v).name = f
    BY DEF Write
  <1>2. Service("start").do # "write"
    BY Records
  <1>3. ASSUME NEW x \in Needed(config), x.do = "write"
        PROVE  /\ x.name = "idProduct" => x = Write("idProduct", {ProductOf(config)})
               /\ x.name = "functions" => x = Write("functions", FunctionsWord(config))
               /\ x.name = "port_index" => \/ x = Write("port_index", {"3"}) /\ config = {"acm_third"}
                                           \/ x = Write("port_index", {"4"}) /\ config = {"gs3"}
               /\ x.name = "bDeviceClass" => x = Write("bDeviceClass", ClassOf(config))
               /\ x.name = "bicr" => x = Write("bicr", {"1"})
               /\ x.name = "lun/file" => x = Write("lun/file", {"/dev/block/loop0"})
    <2> HIDE DEF Write
    <2>1. x # Service("start")
      BY <1>2, <1>3
    <2> QED BY <1>1, <2>1, NeededKinds
  <1>4. {"acm_third"} # {"gs3"}
    OBVIOUS
  <1> QED BY <1>3, <1>4, NeededNames

(* What a command of a gadget script can be. *)
LEMMA GadgetKinds ==
    ASSUME NEW config, NEW d \in GadgetCommands(config)
    PROVE  /\ d # Persist /\ d # Charging /\ d # Service("stop")
           /\ d.do = "setprop" => d = Report
           /\ d.do \in {"start", "stop"} => d = Service("start") /\ d \in Needed(config)
           /\ d.do = "write" => \/ d = Disable \/ d = Enable
                                \/ d \in Needed(config)
                                \/ d.name \in {"idVendor", "instances"}
  <1>1. CASE d \in Needed(config)
    BY <1>1, NeededNames
  <1>2. CASE d \in {Disable, Enable, Report}
    BY <1>2, Records
  <1>3. CASE d \in [do : {"write"}, name : {"idVendor", "instances"}, value : SUBSET Numbers]
    BY <1>3, Records
  <1> QED BY <1>1, <1>2, <1>3 DEF GadgetCommands

(* The values that needed commands write. *)
LEMMA NeededExpands ==
    ASSUME NEW config \in GadgetConfigs, Config = config, NEW c \in Needed(config), c.do = "write"
    PROVE  Expand(c.value) = Value(config, c)
  <1>1. \A f, v : Write(f, v).do = "write" /\ Write(f, v).name = f /\ Write(f, v).value = v
    BY DEF Write
  <1>2. CASE c = Write("functions", FunctionsWord(config))
    <2>1. Value(config, c) = FunctionsOf(config) /\ c.value = FunctionsWord(config)
      BY <1>1, <1>2 DEF Value
    <2>2. CASE FunctionsOf(config) = config /\ config # {"mtp", "adb"}
      <3>1. FunctionsWord(config) = sys_usb_config
        BY <2>2 DEF FunctionsWord
      <3> QED BY <2>1, <2>2, <3>1, Expanded DEF Config
    <2>3. CASE FunctionsOf(config) # config \/ config = {"mtp", "adb"}
      <3>1. FunctionsWord(config) = FunctionsOf(config)
        BY <2>3 DEF FunctionsWord
      <3>2. "mass_storage" \in FunctionsOf(config) \/ FunctionsOf(config) = {"mtp", "adb"}
        BY <2>3, FunctionsCases
      <3>3. FunctionsOf(config) # sys_usb_config /\ FunctionsOf(config) # {"$persist.sys.usb.config"}
        BY <3>2 DEF sys_usb_config
      <3> QED BY <2>1, <3>1, <3>3, Expanded
    <2> QED BY <2>2, <2>3
  <1>3. CASE c = Write("idProduct", {ProductOf(config)})
    <2>1. Value(config, c) = {ProductOf(config)} /\ c.value = {ProductOf(config)}
      BY <1>1, <1>3 DEF Value
    <2>2. ProductOf(config) # "$sys.usb.config" /\ ProductOf(config) # "$persist.sys.usb.config"
      BY ProductChosen, ProductWords
    <2> QED BY <2>1, <2>2, Expanded DEF sys_usb_config
  <1>4. ASSUME NEW f \in {"port_index", "bDeviceClass", "bicr", "lun/file"}, NEW v \in SUBSET Numbers,
               c = Write(f, v)
        PROVE  Expand(c.value) = Value(config, c)
    <2>1. Value(config, c) = v /\ c.value = v
      BY <1>1, <1>4 DEF Value
    <2> QED BY <2>1, Expanded
  <1>5. /\ {"3"} \in SUBSET Numbers /\ {"4"} \in SUBSET Numbers /\ ClassOf(config) \in SUBSET Numbers
        /\ {"1"} \in SUBSET Numbers /\ {"/dev/block/loop0"} \in SUBSET Numbers
    BY ClassTyped DEF Numbers
  <1>6. c # Service("start")
    BY Records
  <1> QED BY <1>2, <1>3, <1>4, <1>5, <1>6, NeededKinds

-----------------------------------------------------------------------------
(* The shape of the scripts *)

LEMMA InConcat ==
    ASSUME NEW S, NEW s \in Seq(S), NEW x \in Seq(S), NEW c
    PROVE  In(c, s \o x) <=> In(c, s) \/ In(c, x)
  <1>1. /\ Len(s) \in Nat /\ Len(x) \in Nat /\ Len(s \o x) = Len(s) + Len(x)
        /\ DOMAIN s = 1..Len(s) /\ DOMAIN x = 1..Len(x) /\ DOMAIN (s \o x) = 1..(Len(s) + Len(x))
        /\ \A i \in 1..(Len(s) + Len(x)) :
              (s \o x)[i] = IF i <= Len(s) THEN s[i] ELSE x[i - Len(s)]
    BY ConcatProperties, LenProperties
  <1>2. ASSUME In(c, s) PROVE In(c, s \o x)
    <2>1. PICK i \in 1..Len(s) : s[i] = c
      BY <1>1, <1>2 DEF In
    <2>2. i \in 1..(Len(s) + Len(x)) /\ (s \o x)[i] = c
      BY <1>1, <2>1
    <2> QED BY <1>1, <2>2 DEF In
  <1>3. ASSUME In(c, x) PROVE In(c, s \o x)
    <2>1. PICK i \in 1..Len(x) : x[i] = c
      BY <1>1, <1>3 DEF In
    <2>2. i + Len(s) \in 1..(Len(s) + Len(x)) /\ (s \o x)[i + Len(s)] = c
      BY <1>1, <2>1
    <2> QED BY <1>1, <2>2 DEF In
  <1>4. ASSUME In(c, s \o x), ~In(c, s) PROVE In(c, x)
    <2>1. PICK i \in 1..(Len(s) + Len(x)) : (s \o x)[i] = c
      BY <1>1, <1>4 DEF In
    <2>2. i > Len(s)
      BY <1>1, <1>4, <2>1 DEF In
    <2>3. i - Len(s) \in 1..Len(x) /\ x[i - Len(s)] = c
      BY <1>1, <2>1, <2>2
    <2> QED BY <1>1, <2>3 DEF In
  <1> QED BY <1>2, <1>3, <1>4

(* The commands of two scripts one after the other are those of both. *)
LEMMA ConcatIn ==
    ASSUME NEW S, NEW s \in Seq(S), NEW x \in Seq(S)
    PROVE  s \o x \in Seq(S) /\ \A c : In(c, s \o x) <=> In(c, s) \/ In(c, x)
BY InConcat, ConcatProperties

(* A command of a sequence over a set is in the set. *)
LEMMA InTyped ==
    ASSUME NEW S, NEW s \in Seq(S), NEW c, In(c, s)
    PROVE  c \in S
BY ElementOfSeq, LenProperties DEF In

(* The command of a script with one command. *)
LEMMA InSingle ==
    ASSUME NEW c, NEW d
    PROVE  In(c, <<d>>) <=> c = d
  <1>1. DOMAIN <<d>> = {1} /\ <<d>>[1] = d
    OBVIOUS
  <1> QED BY <1>1 DEF In

(* A conditional command is there when its condition holds. *)
LEMMA InOnly ==
    ASSUME NEW condition, NEW d, condition
    PROVE  In(d, Only(condition, d))
BY InSingle DEF Only

(* A script that ends by enabling USB enables it after every disabling. *)
LEMMA FollowsLast ==
    ASSUME NEW S, NEW s \in Seq(S), Enable \in S
    PROVE  EnableFollows(s \o <<Enable>>)
  <1>1. <<Enable>> \in Seq(S) /\ Len(<<Enable>>) = 1 /\ <<Enable>>[1] = Enable
    OBVIOUS
  <1>2. /\ Len(s) \in Nat /\ Len(s \o <<Enable>>) = Len(s) + 1
        /\ DOMAIN (s \o <<Enable>>) = 1..(Len(s) + 1)
        /\ (s \o <<Enable>>)[Len(s) + 1] = Enable
    BY <1>1, ConcatProperties, LenProperties
  <1>3. Disable # Enable
    BY Records
  <1> QED BY <1>2, <1>3 DEF EnableFollows

(* It still does when more commands follow that do not disable USB. *)
LEMMA FollowsConcat ==
    ASSUME NEW S, NEW s \in Seq(S), NEW x \in Seq(S), EnableFollows(s), ~In(Disable, x)
    PROVE  EnableFollows(s \o x)
  <1>1. /\ Len(s) \in Nat /\ Len(x) \in Nat /\ Len(s \o x) = Len(s) + Len(x)
        /\ DOMAIN s = 1..Len(s) /\ DOMAIN x = 1..Len(x) /\ DOMAIN (s \o x) = 1..(Len(s) + Len(x))
        /\ \A i \in 1..(Len(s) + Len(x)) :
              (s \o x)[i] = IF i <= Len(s) THEN s[i] ELSE x[i - Len(s)]
    BY ConcatProperties, LenProperties
  <1> SUFFICES ASSUME NEW i \in 1..(Len(s) + Len(x)), (s \o x)[i] = Disable
               PROVE  \E j \in 1..(Len(s) + Len(x)) : j > i /\ (s \o x)[j] = Enable
    BY <1>1 DEF EnableFollows
  <1>2. CASE i <= Len(s)
    <2>1. PICK j \in 1..Len(s) : j > i /\ s[j] = Enable
      BY <1>1, <1>2 DEF EnableFollows
    <2> QED BY <1>1, <2>1
  <1>3. CASE i > Len(s)
    <2>1. i - Len(s) \in 1..Len(x) /\ x[i - Len(s)] = Disable
      BY <1>1, <1>3
    <2> QED BY <1>1, <2>1 DEF In
  <1>4. i <= Len(s) \/ i > Len(s)
    <2>1. i \in Int /\ Len(s) \in Int
      BY <1>1
    <2> QED BY <2>1
  <1> QED BY <1>2, <1>3, <1>4

(* A script whose last command is its only announcement does nothing after *)
(* it.                                                                     *)
LEMMA QuietLast ==
    ASSUME NEW S, NEW s \in Seq(S), ~In(Report, s), Report \in S
    PROVE  QuietAfterReport(s \o <<Report>>)
  <1>1. <<Report>> \in Seq(S) /\ Len(<<Report>>) = 1
    OBVIOUS
  <1>2. /\ Len(s) \in Nat /\ DOMAIN s = 1..Len(s) /\ DOMAIN (s \o <<Report>>) = 1..(Len(s) + 1)
        /\ \A i \in 1..Len(s) : (s \o <<Report>>)[i] = s[i]
    BY <1>1, ConcatProperties, LenProperties
  <1>3. \A i \in 1..Len(s) : s[i] # Report
    BY <1>2 DEF In
  <1>4. \A i, j \in 1..(Len(s) + 1) : i < j => i \in 1..Len(s)
    BY <1>2
  <1> QED BY <1>2, <1>3, <1>4 DEF QuietAfterReport

(* A script that sets up a gadget. *)
LEMMA GadgetShape ==
    ASSUME NEW config \in GadgetConfigs
    PROVE  /\ GadgetScript(config) \in Seq(GadgetCommands(config))
           /\ \A c \in Needed(config) \cup {Enable} : In(c, GadgetScript(config))
           /\ EnableFollows(GadgetScript(config))
           /\ QuietAfterReport(GadgetScript(config))
  <1> DEFINE vendor == {IF config \cap {"accessory", "audio_source"} # {} THEN "18d1" ELSE "0BB4"}
             x1 == <<Write("idVendor", vendor), Write("idProduct", {ProductOf(config)})>>
             x2 == Only("acm" \in config, Write("instances", {"1"}))
             x3 == Only(config = {"acm_third"}, Write("port_index", {"3"}))
             x4 == Only(config = {"gs3"}, Write("port_index", {"4"}))
             x5 == <<Write("functions", FunctionsWord(config))>>
             x6 == Only(ClassOf(config) # {"0"}, Write("bDeviceClass", ClassOf(config)))
             x7 == Only("bicr" \in config, Write("bicr", {"1"}))
             x8 == Only("bicr" \in config, Write("lun/file", {"/dev/block/loop0"}))
             x9 == <<Write("enable", {"1"})>>
             x10 == Only(Starts(config), Service("start"))
             x0 == DisableGadget
             S == GadgetCommands(config) \ {Report}
             mid == x0 \o x1 \o x2 \o x3 \o x4
             down == mid \o x5 \o x6 \o x7 \o x8
             all == down \o x9 \o x10
  <1>1. GadgetScript(config) = all \o ReportState
    BY Zenon DEF GadgetScript
  <1>2. x0 = <<Disable>> /\ x9 = <<Enable>> /\ ReportState = <<Report>>
    BY DEF DisableGadget, Disable, Enable, ReportState, Report
  <1>3. \A c \in Needed(config) \cup {Disable, Enable} : c \in S
    <2>1. Disable # Report /\ Enable # Report
      BY Records
    <2> QED BY <2>1, NeededNames DEF GadgetCommands
  <1>4. /\ \A v \in SUBSET Numbers : Write("idVendor", v) \in S /\ Write("instances", v) \in S
        /\ vendor \in SUBSET Numbers /\ {"1"} \in SUBSET Numbers
    BY Records DEF GadgetCommands, Write, Numbers
  <1>5. /\ Write("idProduct", {ProductOf(config)}) \in Needed(config)
        /\ Write("functions", FunctionsWord(config)) \in Needed(config)
        /\ config = {"acm_third"} => Write("port_index", {"3"}) \in Needed(config)
        /\ config = {"gs3"} => Write("port_index", {"4"}) \in Needed(config)
        /\ ClassOf(config) # {"0"} => Write("bDeviceClass", ClassOf(config)) \in Needed(config)
        /\ "bicr" \in config => /\ Write("bicr", {"1"}) \in Needed(config)
                                /\ Write("lun/file", {"/dev/block/loop0"}) \in Needed(config)
        /\ Starts(config) => Service("start") \in Needed(config)
    BY DEF Needed
  <1>6. ASSUME NEW condition, NEW c, condition => c \in S PROVE Only(condition, c) \in Seq(S)
    <2> HIDE DEF S
    <2> QED BY <1>6 DEF Only
  <1>7. /\ x0 \in Seq(S) /\ x1 \in Seq(S) /\ x2 \in Seq(S) /\ x3 \in Seq(S) /\ x4 \in Seq(S)
        /\ x5 \in Seq(S) /\ x6 \in Seq(S) /\ x7 \in Seq(S) /\ x8 \in Seq(S)
        /\ x9 \in Seq(S) /\ x10 \in Seq(S)
    <2> HIDE DEF S
    <2>1. x0 \in Seq(S) /\ x9 \in Seq(S)
      BY <1>2, <1>3
    <2>2. x1 \in Seq(S)
      BY <1>3, <1>4, <1>5
    <2>3. x5 \in Seq(S)
      BY <1>3, <1>5
    <2>4. x2 \in Seq(S) /\ x3 \in Seq(S) /\ x4 \in Seq(S)
      BY <1>3, <1>4, <1>5, <1>6
    <2>5. x6 \in Seq(S) /\ x7 \in Seq(S) /\ x8 \in Seq(S) /\ x10 \in Seq(S)
      BY <1>3, <1>5, <1>6
    <2> QED BY <2>1, <2>2, <2>3, <2>4, <2>5
  <1>8. ASSUME NEW c \in Needed(config)
        PROVE  \/ In(c, x1) \/ In(c, x3) \/ In(c, x4) \/ In(c, x5) \/ In(c, x6) \/ In(c, x7)
               \/ In(c, x8) \/ In(c, x10)
    <2>1. In(Write("idProduct", {ProductOf(config)}), x1)
      <3>1. ASSUME NEW y, NEW z PROVE In(z, <<y, z>>)
        BY DEF In
      <3> QED BY <3>1
    <2>2. In(Write("functions", FunctionsWord(config)), x5)
      BY InSingle
    <2>3. CASE c = Write("idProduct", {ProductOf(config)}) \/ c = Write("functions", FunctionsWord(config))
      BY <2>1, <2>2, <2>3
    <2>4. CASE c = Write("port_index", {"3"}) /\ config = {"acm_third"}
      BY <2>4, InOnly
    <2>5. CASE c = Write("port_index", {"4"}) /\ config = {"gs3"}
      BY <2>5, InOnly
    <2>6. CASE c = Write("bDeviceClass", ClassOf(config)) /\ ClassOf(config) # {"0"}
      BY <2>6, InOnly
    <2>7. CASE c = Write("bicr", {"1"}) /\ "bicr" \in config
      BY <2>7, InOnly
    <2>8. CASE c = Write("lun/file", {"/dev/block/loop0"}) /\ "bicr" \in config
      BY <2>8, InOnly
    <2>9. CASE c = Service("start") /\ Starts(config)
      BY <2>9, InOnly
    <2> QED BY <2>3, <2>4, <2>5, <2>6, <2>7, <2>8, <2>9, NeededKinds
  <1> HIDE DEF S, x0, x1, x2, x3, x4, x5, x6, x7, x8, x9, x10
  <1>9. mid \in Seq(S) /\ \A c : In(c, mid) <=> In(c, x0) \/ In(c, x1) \/ In(c, x2) \/ In(c, x3) \/ In(c, x4)
    <2> DEFINE y1 == x0 \o x1
               y2 == y1 \o x2
               y3 == y2 \o x3
    <2>1. y1 \in Seq(S) /\ \A c : In(c, y1) <=> In(c, x0) \/ In(c, x1)
      BY <1>7, ConcatIn
    <2> HIDE DEF y1
    <2>2. y2 \in Seq(S) /\ \A c : In(c, y2) <=> In(c, y1) \/ In(c, x2)
      BY <1>7, <2>1, ConcatIn
    <2> HIDE DEF y2
    <2>3. y3 \in Seq(S) /\ \A c : In(c, y3) <=> In(c, y2) \/ In(c, x3)
      BY <1>7, <2>2, ConcatIn
    <2> HIDE DEF y3
    <2>4. y3 \o x4 \in Seq(S) /\ \A c : In(c, y3 \o x4) <=> In(c, y3) \/ In(c, x4)
      BY <1>7, <2>3, ConcatIn
    <2>5. mid = y3 \o x4
      BY Zenon DEF y1, y2, y3
    <2> HIDE DEF mid
    <2> QED BY <2>1, <2>2, <2>3, <2>4, <2>5
  <1> HIDE DEF mid
  <1>10. down \in Seq(S) /\ \A c : In(c, down) <=> In(c, mid) \/ In(c, x5) \/ In(c, x6) \/ In(c, x7) \/ In(c, x8)
    <2> DEFINE y1 == mid \o x5
               y2 == y1 \o x6
               y3 == y2 \o x7
    <2>1. y1 \in Seq(S) /\ \A c : In(c, y1) <=> In(c, mid) \/ In(c, x5)
      BY <1>7, <1>9, ConcatIn
    <2> HIDE DEF y1
    <2>2. y2 \in Seq(S) /\ \A c : In(c, y2) <=> In(c, y1) \/ In(c, x6)
      BY <1>7, <2>1, ConcatIn
    <2> HIDE DEF y2
    <2>3. y3 \in Seq(S) /\ \A c : In(c, y3) <=> In(c, y2) \/ In(c, x7)
      BY <1>7, <2>2, ConcatIn
    <2> HIDE DEF y3
    <2>4. y3 \o x8 \in Seq(S) /\ \A c : In(c, y3 \o x8) <=> In(c, y3) \/ In(c, x8)
      BY <1>7, <2>3, ConcatIn
    <2>5. down = y3 \o x8
      BY Zenon DEF y1, y2, y3
    <2> HIDE DEF down
    <2> QED BY <2>1, <2>2, <2>3, <2>4, <2>5
  <1> HIDE DEF down
  <1>11. /\ down \o x9 \in Seq(S) /\ all \in Seq(S)
         /\ \A c : In(c, all) <=> In(c, down) \/ In(c, x9) \/ In(c, x10)
    <2>1. down \o x9 \in Seq(S) /\ \A c : In(c, down \o x9) <=> In(c, down) \/ In(c, x9)
      BY <1>7, <1>10, ConcatProperties, InConcat
    <2>2. all \in Seq(S) /\ \A c : In(c, all) <=> In(c, down \o x9) \/ In(c, x10)
      BY <1>7, <2>1, ConcatProperties, InConcat, ZenonT(40)
    <2> QED BY <2>1, <2>2
  <1>12. EnableFollows(all)
    <2>1. EnableFollows(down \o x9)
      BY <1>2, <1>3, <1>10, FollowsLast
    <2>2. ~In(Disable, x10)
      BY InSingle, Records DEF x10, Only, In
    <2> QED BY <1>7, <1>11, <2>1, <2>2, FollowsConcat
  <1> HIDE DEF all
  <1>13. ~In(Report, all)
    BY <1>11, InTyped DEF S
  <1>14. all \in Seq(GadgetCommands(config)) /\ <<Report>> \in Seq(GadgetCommands(config))
    <2>1. Report \in GadgetCommands(config)
      BY DEF GadgetCommands
    <2> QED BY <1>11, <2>1, SubSeqs DEF S
  <1>15. all \o <<Report>> \in Seq(GadgetCommands(config))
    BY <1>14, ConcatProperties
  <1>16. \A c \in Needed(config) \cup {Enable} : In(c, all \o <<Report>>)
    <2>1. \A c \in Needed(config) : In(c, all)
      BY <1>8, <1>9, <1>10, <1>11
    <2>2. In(Enable, all)
      BY <1>2, <1>11, InSingle
    <2> QED BY <1>14, <2>1, <2>2, InConcat
  <1>17. EnableFollows(all \o <<Report>>)
    <2>1. ~In(Disable, <<Report>>)
      BY InSingle, Records
    <2> QED BY <1>12, <1>14, <2>1, FollowsConcat
  <1>18. QuietAfterReport(all \o <<Report>>)
    BY <1>13, <1>14, QuietLast DEF GadgetCommands
  <1> QED BY <1>1, <1>2, <1>15, <1>16, <1>17, <1>18

(* The script for none stops adbd, disables USB and resets the class *)
(* before it announces.                                              *)
LEMMA NoneShape ==
    /\ NoneScript \in Seq(NoneCommands)
    /\ \A c \in {Service("stop"), Disable, NoneClass} : In(c, NoneScript)
    /\ QuietAfterReport(NoneScript)
  <1> DEFINE x1 == <<Service("stop")>>
             x2 == <<Disable>>
             x3 == <<NoneClass>>
             S == NoneCommands
             y1 == x1 \o x2
             y2 == y1 \o x3
  <1>1. NoneScript = y2 \o <<Report>>
    BY Zenon DEF NoneScript, DisableGadget, Disable, NoneClass, ReportState, Report
  <1>2. x1 \in Seq(S) /\ x2 \in Seq(S) /\ x3 \in Seq(S) /\ <<Report>> \in Seq(S)
    BY DEF NoneCommands
  <1>3. \A c : /\ In(c, x1) <=> c = Service("stop")
               /\ In(c, x2) <=> c = Disable
               /\ In(c, x3) <=> c = NoneClass
    BY InSingle
  <1> HIDE DEF x1, x2, x3, S
  <1>4. y1 \in Seq(S) /\ \A c : In(c, y1) <=> In(c, x1) \/ In(c, x2)
    BY <1>2, ConcatIn
  <1> HIDE DEF y1
  <1>5. y2 \in Seq(S) /\ \A c : In(c, y2) <=> In(c, y1) \/ In(c, x3)
    BY <1>2, <1>4, ConcatIn
  <1> HIDE DEF y2
  <1>6. y2 \o <<Report>> \in Seq(S) /\ \A c : In(c, y2) => In(c, y2 \o <<Report>>)
    BY <1>2, <1>5, ConcatIn
  <1>7. ~In(Report, y2)
    BY <1>3, <1>4, <1>5, Records
  <1>8. QuietAfterReport(y2 \o <<Report>>)
    BY <1>5, <1>7, QuietLast DEF S, NoneCommands
  <1> QED BY <1>1, <1>3, <1>4, <1>5, <1>6, <1>8 DEF S

(* The script for charging announces and sets the charging mode. *)
LEMMA ChargingShape ==
    ChargingScript \in Seq({Report, Charging}) /\ QuietAfterReport(ChargingScript)
  <1> DEFINE S == {Report, Charging}
             x1 == <<Report>>
             x2 == <<Charging>>
  <1>1. ChargingScript = x1 \o x2
    BY Zenon DEF ChargingScript, ReportState, Report, Charging
  <1>2. /\ x1 \in Seq(S) /\ x2 \in Seq(S) /\ Len(x1) = 1 /\ Len(x2) = 1 /\ x2[1] = Charging
    OBVIOUS
  <1> HIDE DEF S, x1, x2
  <1>3. x1 \o x2 \in Seq(S) /\ Len(x1 \o x2) = 2
    <2>1. x1 \o x2 \in Seq(S) /\ Len(x1 \o x2) = Len(x1) + Len(x2)
      BY <1>2, ConcatProperties
    <2> QED BY <1>2, <2>1
  <1>4. DOMAIN (x1 \o x2) = 1..2 /\ (x1 \o x2)[2] = Charging
    <2>1. DOMAIN (x1 \o x2) = 1..2
      BY <1>3, LenProperties
    <2>2. (x1 \o x2)[2] = x2[1]
      BY <1>2, <1>3, ConcatProperties
    <2> QED BY <1>2, <2>1, <2>2
  <1>5. Charging \in Harmless
    BY DEF Harmless
  <1>6. \A i, j \in 1..2 : i < j => j = 2
    OBVIOUS
  <1>7. QuietAfterReport(x1 \o x2)
    BY <1>4, <1>5, <1>6 DEF QuietAfterReport
  <1> QED BY <1>1, <1>3, <1>7 DEF S

(* The scripts for the charging and the port mode are harmless. *)
LEMMA HarmlessScripts ==
    ASSUME NEW words
    PROVE  ChargeModeScript(words) \in Seq(Harmless) /\ PortModeScript(words) \in Seq(Harmless)
  <1>1. \A f \in {"cmode", "portmode"}, v \in SUBSET Numbers : Write(f, v) \in Harmless
    BY DEF Harmless, Write
  <1>2. /\ {IF words = {"yes"} THEN "2" ELSE "1"} \in SUBSET Numbers
        /\ {IF words = {"usb"} THEN "0" ELSE "1"} \in SUBSET Numbers
    BY DEF Numbers
  <1>3. /\ Write("cmode", {IF words = {"yes"} THEN "2" ELSE "1"}) \in Harmless
        /\ Write("portmode", {IF words = {"usb"} THEN "0" ELSE "1"}) \in Harmless
    BY <1>1, <1>2
  <1> QED BY <1>3 DEF ChargeModeScript, PortModeScript

(* A sequence is over every set that has all its elements. *)
LEMMA Retyped ==
    ASSUME NEW S, NEW T, NEW s \in Seq(S), \A i \in 1..Len(s) : s[i] \in T
    PROVE  s \in Seq(T)
BY LenProperties

(* A command that is done. *)
LEMMA TailIn ==
    ASSUME NEW S, cur \in Seq(S), cur # <<>>, cur' = Tail(cur)
    PROVE  /\ Head(cur) \in S /\ cur' \in Seq(S) /\ In(Head(cur), cur)
           /\ \A c : In(c, cur') => In(c, cur)
           /\ \A c : In(c, cur) /\ c # Head(cur) => In(c, cur')
           /\ EnableFollows(cur) => EnableFollows(cur')
           /\ EnableFollows(cur) /\ Head(cur) = Disable => In(Enable, cur')
           /\ QuietAfterReport(cur) => QuietAfterReport(cur')
           /\ QuietAfterReport(cur) /\ Head(cur) = Report => cur' \in Seq(Harmless)
  <1>1. /\ Tail(cur) \in Seq(S) /\ Len(cur) \in Nat \ {0}
        /\ DOMAIN cur = 1..Len(cur) /\ Len(Tail(cur)) = Len(cur) - 1
        /\ DOMAIN Tail(cur) = 1..(Len(cur) - 1)
        /\ Head(cur) = cur[1] /\ cur[1] \in S
        /\ \A i \in 1..(Len(cur) - 1) : cur'[i] = cur[i + 1]
    BY HeadTailProperties, LenProperties, ElementOfSeq, EmptySeq
  <1>2. In(Head(cur), cur)
    BY <1>1 DEF In
  <1>3. ASSUME NEW c, In(c, cur') PROVE In(c, cur)
    <2>1. PICK i \in 1..(Len(cur) - 1) : cur'[i] = c
      BY <1>1, <1>3 DEF In
    <2>2. i + 1 \in 1..Len(cur) /\ cur[i + 1] = c
      BY <1>1, <2>1
    <2> QED BY <1>1, <2>2 DEF In
  <1>4. ASSUME NEW c, In(c, cur), c # Head(cur) PROVE In(c, cur')
    <2>1. PICK i \in 1..Len(cur) : cur[i] = c
      BY <1>1, <1>4 DEF In
    <2>2. i - 1 \in 1..(Len(cur) - 1) /\ cur'[i - 1] = c
      BY <1>1, <1>4, <2>1
    <2> QED BY <1>1, <2>2 DEF In
  <1>5. ASSUME EnableFollows(cur) PROVE EnableFollows(cur')
    <2> SUFFICES ASSUME NEW i \in 1..(Len(cur) - 1), cur'[i] = Disable
                 PROVE  \E j \in 1..(Len(cur) - 1) : j > i /\ cur'[j] = Enable
      BY <1>1 DEF EnableFollows
    <2>1. i + 1 \in 1..Len(cur) /\ cur[i + 1] = Disable
      BY <1>1
    <2>2. PICK j \in 1..Len(cur) : j > i + 1 /\ cur[j] = Enable
      BY <1>1, <1>5, <2>1 DEF EnableFollows
    <2>3. j - 1 \in 1..(Len(cur) - 1) /\ j - 1 > i /\ cur'[j - 1] = Enable
      BY <1>1, <2>2
    <2> QED BY <2>3
  <1>6. ASSUME EnableFollows(cur), Head(cur) = Disable PROVE In(Enable, cur')
    <2>1. PICK j \in 1..Len(cur) : j > 1 /\ cur[j] = Enable
      BY <1>1, <1>6 DEF EnableFollows
    <2>2. j - 1 \in 1..(Len(cur) - 1) /\ cur'[j - 1] = Enable
      BY <1>1, <2>1
    <2> QED BY <1>1, <2>2 DEF In
  <1>7. ASSUME QuietAfterReport(cur) PROVE QuietAfterReport(cur')
    <2> SUFFICES ASSUME NEW i \in 1..(Len(cur) - 1), NEW j \in 1..(Len(cur) - 1), i < j, cur'[i] = Report
                 PROVE  cur'[j] \in Harmless
      BY <1>1 DEF QuietAfterReport
    <2>1. /\ i + 1 \in 1..Len(cur) /\ j + 1 \in 1..Len(cur) /\ i + 1 < j + 1
          /\ cur[i + 1] = Report /\ cur'[j] = cur[j + 1]
      BY <1>1
    <2> QED BY <1>1, <1>7, <2>1 DEF QuietAfterReport
  <1>8. ASSUME QuietAfterReport(cur), Head(cur) = Report PROVE cur' \in Seq(Harmless)
    <2>1. \A i \in 1..(Len(cur) - 1) : cur'[i] \in Harmless
      <3> SUFFICES ASSUME NEW i \in 1..(Len(cur) - 1) PROVE cur[i + 1] \in Harmless
        BY <1>1
      <3>1. 1 \in 1..Len(cur) /\ i + 1 \in 1..Len(cur) /\ 1 < i + 1
        BY <1>1
      <3> QED BY <1>1, <1>8, <3>1 DEF QuietAfterReport
    <2>2. cur' \in Seq(S) /\ Len(cur') = Len(cur) - 1
      BY <1>1
    <2> QED BY <2>1, <2>2, Retyped
  <1> QED BY <1>1, <1>2, <1>3, <1>4, <1>5, <1>6, <1>7, <1>8

-----------------------------------------------------------------------------
(* What is on its way *)

LEMMA HarmlessCur ==
    ASSUME cur \in Seq(Harmless)
    PROVE  /\ ~Announces(cur) /\ cur # <<Persist>>
           /\ \A c \in {Enable, Disable, NoneClass, Report, Service("start"), Service("stop")} :
                 ~Pending(c)
           /\ \A config : \A c \in Needed(config) : ~Pending(c)
           /\ EnableFollows(cur)
  <1>1. \A c : Pending(c) => c \in Harmless
    BY InTyped DEF Pending
  <1>2. \A c \in {Enable, Disable, NoneClass, Report, Service("start"), Service("stop")} : ~Pending(c)
    BY <1>1, HarmlessKinds
  <1>3. ASSUME NEW config, NEW c \in Needed(config) PROVE c \notin Harmless
    BY NeededNames, HarmlessKinds
  <1>4. ~Announces(cur)
    BY <1>2 DEF Announces, Pending, In
  <1>5. cur # <<Persist>>
    <2>1. cur = <<Persist>> => Pending(Persist)
      BY InSingle DEF Pending
    <2> QED BY <1>1, <2>1, HarmlessKinds
  <1>6. EnableFollows(cur)
    BY <1>2 DEF EnableFollows, Pending, In
  <1> QED BY <1>1, <1>2, <1>3, <1>4, <1>5, <1>6

(* When no script runs nothing harmful is left to run. *)
LEMMA EmptyCur ==
    ASSUME cur = <<>>
    PROVE  cur \in Seq(Harmless)
BY EmptySeq

(* The script of persist.sys.usb.config has one command and announces *)
(* nothing.                                                           *)
LEMMA PersistCur ==
    ASSUME cur = <<Persist>>
    PROVE  /\ ~Announces(cur) /\ cur \notin Seq(Harmless)
           /\ \A c : Pending(c) => c = Persist
           /\ Persist \notin {Enable, Disable, NoneClass, Report, Service("start"), Service("stop")}
  <1>1. \A c : Pending(c) <=> c = Persist
    BY InSingle DEF Pending
  <1>2. Persist \notin {Enable, Disable, NoneClass, Report, Service("start"), Service("stop")}
    BY Records
  <1>3. ~Announces(cur)
    BY <1>1, <1>2 DEF Announces, Pending, In
  <1>4. cur \notin Seq(Harmless)
    BY <1>1, InTyped, HarmlessKinds DEF Pending
  <1> QED BY <1>1, <1>2, <1>3, <1>4

(* When no setting is on its way only harmless commands are left. *)
LEMMA NotFlying ==
    ASSUME SwitchInv, ~InFlight
    PROVE  cur \in Seq(Harmless) /\ ~MainWaits
BY DEF SwitchInv, CurKind, InFlight, PersistComes, MainWaits

(* Taking the next script from the queue: it is the one of the current *)
(* setting, and no second one stays behind.                            *)
LEMMA QueueTail ==
    ASSUME queue \in Seq(Triggers), queue # <<>>, queue' = Tail(queue), QueueOK, UNCHANGED props
    PROVE  /\ Head(queue) \in Triggers
           /\ QueueOK'
           /\ Head(queue)[1] # "sys.usb.bicr"
           /\ Head(queue)[1] = "sys.usb.config" => Head(queue)[2] = Config
           /\ \A p : Waits(p)' => Waits(p)
           /\ \A p : Waits(p) => Waits(p)' \/ Head(queue)[1] = p
           /\ Waits(Head(queue)[1])
           /\ Main(Head(queue)) => ~MainWaits'
  <1>1. /\ Head(queue) \in Triggers /\ queue' \in Seq(Triggers)
        /\ Len(queue) \in Nat \ {0} /\ DOMAIN queue = 1..Len(queue)
        /\ DOMAIN queue' = 1..(Len(queue) - 1) /\ Head(queue) = queue[1]
        /\ \A i \in 1..(Len(queue) - 1) : queue'[i] = queue[i + 1]
    BY HeadTailProperties, LenProperties, ElementOfSeq, EmptySeq
  <1>2. \A i \in 1..(Len(queue) - 1) : i + 1 \in 1..Len(queue) /\ i + 1 # 1
    BY <1>1
  <1>3. 1 \in DOMAIN queue
    BY <1>1
  <1>4. Config' = Config
    BY DEF Config
  <1>5. QueueOK'
    <2>1. ASSUME NEW i \in 1..(Len(queue) - 1), NEW j \in 1..(Len(queue) - 1),
                 Main(queue'[i]), Main(queue'[j])
          PROVE  i = j
      <3>1. i + 1 = j + 1
        BY <1>1, <1>2, <2>1 DEF QueueOK
      <3> QED BY <3>1
    <2>2. \A i \in 1..(Len(queue) - 1) : queue'[i][1] = "sys.usb.config" => queue'[i][2] = Config
      BY <1>1, <1>2 DEF QueueOK
    <2>3. \A i \in 1..(Len(queue) - 1) : queue'[i][1] # "sys.usb.bicr"
      BY <1>1, <1>2 DEF QueueOK
    <2>4. \A i, j \in 1..(Len(queue) - 1) : Main(queue'[i]) /\ Main(queue'[j]) => i = j
      BY <2>1
    <2> QED BY <1>1, <1>4, <2>2, <2>3, <2>4 DEF QueueOK, Main
  <1>6. /\ Head(queue)[1] # "sys.usb.bicr"
        /\ Head(queue)[1] = "sys.usb.config" => Head(queue)[2] = Config
    BY <1>1, <1>3 DEF QueueOK
  <1>7. ASSUME NEW p, Waits(p)' PROVE Waits(p)
    BY <1>1, <1>2, <1>7 DEF Waits
  <1>8. ASSUME NEW p, Waits(p), Head(queue)[1] # p PROVE Waits(p)'
    <2>1. PICK i \in 1..Len(queue) : queue[i][1] = p
      BY <1>1, <1>8 DEF Waits
    <2>2. i - 1 \in 1..(Len(queue) - 1) /\ queue'[i - 1] = queue[i]
      BY <1>1, <1>8, <2>1
    <2> QED BY <1>1, <2>1, <2>2 DEF Waits
  <1>9. ASSUME Main(Head(queue)), NEW p \in {"sys.usb.config", "persist.sys.usb.config"}, Waits(p)'
        PROVE  FALSE
    <2>1. PICK i \in 1..(Len(queue) - 1) : queue'[i][1] = p
      BY <1>1, <1>9 DEF Waits
    <2>2. Main(queue[i + 1]) /\ Main(queue[1])
      BY <1>1, <1>9, <2>1 DEF Main
    <2> QED BY <1>1, <1>2, <1>3, <2>2 DEF QueueOK
  <1>10. Waits(Head(queue)[1])
    BY <1>1, <1>3 DEF Waits
  <1> QED BY <1>1, <1>5, <1>6, <1>7, <1>8, <1>9, <1>10 DEF MainWaits

(* Setting a property appends at most its own script. *)
LEMMA QueueAppend ==
    ASSUME queue \in Seq(Triggers), NEW p, NEW words, property_set(p, words),
           HasScript(p, words) => TriggerOf(p, words) \in Triggers
    PROVE  \/ queue' = queue /\ (HasScript(p, words) => Waits(p))
           \/ /\ HasScript(p, words)
              /\ Len(queue) \in Nat /\ DOMAIN queue = 1..Len(queue) /\ DOMAIN queue' = 1..(Len(queue) + 1)
              /\ \A i \in 1..Len(queue) : queue'[i] = queue[i]
              /\ queue'[Len(queue) + 1] = TriggerOf(p, words)
  <1> DEFINE t == TriggerOf(p, words)
  <1>1. t[1] = p
    BY DEF TriggerOf
  <1>2. queue' = IF HasScript(p, words) /\ t \notin {queue[i] : i \in DOMAIN queue}
                 THEN Append(queue, t) ELSE queue
    BY DEF property_set
  <1> HIDE DEF t
  <1>3. CASE HasScript(p, words) /\ t \notin {queue[i] : i \in DOMAIN queue}
    <2>1. queue' = Append(queue, t) /\ t \in Triggers
      BY <1>2, <1>3 DEF t
    <2>2. /\ Len(queue) \in Nat
          /\ DOMAIN queue = 1..Len(queue) /\ DOMAIN queue' = 1..(Len(queue) + 1)
          /\ queue'[Len(queue) + 1] = t
          /\ \A i \in 1..Len(queue) : queue'[i] = queue[i]
      BY <2>1, AppendProperties, LenProperties
    <2> QED BY <1>3, <2>2 DEF t
  <1>4. CASE ~HasScript(p, words)
    BY <1>2, <1>4
  <1>5. CASE t \in {queue[i] : i \in DOMAIN queue}
    BY <1>1, <1>2, <1>5 DEF Waits
  <1> QED BY <1>3, <1>4, <1>5

(* A setting besides the configuration is queued beside it. *)
LEMMA QueueOther ==
    ASSUME queue \in Seq(Triggers), QueueOK, NEW words,
           NEW p \in {"sys.usb.state", "sys.usb.charging", "mediatek.usb.port.mode"},
           property_set(p, words), HasScript(p, words) => TriggerOf(p, words) \in Triggers,
           Config' = Config
    PROVE  /\ QueueOK'
           /\ \A q \in {"sys.usb.config", "persist.sys.usb.config"} : Waits(q)' <=> Waits(q)
  <1> DEFINE t == TriggerOf(p, words)
  <1>1. t[1] = p
    BY DEF TriggerOf
  <1> HIDE DEF t
  <1>2. CASE queue' = queue
    BY <1>2 DEF QueueOK, Waits, Main
  <1>3. CASE /\ Len(queue) \in Nat /\ DOMAIN queue = 1..Len(queue) /\ DOMAIN queue' = 1..(Len(queue) + 1)
             /\ \A i \in 1..Len(queue) : queue'[i] = queue[i]
             /\ queue'[Len(queue) + 1] = t
    <2>1. \A i \in 1..(Len(queue) + 1) : i \in 1..Len(queue) \/ i = Len(queue) + 1
      BY <1>3
    <2>2. ~Main(t) /\ t[1] # "sys.usb.config" /\ t[1] # "sys.usb.bicr"
      BY <1>1 DEF Main
    <2>3. \A i \in 1..(Len(queue) + 1) :
              \/ i \in 1..Len(queue) /\ queue'[i] = queue[i]
              \/ ~Main(queue'[i]) /\ queue'[i][1] # "sys.usb.config" /\ queue'[i][1] # "sys.usb.bicr"
      BY <1>3, <2>1, <2>2
    <2>4. QueueOK'
      BY <1>3, <2>3 DEF QueueOK, Main
    <2>5. ASSUME NEW q \in {"sys.usb.config", "persist.sys.usb.config"}
          PROVE  Waits(q)' <=> Waits(q)
      <3>1. ASSUME Waits(q)' PROVE Waits(q)
        BY <1>3, <2>3, <3>1 DEF Waits, Main
      <3>2. ASSUME Waits(q) PROVE Waits(q)'
        <4>1. PICK i \in 1..Len(queue) : queue[i][1] = q
          BY <1>3, <3>2 DEF Waits
        <4>2. i \in 1..(Len(queue) + 1) /\ queue'[i][1] = q
          BY <1>3, <4>1
        <4> QED BY <1>3, <4>2 DEF Waits
      <3> QED BY <3>1, <3>2
    <2> QED BY <2>4, <2>5
  <1> QED BY <1>2, <1>3, QueueAppend DEF t

(* With no setting on its way, a new one is the only one. *)
LEMMA QueueMain ==
    ASSUME queue \in Seq(Triggers), QueueOK, ~MainWaits, NEW words,
           NEW p \in {"sys.usb.config", "persist.sys.usb.config"},
           property_set(p, words), HasScript(p, words), TriggerOf(p, words) \in Triggers,
           IF p = "sys.usb.config" THEN Config' = words ELSE Config' = Config
    PROVE  /\ QueueOK'
           /\ \A q \in {"sys.usb.config", "persist.sys.usb.config"} : Waits(q)' <=> q = p
  <1> DEFINE t == TriggerOf(p, words)
  <1>1. t[1] = p /\ (p = "sys.usb.config" => t[2] = words)
    BY DEF TriggerOf
  <1> HIDE DEF t
  <1>2. ~Waits("sys.usb.config") /\ ~Waits("persist.sys.usb.config")
    BY DEF MainWaits
  <1>3. /\ Len(queue) \in Nat /\ DOMAIN queue = 1..Len(queue) /\ DOMAIN queue' = 1..(Len(queue) + 1)
        /\ \A i \in 1..Len(queue) : queue'[i] = queue[i]
        /\ queue'[Len(queue) + 1] = t
    BY <1>2, QueueAppend DEF t
  <1>4. \A i \in 1..(Len(queue) + 1) : i \in 1..Len(queue) \/ i = Len(queue) + 1
    BY <1>3
  <1>5. \A i \in 1..Len(queue) : ~Main(queue'[i]) /\ queue'[i][1] # "sys.usb.bicr"
    BY <1>2, <1>3 DEF Waits, Main, QueueOK
  <1>6. Len(queue) + 1 \in 1..(Len(queue) + 1)
    BY <1>3
  <1>7. QueueOK'
    <2>1. \A i, j \in 1..(Len(queue) + 1) : Main(queue'[i]) /\ Main(queue'[j]) => i = j
      BY <1>4, <1>5
    <2>2. \A i \in 1..(Len(queue) + 1) : queue'[i][1] = "sys.usb.config" => queue'[i][2] = Config'
      BY <1>1, <1>3, <1>4, <1>5 DEF Main
    <2>3. \A i \in 1..(Len(queue) + 1) : queue'[i][1] # "sys.usb.bicr"
      BY <1>1, <1>3, <1>4, <1>5
    <2> QED BY <1>3, <2>1, <2>2, <2>3 DEF QueueOK, Main
  <1>8. ASSUME NEW q \in {"sys.usb.config", "persist.sys.usb.config"}
        PROVE  Waits(q)' <=> q = p
    <2>1. ASSUME q = p PROVE Waits(q)'
      BY <1>1, <1>3, <1>6, <2>1 DEF Waits
    <2>2. ASSUME Waits(q)' PROVE q = p
      BY <1>1, <1>3, <1>4, <1>5, <2>2 DEF Waits, Main
    <2> QED BY <2>1, <2>2
  <1> QED BY <1>7, <1>8

(* What the framework can tell depends on the two properties and on what *)
(* is on its way.                                                        *)
LEMMA PhaseSame ==
    ASSUME PhaseKnows, Config' = Config, State' = State, client' = client,
           props'["persist.sys.usb.config"] = props["persist.sys.usb.config"],
           PersistComes' <=> PersistComes, InFlight' <=> InFlight
    PROVE  PhaseKnows'
BY DEF PhaseKnows

Progress == StartsClean /\ GadgetProgress /\ ChargingProgress /\ NoneProgress /\ OneGadget

(* Nothing that matters was pending, and nothing that matters changes. *)
LEMMA ProgressKept ==
    ASSUME Progress, cur \in Seq(Harmless), \A f \in Files \ {"cmode", "portmode"} : file'[f] = file[f],
           adbd' = adbd, AdbdOff => AdbdOff',
           Config' = Config, Waits("sys.usb.config")' <=> Waits("sys.usb.config"), EnableFollows(cur')
    PROVE  Progress'
  <1>1. /\ file'["enable"] = file["enable"] /\ file'["bDeviceClass"] = file["bDeviceClass"]
        /\ file'["idProduct"] = file["idProduct"] /\ file'["functions"] = file["functions"]
    BY DEF Files
  <1>2. StartsClean'
    BY <1>1 DEF Progress, StartsClean, Clean, Enabled
  <1>3. ChargingProgress' /\ NoneProgress' /\ OneGadget'
    BY <1>1, HarmlessCur DEF Progress, ChargingProgress, NoneProgress, OneGadget, Enabled
  <1>4. GadgetProgress'
    <2> SUFFICES ASSUME Config \in GadgetConfigs, ~Waits("sys.usb.config")
                 PROVE  /\ \A c \in Needed(Config) : Pending(c)' \/ Done(Config, c)'
                        /\ Pending(Enable)' \/ Enabled'
                        /\ ClassOf(Config) = {"0"} => file'["bDeviceClass"] = {"0"}
                        /\ ~Starts(Config) => AdbdOff'
      BY DEF GadgetProgress
    <2>1. \A c \in Needed(Config) : Done(Config, c)
      BY HarmlessCur DEF Progress, GadgetProgress
    <2>2. Enabled
      BY HarmlessCur DEF Progress, GadgetProgress
    <2>3. \A c \in Needed(Config) : Done(Config, c)'
      <3> SUFFICES ASSUME NEW c \in Needed(Config) PROVE Done(Config, c)'
        OBVIOUS
      <3>1. c.do = "write" => c.name \in Files \ {"cmode", "portmode"}
        BY NeededNames DEF Files
      <3> QED BY <2>1, <3>1 DEF Done, Value
    <2> QED BY <1>1, <2>2, <2>3 DEF Progress, GadgetProgress, Enabled
  <1> QED BY <1>2, <1>3, <1>4 DEF Progress

(* The script of persist.sys.usb.config neither announces nor disables. *)
LEMMA PersistSeq ==
    ASSUME NEW s, s = <<Persist>>
    PROVE  ~Announces(s) /\ EnableFollows(s)
  <1>1. DOMAIN s = {1} /\ s[1] = Persist
    OBVIOUS
  <1> QED BY <1>1, Records DEF Announces, EnableFollows

(* Harmless commands neither announce nor disable. *)
LEMMA HarmlessSeq ==
    ASSUME NEW s \in Seq(Harmless)
    PROVE  ~Announces(s) /\ EnableFollows(s) /\ s # <<Persist>>
  <1>1. \A i \in DOMAIN s : s[i] # Report /\ s[i] # Disable /\ s[i] # Persist
    BY LenProperties, ElementOfSeq, HarmlessKinds
  <1>2. s # <<Persist>>
    <2>1. s = <<Persist>> => 1 \in DOMAIN s /\ s[1] = Persist
      OBVIOUS
    <2> QED BY <1>1, <2>1
  <1> QED BY <1>1, <1>2 DEF Announces, EnableFollows

-----------------------------------------------------------------------------
(* Init takes the next script *)

LEMMA NextScriptSwitch ==
    ASSUME UsbInv, SwitchInv, NextScript
    PROVE  SwitchInv'
  <1> DEFINE t == Head(queue)
  <1>1. /\ cur = <<>> /\ queue # <<>> /\ cur' = Script(t) /\ queue' = Tail(queue)
        /\ UNCHANGED <<props, file, adbd, client>>
    BY DEF NextScript
  <1>2. /\ t \in Triggers /\ QueueOK' /\ t[1] # "sys.usb.bicr"
        /\ t[1] = "sys.usb.config" => t[2] = Config
        /\ \A p : Waits(p)' => Waits(p)
        /\ \A p : Waits(p) => Waits(p)' \/ t[1] = p
        /\ Waits(t[1])
        /\ Main(t) => ~MainWaits'
    BY <1>1, QueueTail DEF UsbInv, SwitchInv, OneSetting
  <1>3. /\ Config' = Config /\ State' = State
        /\ props'["persist.sys.usb.config"] = props["persist.sys.usb.config"]
        /\ AdbdOff' = AdbdOff
    BY <1>1 DEF Config, State, AdbdOff
  <1>4. cur \in Seq(Harmless) /\ ~Announces(cur) /\ cur # <<Persist>>
    BY <1>1, EmptyCur, HarmlessCur
  <1>5. Progress /\ PhaseKnows
    BY DEF SwitchInv, Progress
  <1> HIDE DEF t
  <1>6. CASE t[1] = "persist.sys.usb.config"
    <2>1. cur' = <<Persist>>
      BY <1>1, <1>6, ScriptOf DEF PersistScript, Persist
    <2>2. ~MainWaits' /\ ~Waits("sys.usb.config") /\ Waits("persist.sys.usb.config")
      BY <1>2, <1>6 DEF Main, MainWaits
    <2>3. PersistComes /\ PersistComes' /\ InFlight /\ InFlight'
      BY <2>1, <2>2 DEF PersistComes, InFlight
    <2>4. PhaseKnows'
      BY <1>1, <1>3, <1>5, <2>3, PhaseSame
    <2>5. Progress'
      <3>1. EnableFollows(cur')
        BY <2>1, PersistSeq
      <3>2. ~Waits("sys.usb.config")'
        BY <2>2 DEF MainWaits
      <3> QED BY <1>1, <1>3, <1>4, <1>5, <2>2, <3>1, <3>2, ProgressKept
    <2> QED BY <1>2, <2>1, <2>2, <2>4, <2>5 DEF SwitchInv, Progress, OneSetting, CurKind
  <1>7. CASE t[1] \in {"sys.usb.charging", "mediatek.usb.port.mode"}
    <2>1. cur' \in Seq(Harmless)
      BY <1>1, <1>7, ScriptOf, HarmlessScripts
    <2>2. ~Announces(cur') /\ EnableFollows(cur') /\ cur' # <<Persist>>
      BY <2>1, HarmlessSeq
    <2>3. /\ Waits("sys.usb.config")' <=> Waits("sys.usb.config")
          /\ Waits("persist.sys.usb.config")' <=> Waits("persist.sys.usb.config")
      BY <1>2, <1>7
    <2>4. (PersistComes' <=> PersistComes) /\ (InFlight' <=> InFlight)
      BY <1>4, <2>2, <2>3 DEF PersistComes, InFlight
    <2>5. PhaseKnows'
      BY <1>1, <1>3, <1>5, <2>4, PhaseSame
    <2>6. Progress'
      BY <1>1, <1>3, <1>4, <1>5, <2>2, <2>3, ProgressKept
    <2> QED BY <1>2, <2>1, <2>5, <2>6 DEF SwitchInv, Progress, OneSetting, CurKind
  <1>8. CASE t[1] = "sys.usb.config"
    <2>1. t[2] = Config /\ Config \in AllConfigs \cup {{"none"}}
      BY <1>2, <1>8 DEF Triggers
    <2>2. cur' = ConfigScript(Config) /\ Announces(cur')
      BY <1>1, <1>2, <1>8, <2>1, ScriptOf, ScriptsOrdered
    <2>3. ~MainWaits' /\ Waits("sys.usb.config") /\ ~Waits("persist.sys.usb.config")
      BY <1>2, <1>8 DEF Main, MainWaits
    <2>4. cur' # <<Persist>>
      BY <2>2, PersistSeq
    <2>5. (PersistComes' <=> PersistComes) /\ (InFlight' <=> InFlight)
      BY <1>4, <2>2, <2>3, <2>4 DEF PersistComes, InFlight, MainWaits
    <2>6. PhaseKnows'
      BY <1>1, <1>3, <1>5, <2>5, PhaseSame
    <2>7. ~Waits("sys.usb.config")' /\ Enabled' = Enabled /\ file' = file /\ adbd' = adbd
      BY <1>1, <2>3 DEF MainWaits, Enabled
    <2>8. Config # {"none"} => Clean
      BY <1>5, <2>3 DEF Progress, StartsClean
    <2>9. OneGadget'
      BY <1>1, <1>5 DEF Progress, OneGadget, Enabled
    <2>10. StartsClean'
      BY <1>3, <2>1, <2>7, Vocabulary DEF StartsClean
    <2>11. {"none"} \notin GadgetConfigs /\ {"charging"} \notin GadgetConfigs /\ {"none"} # {"charging"}
      BY Vocabulary
    <2>12. CASE Config = {"none"}
      <3>1. cur' = NoneScript
        BY <2>1, <2>2, <2>12, ConfigScriptOf
      <3>2. /\ cur' \in Seq(NoneCommands) /\ QuietAfterReport(cur')
            /\ Pending(Service("stop"))' /\ Pending(Disable)' /\ Pending(NoneClass)'
        BY <3>1, NoneShape DEF Pending
      <3>3. NoneProgress' /\ GadgetProgress' /\ ChargingProgress'
        BY <1>3, <2>11, <2>12, <3>2 DEF NoneProgress, GadgetProgress, ChargingProgress
      <3>4. CurKind'
        BY <1>3, <2>2, <2>12, <3>2 DEF CurKind, ConfigKind
      <3> QED BY <1>2, <2>3, <2>6, <2>9, <2>10, <3>3, <3>4 DEF SwitchInv, OneSetting
    <2>13. CASE Config = {"charging"}
      <3>1. cur' = ChargingScript
        BY <2>1, <2>2, <2>13, ConfigScriptOf
      <3>2. cur' \in Seq({Report, Charging}) /\ QuietAfterReport(cur')
        BY <3>1, ChargingShape
      <3>3. NoneProgress' /\ GadgetProgress' /\ ChargingProgress'
        BY <1>3, <2>7, <2>8, <2>11, <2>13 DEF NoneProgress, GadgetProgress, ChargingProgress, Clean
      <3>4. CurKind'
        BY <1>3, <2>2, <2>13, <3>2 DEF CurKind, ConfigKind
      <3> QED BY <1>2, <2>3, <2>6, <2>9, <2>10, <3>3, <3>4 DEF SwitchInv, OneSetting
    <2>14. CASE Config \in GadgetConfigs
      <3>1. cur' = GadgetScript(Config)
        BY <2>1, <2>2, <2>14, ConfigScriptOf
      <3>2. /\ cur' \in Seq(GadgetCommands(Config)) /\ QuietAfterReport(cur') /\ EnableFollows(cur')
            /\ \A c \in Needed(Config) \cup {Enable} : Pending(c)'
        BY <2>14, <3>1, GadgetShape DEF Pending
      <3>3. Clean
        BY <2>8, <2>11, <2>14
      <3>4. GadgetProgress'
        BY <1>3, <2>7, <3>2, <3>3 DEF GadgetProgress, Clean
      <3>5. NoneProgress' /\ ChargingProgress'
        BY <1>3, <2>11, <2>14 DEF NoneProgress, ChargingProgress
      <3>6. CurKind'
        BY <1>3, <2>2, <2>14, <3>2 DEF CurKind, ConfigKind
      <3> QED BY <1>2, <2>3, <2>6, <2>9, <2>10, <3>4, <3>5, <3>6 DEF SwitchInv, OneSetting
    <2> QED BY <2>1, <2>12, <2>13, <2>14, ConfigScriptOf
  <1> QED BY <1>2, <1>6, <1>7, <1>8 DEF Triggers

-----------------------------------------------------------------------------
(* Init runs a command *)

(* A command that sets nothing leaves what is on its way as it is. *)
LEMMA QuietTail ==
    ASSUME SwitchInv, cur # <<>>, cur' = Tail(cur), Head(cur) \notin {Report, Persist},
           Config' = Config, State' = State, client' = client,
           props'["persist.sys.usb.config"] = props["persist.sys.usb.config"],
           QueueOK', \A q \in {"sys.usb.config", "persist.sys.usb.config"} : Waits(q)' <=> Waits(q)
    PROVE  OneSetting' /\ CurKind' /\ PhaseKnows'
  <1>1. /\ Waits("sys.usb.config")' <=> Waits("sys.usb.config")
        /\ Waits("persist.sys.usb.config")' <=> Waits("persist.sys.usb.config")
    OBVIOUS
  <1>2. MainWaits' <=> MainWaits
    BY <1>1 DEF MainWaits
  <1>3. cur # <<Persist>>
    <2>1. cur = <<Persist>> => Head(cur) = Persist
      OBVIOUS
    <2> QED BY <2>1
  <1>4. CASE cur \in Seq(Harmless)
    <2>1. cur' \in Seq(Harmless)
      BY <1>4, TailIn
    <2>2. ~Announces(cur) /\ ~Announces(cur') /\ cur' # <<Persist>>
      BY <1>4, <2>1, HarmlessSeq
    <2>3. (PersistComes' <=> PersistComes) /\ (InFlight' <=> InFlight)
      BY <1>1, <1>3, <2>2 DEF PersistComes, InFlight
    <2>4. PhaseKnows'
      BY <1>1, <2>3, PhaseSame DEF SwitchInv
    <2> QED BY <1>2, <2>1, <2>4 DEF OneSetting, CurKind
  <1>5. CASE ConfigKind /\ Announces(cur) /\ QuietAfterReport(cur) /\ cur \notin Seq(Harmless)
    <2>1. PICK S : /\ cur \in Seq(S)
                   /\ \/ Config = {"none"} /\ S = NoneCommands
                      \/ Config = {"charging"} /\ S = {Report, Charging}
                      \/ Config \in GadgetConfigs /\ S = GadgetCommands(Config)
      BY <1>5 DEF ConfigKind
    <2>2. cur' \in Seq(S) /\ QuietAfterReport(cur') /\ (In(Report, cur) => In(Report, cur'))
      BY <1>5, <2>1, TailIn
    <2>3. ConfigKind'
      BY <1>1, <2>1, <2>2 DEF ConfigKind
    <2>4. Announces(cur')
      BY <1>5, <2>2 DEF Announces, In
    <2>5. cur' # <<Persist>>
      BY <2>4, PersistSeq
    <2>6. (PersistComes' <=> PersistComes) /\ (InFlight' <=> InFlight)
      BY <1>1, <1>3, <1>5, <2>4, <2>5 DEF PersistComes, InFlight
    <2>7. PhaseKnows'
      BY <1>1, <2>6, PhaseSame DEF SwitchInv
    <2>8. ~MainWaits'
      BY <1>2, <1>5 DEF SwitchInv, OneSetting
    <2> QED BY <1>2, <2>2, <2>3, <2>4, <2>7, <2>8 DEF OneSetting, CurKind
  <1> QED BY <1>3, <1>4, <1>5 DEF SwitchInv, CurKind

(* The queue stays in order while it and the setting do not change. *)
LEMMA QueueSame ==
    ASSUME QueueOK, queue' = queue, Config' = Config
    PROVE  QueueOK' /\ \A p : Waits(p)' <=> Waits(p)
BY DEF QueueOK, Main, Waits

(* A command that is neither harmless nor a setting belongs to the script  *)
(* of the configuration, and no other setting waits.                       *)
LEMMA RunsConfig ==
    ASSUME SwitchInv, cur # <<>>, cur \notin Seq(Harmless), Head(cur) # Persist
    PROVE  /\ ConfigKind /\ ~MainWaits /\ ~Waits("sys.usb.config") /\ Config # {}
           /\ Config = {"none"} => cur \in Seq(NoneCommands)
           /\ Config = {"charging"} => cur \in Seq({Report, Charging})
           /\ Config \in GadgetConfigs => cur \in Seq(GadgetCommands(Config))
  <1>1. cur # <<Persist>>
    <2>1. cur = <<Persist>> => Head(cur) = Persist
      OBVIOUS
    <2> QED BY <2>1
  <1>2. ConfigKind
    BY <1>1 DEF SwitchInv, CurKind
  <1>3. ~MainWaits /\ ~Waits("sys.usb.config")
    BY DEF SwitchInv, OneSetting, MainWaits
  <1>4. /\ {"none"} \notin GadgetConfigs /\ {"charging"} \notin GadgetConfigs /\ {"none"} # {"charging"}
        /\ {} \notin GadgetConfigs /\ {"none"} # {} /\ {"charging"} # {}
    BY Vocabulary
  <1> QED BY <1>2, <1>3, <1>4 DEF ConfigKind

(* Once USB is to be enabled, nothing that makes the gadget is pending. *)
LEMMA EnableHead ==
    ASSUME CurOrdered, cur # <<>>, Head(cur) = Enable, NEW c, Live(c)
    PROVE  ~Pending(c)
  <1>1. /\ cur \in Seq(Commands) /\ Len(cur) \in Nat \ {0}
        /\ DOMAIN cur = 1..Len(cur) /\ Head(cur) = cur[1]
    BY HeadTailProperties, LenProperties, ElementOfSeq, EmptySeq DEF CurOrdered
  <1>2. ~Live(Enable)
    BY Records DEF Live, LiveFiles
  <1> SUFFICES ASSUME NEW i \in 1..Len(cur), cur[i] = c PROVE FALSE
    BY <1>1 DEF Pending, In
  <1>3. i # 1
    BY <1>1, <1>2
  <1>4. 1 \in 1..(i - 1)
    BY <1>1, <1>3
  <1> QED BY <1>1, <1>4 DEF CurOrdered, EnablesLast

(* Writing a file keeps SwitchInv: the command that is no longer pending *)
(* has had its effect, and no later one undoes it.                       *)
LEMMA RunWriteSwitch ==
    ASSUME UsbInv, SwitchInv, RunWrite
    PROVE  SwitchInv'
  <1> DEFINE d == Head(cur)
  <1>1. /\ cur # <<>> /\ d.do = "write" /\ cur' = Tail(cur)
        /\ file' = [file EXCEPT ![d.name] = Expand(d.value)]
        /\ UNCHANGED <<props, adbd, queue, client>>
    BY DEF RunWrite
  <1>2. CurOrdered /\ d \in Commands /\ d.name \in Files
    BY <1>1, TailOrdered, RunKinds DEF UsbInv
  <1>3. /\ file'[d.name] = Expand(d.value)
        /\ \A f \in Files : f # d.name => file'[f] = file[f]
    BY <1>1, <1>2 DEF UsbInv, FileTypes
  <1>4. d # Report /\ d # Persist
    BY <1>1, Records
  <1>5. OneSetting' /\ CurKind' /\ PhaseKnows'
    <2>1. /\ Config' = Config /\ State' = State /\ QueueOK
          /\ props'["persist.sys.usb.config"] = props["persist.sys.usb.config"]
      BY <1>1 DEF Config, State, SwitchInv, OneSetting
    <2> QED BY <1>1, <1>4, <2>1, QueueSame, QuietTail
  <1>6. /\ Config' = Config /\ AdbdOff' = AdbdOff /\ Progress
        /\ Waits("sys.usb.config")' <=> Waits("sys.usb.config")
    BY <1>1 DEF Config, AdbdOff, Waits, SwitchInv, Progress
  <1> SUFFICES Progress'
    BY <1>5 DEF SwitchInv, Progress
  <1>7. CASE cur \in Seq(Harmless)
    <2>1. d \in Harmless /\ cur' \in Seq(Harmless)
      BY <1>1, <1>7, TailIn
    <2>2. d.name \in {"cmode", "portmode"}
      BY <1>1, <2>1, HarmlessKinds
    <2>3. \A f \in Files \ {"cmode", "portmode"} : file'[f] = file[f]
      BY <1>3, <2>2
    <2>4. EnableFollows(cur')
      BY <2>1, HarmlessSeq
    <2> QED BY <1>1, <1>6, <1>7, <2>3, <2>4, ProgressKept
  <1>8. CASE cur \notin Seq(Harmless)
    <2>1. /\ ConfigKind /\ ~Waits("sys.usb.config") /\ Config # {}
          /\ Config = {"none"} => cur \in Seq(NoneCommands)
          /\ Config = {"charging"} => cur \in Seq({Report, Charging})
          /\ Config \in GadgetConfigs => cur \in Seq(GadgetCommands(Config))
      BY <1>1, <1>4, <1>8, RunsConfig
    <2>2. StartsClean'
      BY <1>6, <2>1 DEF StartsClean
    <2>3. {"none"} \notin GadgetConfigs /\ {"charging"} \notin GadgetConfigs /\ {"none"} # {"charging"}
      BY Vocabulary
    <2>4. d = Disable => ~Enabled'
      <3>1. d = Disable => d.name = "enable" /\ d.value = {"0"} /\ Expand(d.value) = {"0"}
        BY Records, Expanded DEF Numbers
      <3> QED BY <1>3, <3>1 DEF Enabled
    <2>5. d.name # "enable" => Enabled' = Enabled
      BY <1>3 DEF Enabled, Files
    <2>6. CASE Config = {"none"}
      <3>1. d = Disable \/ d = NoneClass
        BY <1>1, <2>1, <2>6, TailIn, NoneKinds
      <3>2. \A c : Pending(c) /\ c # d => Pending(c)'
        BY <1>1, <2>1, <2>6, TailIn DEF Pending
      <3>3. Service("stop") # Disable /\ Service("stop") # NoneClass /\ Disable # NoneClass
        BY Records
      <3>4. /\ d = NoneClass => d.name = "bDeviceClass" /\ file'["bDeviceClass"] = {"0"}
            /\ d = Disable => d.name = "enable"
        <4>1. d = NoneClass => d.name = "bDeviceClass" /\ d.value = {"0"} /\ Expand(d.value) = {"0"}
          BY Records, Expanded DEF Numbers
        <4> QED BY <1>3, <4>1, Records
      <3>5. Pending(Service("stop"))' \/ ~adbd'
        BY <1>1, <1>6, <2>1, <2>6, <3>1, <3>2, <3>3 DEF Progress, NoneProgress
      <3>6. Pending(Disable)' \/ ~Enabled'
        BY <1>6, <2>1, <2>4, <2>5, <2>6, <3>1, <3>2, <3>4 DEF Progress, NoneProgress
      <3>7. Pending(NoneClass)' \/ file'["bDeviceClass"] = {"0"}
        <4>1. d = Disable => file'["bDeviceClass"] = file["bDeviceClass"]
          BY <1>3, <3>4 DEF Files
        <4> QED BY <1>6, <2>1, <2>6, <3>1, <3>2, <3>4, <4>1 DEF Progress, NoneProgress
      <3>8. OneGadget'
        <4>1. CASE d = Disable
          BY <2>4, <4>1 DEF OneGadget
        <4>2. CASE d = NoneClass
          <5>1. /\ file'["idProduct"] = file["idProduct"] /\ file'["functions"] = file["functions"]
                /\ Enabled' = Enabled
            BY <1>3, <2>5, <3>4, <4>2 DEF Files
          <5> QED BY <1>6, <5>1 DEF Progress, OneGadget
        <4> QED BY <3>1, <4>1, <4>2
      <3> QED BY <1>6, <2>2, <2>3, <2>6, <3>5, <3>6, <3>7, <3>8
              DEF Progress, NoneProgress, GadgetProgress, ChargingProgress
    <2>7. CASE Config = {"charging"}
      BY <1>1, <2>1, <2>7, TailIn, Records
    <2>8. CASE Config \in GadgetConfigs
      <3> DEFINE C == Config
      <3>1. /\ d = Disable \/ d = Enable \/ d \in Needed(C) \/ d.name \in {"idVendor", "instances"}
            /\ \A c : Pending(c) /\ c # d => Pending(c)'
            /\ EnableFollows(cur) => EnableFollows(cur')
            /\ EnableFollows(cur) /\ d = Disable => Pending(Enable)'
        BY <1>1, <2>1, <2>8, TailIn, GadgetKinds DEF Pending
      <3>2. /\ \A c \in Needed(C) : Pending(c) \/ Done(C, c)
            /\ Pending(Enable) \/ Enabled
            /\ EnableFollows(cur)
            /\ ClassOf(C) = {"0"} => file["bDeviceClass"] = {"0"}
            /\ ~Starts(C) => AdbdOff
        BY <1>6, <2>1, <2>8 DEF Progress, GadgetProgress
      <3>3. d = Disable \/ d = Enable => d.name = "enable"
        BY Records
      <3>4. C \in GadgetConfigs /\ C = Config /\ Config' = C /\ C' = C
        BY <1>6, <2>8
      <3>5. d = Enable => Enabled'
        <4>1. d = Enable => d.name = "enable" /\ d.value = {"1"} /\ Expand(d.value) = {"1"}
          BY Records, Expanded DEF Numbers
        <4> QED BY <1>3, <4>1 DEF Enabled
      <3>6. d \in Needed(C) => d.name # "enable" /\ d # Enable /\ d # Disable
        BY <1>1, NeededNames
      <3> HIDE DEF C
      <3>7. ASSUME NEW c \in Needed(C) PROVE Pending(c)' \/ Done(C, c)'
        <4>1. CASE c = d
          <5>1. Expand(d.value) = Value(C, d)
            BY <1>1, <3>4, <4>1, NeededExpands
          <5> QED BY <1>1, <1>3, <4>1, <5>1, <3>4 DEF Done, Value
        <4>2. CASE c # d /\ Pending(c)
          BY <3>1, <4>2
        <4>3. CASE c # d /\ Done(C, c)
          <5>1. c.do = "write" => c.name \in Files /\ c.name # d.name
            <6> SUFFICES ASSUME c.do = "write" PROVE c.name \in Files /\ c.name # d.name
              OBVIOUS
            <6>1. c.name \in {"idProduct", "functions", "port_index", "bDeviceClass", "bicr", "lun/file"}
              BY NeededNames
            <6>2. d \in Needed(C) => c.name # d.name
              BY <1>1, <4>3, NeededOnce
            <6> QED BY <3>1, <3>3, <6>1, <6>2 DEF Files
          <5> QED BY <1>1, <1>3, <3>4, <4>3, <5>1 DEF Done, Value
        <4> QED BY <3>2, <4>1, <4>2, <4>3
      <3>8. Pending(Enable)' \/ Enabled'
        BY <2>5, <3>1, <3>2, <3>3, <3>5, <3>6
      <3>9. ClassOf(C) = {"0"} => file'["bDeviceClass"] = {"0"}
        <4> SUFFICES ASSUME ClassOf(C) = {"0"} PROVE file'["bDeviceClass"] = {"0"}
          OBVIOUS
        <4>1. d.name # "bDeviceClass"
          BY <3>1, <3>3, NeededNames
        <4> QED BY <1>3, <3>2, <4>1 DEF Files
      <3>10. GadgetProgress'
        BY <1>6, <3>1, <3>2, <3>4, <3>7, <3>8, <3>9 DEF GadgetProgress
      <3>11. OneGadget'
        <4>1. CASE d = Disable
          BY <2>4, <4>1 DEF OneGadget
        <4>2. CASE d = Enable
          <5> DEFINE c1 == Write("idProduct", {ProductOf(C)})
                     c2 == Write("functions", FunctionsWord(C))
          <5>1. c1 \in Needed(C) /\ c2 \in Needed(C) /\ Live(c1) /\ Live(c2)
            BY DEF Needed, Live, LiveFiles, Write
          <5>2. /\ c1.do = "write" /\ c1.name = "idProduct" /\ c1.value = {ProductOf(C)}
                /\ c2.do = "write" /\ c2.name = "functions"
            BY DEF Write
          <5> HIDE DEF c1, c2
          <5>3. Done(C, c1) /\ Done(C, c2)
            BY <1>1, <1>2, <3>2, <4>2, <5>1, EnableHead
          <5>4. file["idProduct"] = {ProductOf(C)} /\ file["functions"] = FunctionsOf(C)
            BY <5>2, <5>3 DEF Done, Value
          <5>5. file'["idProduct"] = file["idProduct"] /\ file'["functions"] = file["functions"]
            BY <1>3, <3>3, <4>2 DEF Files
          <5> QED BY <3>4, <5>4, <5>5 DEF OneGadget
        <4>3. CASE d # Disable /\ d # Enable
          <5>1. Enabled' = Enabled
            BY <2>5, <3>1, <3>6, <4>3
          <5>2. Enabled => file'["idProduct"] = file["idProduct"] /\ file'["functions"] = file["functions"]
            <6>1. Enabled => ~Live(d)
              BY <1>1, <1>2, TailOrdered DEF CurOrdered
            <6> QED BY <1>1, <1>3, <6>1 DEF Live, LiveFiles, Files
          <5> QED BY <1>6, <5>1, <5>2 DEF Progress, OneGadget
        <4> QED BY <4>1, <4>2, <4>3
      <3> QED BY <1>6, <2>2, <2>3, <2>8, <3>10, <3>11 DEF Progress, NoneProgress, ChargingProgress
    <2> QED BY <2>1, <2>6, <2>7, <2>8 DEF ConfigKind
  <1> QED BY <1>7, <1>8

(* So does starting or stopping adbd. *)
LEMMA RunServiceSwitch ==
    ASSUME UsbInv, SwitchInv, RunService
    PROVE  SwitchInv'
  <1> DEFINE d == Head(cur)
  <1>1. /\ cur # <<>> /\ d.do \in {"start", "stop"} /\ cur' = Tail(cur)
        /\ adbd' = (d.do = "start")
        /\ UNCHANGED <<props, file, queue, client>>
    BY DEF RunService
  <1>2. d # Report /\ d # Persist
    BY <1>1, Records
  <1>3. OneSetting' /\ CurKind' /\ PhaseKnows'
    <2>1. /\ Config' = Config /\ State' = State /\ QueueOK
          /\ props'["persist.sys.usb.config"] = props["persist.sys.usb.config"]
      BY <1>1 DEF Config, State, SwitchInv, OneSetting
    <2> QED BY <1>1, <1>2, <2>1, QueueSame, QuietTail
  <1>4. /\ Config' = Config /\ Progress /\ Enabled' = Enabled /\ file' = file
        /\ Waits("sys.usb.config")' <=> Waits("sys.usb.config")
    BY <1>1 DEF Config, Waits, SwitchInv, Progress, Enabled
  <1> SUFFICES Progress'
    BY <1>3 DEF SwitchInv, Progress
  <1>5. cur \notin Seq(Harmless)
    BY <1>1, TailIn, HarmlessKinds
  <1>6. /\ ConfigKind /\ ~Waits("sys.usb.config") /\ Config # {}
        /\ Config = {"none"} => cur \in Seq(NoneCommands)
        /\ Config = {"charging"} => cur \in Seq({Report, Charging})
        /\ Config \in GadgetConfigs => cur \in Seq(GadgetCommands(Config))
    BY <1>1, <1>2, <1>5, RunsConfig
  <1>7. StartsClean' /\ OneGadget'
    BY <1>4, <1>6 DEF StartsClean, OneGadget, Progress
  <1>8. {"none"} \notin GadgetConfigs /\ {"charging"} \notin GadgetConfigs /\ {"none"} # {"charging"}
    BY Vocabulary
  <1>9. CASE Config = {"none"}
    <2>1. d = Service("stop") /\ (\A c : Pending(c) /\ c # d => Pending(c)')
      BY <1>1, <1>6, <1>9, TailIn, NoneKinds DEF Pending
    <2>2. ~adbd' /\ d # Disable /\ d # NoneClass
      <3>1. d.do # "start" /\ d # Disable /\ d # NoneClass
        BY <2>1, Records
      <3>2. adbd' = FALSE
        BY <1>1, <3>1
      <3> QED BY <3>1, <3>2
    <2>3. NoneProgress'
      BY <1>4, <1>6, <1>9, <2>1, <2>2 DEF Progress, NoneProgress
    <2> QED BY <1>4, <1>7, <1>8, <1>9, <2>3 DEF Progress, GadgetProgress, ChargingProgress
  <1>10. CASE Config = {"charging"}
    BY <1>1, <1>6, <1>10, TailIn, Records
  <1>11. CASE Config \in GadgetConfigs
    <2> DEFINE C == Config
    <2>1. /\ d = Service("start") /\ d \in Needed(C)
          /\ \A c : Pending(c) /\ c # d => Pending(c)'
          /\ EnableFollows(cur) => EnableFollows(cur')
      BY <1>1, <1>6, <1>11, TailIn, GadgetKinds DEF Pending
    <2>2. /\ \A c \in Needed(C) : Pending(c) \/ Done(C, c)
          /\ Pending(Enable) \/ Enabled
          /\ EnableFollows(cur)
          /\ ClassOf(C) = {"0"} => file["bDeviceClass"] = {"0"}
      BY <1>4, <1>6, <1>11 DEF Progress, GadgetProgress
    <2>3. adbd' /\ d # Enable /\ Starts(C)
      BY <1>1, <2>1, Records, NeededNames
    <2>4. C \in GadgetConfigs /\ C = Config /\ C' = C
      BY <1>4, <1>11
    <2> HIDE DEF C
    <2>5. ASSUME NEW c \in Needed(C) PROVE Pending(c)' \/ Done(C, c)'
      <3>1. CASE c.do = "write"
        <4>1. c # d
          BY <2>1, <3>1, Records
        <4>2. Done(C, c) => Done(C, c)'
          BY <1>4, <2>4, <3>1 DEF Done, Value
        <4> QED BY <2>1, <2>2, <4>1, <4>2
      <3>2. CASE c.do # "write"
        BY <2>3, <3>2 DEF Done
      <3> QED BY <3>1, <3>2
    <2>6. GadgetProgress'
      BY <1>4, <2>1, <2>2, <2>3, <2>4, <2>5 DEF GadgetProgress
    <2> QED BY <1>4, <1>7, <1>8, <1>11, <2>6 DEF Progress, NoneProgress, ChargingProgress
  <1> QED BY <1>6, <1>9, <1>10, <1>11 DEF ConfigKind

(* Commands that set a property are not waited for. *)
LEMMA ProgressMoves ==
    ASSUME Progress, UNCHANGED <<file, adbd, client>>, Config' = Config,
           Waits("sys.usb.config")' <=> Waits("sys.usb.config"),
           \A c : Pending(c) /\ c # Report /\ c # Charging => Pending(c)',
           EnableFollows(cur) => EnableFollows(cur')
    PROVE  Progress'
  <1>1. AdbdOff' = AdbdOff /\ Enabled' = Enabled /\ Clean' = Clean
    BY DEF AdbdOff, Enabled, Clean
  <1>2. StartsClean' /\ ChargingProgress' /\ OneGadget'
    BY <1>1 DEF Progress, StartsClean, ChargingProgress, OneGadget
  <1>3. \A c \in {Enable, Disable, NoneClass, Service("stop")} : Pending(c) => Pending(c)'
    BY Records
  <1>4. NoneProgress'
    BY <1>1, <1>3 DEF Progress, NoneProgress
  <1>5. \A config : \A c \in Needed(config) : Pending(c) => Pending(c)'
    BY NeededNames
  <1>6. \A c \in Needed(Config) : Done(Config, c) => Done(Config, c)'
    BY DEF Done, Value
  <1>7. GadgetProgress'
    BY <1>1, <1>3, <1>5, <1>6 DEF Progress, GadgetProgress
  <1> QED BY <1>2, <1>4, <1>7 DEF Progress

(* The state is announced: the setting has arrived. *)
LEMMA ReportSwitch ==
    ASSUME UsbInv, SwitchInv, RunSetProp, Head(cur) = Report
    PROVE  SwitchInv'
  <1>1. /\ cur # <<>> /\ cur' = Tail(cur) /\ property_set("sys.usb.state", Config)
        /\ UNCHANGED <<file, adbd, client>>
    <2>1. Head(cur).name = "sys.usb.state" /\ Expand(Head(cur).value) = Config
      BY Records, Expanded DEF Config
    <2> QED BY <2>1 DEF RunSetProp
  <1>2. ~HasScript("sys.usb.state", Config)
    BY DEF HasScript
  <1>3. props' = [props EXCEPT !["sys.usb.state"] = Config] /\ queue' = queue
    BY <1>1, <1>2 DEF property_set
  <1>4. /\ Config' = Config /\ State' = Config
        /\ props'["persist.sys.usb.config"] = props["persist.sys.usb.config"]
    BY <1>3 DEF UsbInv, PropTypes, Properties, Config, State
  <1>5. cur \notin Seq(Harmless) /\ Head(cur) # Persist
    BY <1>1, TailIn, HarmlessKinds, Records
  <1>6. ~MainWaits /\ Config # {}
    BY <1>1, <1>5, RunsConfig
  <1>7. cur # <<Persist>> /\ Announces(cur) /\ QuietAfterReport(cur)
    <2>1. cur = <<Persist>> => Head(cur) = Persist
      OBVIOUS
    <2> QED BY <1>5, <2>1 DEF SwitchInv, CurKind
  <1>8. /\ cur' \in Seq(Harmless)
        /\ \A c : Pending(c) /\ c # Report => Pending(c)'
        /\ EnableFollows(cur) => EnableFollows(cur')
    <2>1. cur \in Seq(Commands)
      BY DEF UsbInv, CurOrdered
    <2> QED BY <1>1, <1>7, <2>1, TailIn DEF Pending
  <1>9. QueueOK' /\ (\A p : Waits(p)' <=> Waits(p))
    BY <1>3, <1>4, QueueSame DEF SwitchInv, OneSetting
  <1>10. ~Announces(cur') /\ cur' # <<Persist>>
    BY <1>8, HarmlessSeq
  <1>11. ~PersistComes /\ InFlight /\ ~PersistComes' /\ ~InFlight'
    <2>1. ~Waits("sys.usb.config")' /\ ~Waits("persist.sys.usb.config")'
      BY <1>6, <1>9 DEF MainWaits
    <2> QED BY <1>6, <1>7, <1>10, <2>1 DEF PersistComes, InFlight, MainWaits
  <1>12. PhaseKnows'
    BY <1>1, <1>4, <1>6, <1>11 DEF SwitchInv, PhaseKnows
  <1>13. Progress'
    BY <1>1, <1>4, <1>8, <1>9, ProgressMoves DEF SwitchInv, Progress
  <1> QED BY <1>8, <1>9, <1>12, <1>13 DEF SwitchInv, Progress, OneSetting, CurKind

(* A setting that no script of sys.usb.config is about. *)
LEMMA SetBeside ==
    ASSUME UsbInv, SwitchInv, NEW p \in {"sys.usb.charging", "mediatek.usb.port.mode"}, NEW words,
           <<p, words>> \in Triggers, property_set(p, words)
    PROVE  /\ Config' = Config /\ State' = State
           /\ props'["persist.sys.usb.config"] = props["persist.sys.usb.config"]
           /\ QueueOK'
           /\ \A q \in {"sys.usb.config", "persist.sys.usb.config"} : Waits(q)' <=> Waits(q)
  <1>1. props' = [props EXCEPT ![p] = words] /\ TriggerOf(p, words) \in Triggers
    BY DEF property_set, TriggerOf
  <1>2. /\ Config' = Config /\ State' = State
        /\ props'["persist.sys.usb.config"] = props["persist.sys.usb.config"]
    BY <1>1 DEF UsbInv, PropTypes, Properties, Config, State
  <1> QED BY <1>1, <1>2, QueueOther DEF UsbInv, SwitchInv, OneSetting

(* The persistent configuration is asked for. *)
LEMMA PersistSwitch ==
    ASSUME UsbInv, SwitchInv, RunSetProp, Head(cur) = Persist
    PROVE  SwitchInv'
  <1> DEFINE W == props["persist.sys.usb.config"]
  <1>1. /\ cur # <<>> /\ cur' = Tail(cur) /\ property_set("sys.usb.config", W)
        /\ UNCHANGED <<file, adbd, client>>
    <2>1. Head(cur).name = "sys.usb.config" /\ Expand(Head(cur).value) = W
      BY Records, Expanded
    <2> QED BY <2>1 DEF RunSetProp
  <1>2. W \in AllConfigs /\ W # {} /\ W # {"none"}
    BY ConfigsAssumption, Vocabulary DEF UsbInv, PropTypes
  <1>3. /\ HasScript("sys.usb.config", W) /\ TriggerOf("sys.usb.config", W) \in Triggers
    BY <1>2 DEF HasScript, TriggerOf, Triggers
  <1>4. /\ Config' = W /\ State' = State
        /\ props'["persist.sys.usb.config"] = props["persist.sys.usb.config"]
    BY <1>1 DEF UsbInv, PropTypes, Properties, Config, State, property_set
  <1> HIDE DEF W
  <1>5. cur = <<Persist>>
    <2>1. cur \notin Seq(Harmless)
      BY <1>1, TailIn, HarmlessKinds
    <2>2. cur \notin Seq(NoneCommands)
      BY <1>1, TailIn, NoneKinds
    <2>3. cur \notin Seq({Report, Charging})
      BY <1>1, TailIn, Records
    <2>4. cur \notin Seq(GadgetCommands(Config))
      BY <1>1, TailIn, GadgetKinds
    <2> QED BY <2>1, <2>2, <2>3, <2>4 DEF SwitchInv, CurKind, ConfigKind
  <1>6. cur' = <<>>
    BY <1>1, <1>5
  <1>7. ~MainWaits /\ \A c \in {Disable, NoneClass, Service("stop")} : ~Pending(c)
    BY <1>5, PersistCur DEF SwitchInv, OneSetting
  <1>8. QueueOK' /\ Waits("sys.usb.config")' /\ ~Waits("persist.sys.usb.config")'
    BY <1>1, <1>3, <1>4, <1>7, QueueMain DEF UsbInv, SwitchInv, OneSetting
  <1>9. cur' \in Seq(Harmless) /\ cur' # <<Persist>>
    BY <1>6, EmptySeq, HarmlessSeq
  <1>10. PersistComes /\ InFlight /\ ~PersistComes' /\ InFlight'
    BY <1>5, <1>8, <1>9 DEF PersistComes, InFlight
  <1>11. PhaseKnows'
    BY <1>1, <1>2, <1>4, <1>10 DEF SwitchInv, PhaseKnows, W
  <1>12. Config = {} \/ (Config = {"none"} /\ ~Waits("sys.usb.config"))
    BY <1>7, <1>10 DEF UsbInv, ClientTypes, Phases, SwitchInv, PhaseKnows, MainWaits
  <1>13. Clean
    <2>1. CASE Config = {}
      BY <2>1 DEF SwitchInv, StartsClean
    <2>2. CASE Config = {"none"} /\ ~Waits("sys.usb.config")
      BY <1>7, <2>2 DEF SwitchInv, NoneProgress, Clean, AdbdOff
    <2> QED BY <1>12, <2>1, <2>2
  <1>14. Clean' /\ OneGadget'
    BY <1>1, <1>13 DEF SwitchInv, Clean, AdbdOff, Enabled, OneGadget
  <1>15. StartsClean' /\ GadgetProgress' /\ ChargingProgress' /\ NoneProgress'
    BY <1>8, <1>14 DEF StartsClean, GadgetProgress, ChargingProgress, NoneProgress
  <1> QED BY <1>8, <1>9, <1>11, <1>14, <1>15 DEF SwitchInv, OneSetting, CurKind

(* So does setting a property: the state is announced when everything *)
(* needed is done.                                                    *)
LEMMA RunSetPropSwitch ==
    ASSUME UsbInv, SwitchInv, RunSetProp
    PROVE  SwitchInv'
  <1> DEFINE d == Head(cur)
  <1>1. /\ cur # <<>> /\ d.do = "setprop" /\ cur' = Tail(cur)
        /\ property_set(d.name, Expand(d.value))
        /\ UNCHANGED <<file, adbd, client>>
    BY DEF RunSetProp
  <1>2. d \in Commands /\ cur \in Seq(Commands)
    BY <1>1, TailOrdered DEF UsbInv, CurOrdered
  <1>3. d = Report \/ d = Charging \/ d = Persist
    BY <1>1, <1>2, RunKinds DEF Charging, Persist
  <1>4. CASE d = Charging
    <2>1. property_set("sys.usb.charging", {"yes"})
      <3>1. d.name = "sys.usb.charging" /\ Expand(d.value) = {"yes"}
        BY <1>4, Records, Expanded
      <3> QED BY <1>1, <3>1
    <2>2. <<"sys.usb.charging", {"yes"}>> \in Triggers
      BY DEF Triggers
    <2>3. /\ Config' = Config /\ State' = State
          /\ props'["persist.sys.usb.config"] = props["persist.sys.usb.config"]
          /\ QueueOK'
          /\ \A q \in {"sys.usb.config", "persist.sys.usb.config"} : Waits(q)' <=> Waits(q)
      BY <2>1, <2>2, SetBeside
    <2>4. d # Report /\ d # Persist
      BY <1>4, Records
    <2>5. OneSetting' /\ CurKind' /\ PhaseKnows'
      BY <1>1, <2>3, <2>4, QuietTail
    <2>6. /\ \A c : Pending(c) /\ c # Charging => Pending(c)'
          /\ EnableFollows(cur) => EnableFollows(cur')
      BY <1>1, <1>2, <1>4, TailIn DEF Pending
    <2>7. Progress'
      BY <1>1, <2>3, <2>6, ProgressMoves DEF SwitchInv, Progress
    <2> QED BY <2>5, <2>7 DEF SwitchInv, Progress
  <1> QED BY <1>3, <1>4, ReportSwitch, PersistSwitch

-----------------------------------------------------------------------------
(* The steps of the framework *)

LEMMA CurSame ==
    ASSUME CurKind, cur' = cur, Config' = Config
    PROVE  CurKind'
BY DEF CurKind, ConfigKind

(* So does the framework setting none. *)
LEMMA StartSwitchSwitch ==
    ASSUME Patient, UsbInv, SwitchInv, NEW config \in Configs, StartSwitch(config)
    PROVE  SwitchInv'
  <1>1. /\ client.phase = "idle" /\ Config \notin {{}, {"none"}} /\ State = Config
        /\ property_set("sys.usb.config", {"none"})
        /\ client' = [phase |-> "disabling", target |-> config]
        /\ UNCHANGED <<file, adbd, cur>>
    BY DEF StartSwitch, Config, State
  <1>2. ~InFlight
    BY <1>1 DEF SwitchInv, PhaseKnows
  <1>3. cur \in Seq(Harmless) /\ ~MainWaits /\ cur # <<Persist>>
    BY <1>2, NotFlying, HarmlessSeq
  <1>4. HasScript("sys.usb.config", {"none"}) /\ TriggerOf("sys.usb.config", {"none"}) \in Triggers
    BY DEF HasScript, TriggerOf, Triggers
  <1>5. Config' = {"none"} /\ State' = State
    BY <1>1 DEF UsbInv, PropTypes, Properties, Config, State, property_set
  <1>6. QueueOK' /\ Waits("sys.usb.config")' /\ ~Waits("persist.sys.usb.config")'
    BY <1>1, <1>3, <1>4, <1>5, QueueMain DEF UsbInv, SwitchInv, OneSetting
  <1>7. ~PersistComes' /\ InFlight' /\ cur' \in Seq(Harmless)
    BY <1>1, <1>3, <1>6 DEF PersistComes, InFlight
  <1>8. PhaseKnows'
    BY <1>1, <1>5, <1>7 DEF PhaseKnows
  <1>9. StartsClean' /\ GadgetProgress' /\ ChargingProgress' /\ NoneProgress'
    BY <1>5, <1>6 DEF StartsClean, GadgetProgress, ChargingProgress, NoneProgress
  <1>10. OneGadget'
    BY <1>1 DEF SwitchInv, OneGadget, Enabled
  <1> QED BY <1>6, <1>7, <1>8, <1>9, <1>10 DEF SwitchInv, OneSetting, CurKind

(* So does the framework setting its target, directly or through *)
(* persist.sys.usb.config.                                       *)
LEMMA AskForSwitch ==
    ASSUME Patient, UsbInv, SwitchInv, NEW p \in {"sys.usb.config", "persist.sys.usb.config"}, AskFor(p)
    PROVE  SwitchInv'
  <1> DEFINE T == client.target
  <1>1. /\ client.phase = "disabling" /\ State = {"none"}
        /\ property_set(p, T)
        /\ client' = [client EXCEPT !.phase = "enabling"]
        /\ UNCHANGED <<file, adbd, cur>>
    BY DEF AskFor, State
  <1>2. T \in AllConfigs /\ T # {"none"} /\ client'.phase = "enabling" /\ client'.target = T
    BY <1>1, ConfigsAssumption, Vocabulary DEF UsbInv, ClientTypes
  <1>3. ~InFlight /\ Config = {"none"}
    BY <1>1 DEF SwitchInv, PhaseKnows
  <1>4. cur \in Seq(Harmless) /\ ~MainWaits /\ cur # <<Persist>>
    BY <1>3, NotFlying, HarmlessSeq
  <1>5. HasScript(p, T) /\ TriggerOf(p, T) \in Triggers
    BY <1>2 DEF HasScript, TriggerOf, Triggers
  <1>6. /\ props' = [props EXCEPT ![p] = T]
        /\ State' = State
        /\ p = "sys.usb.config" => Config' = T
        /\ p = "persist.sys.usb.config" => Config' = Config /\ props'["persist.sys.usb.config"] = T
    BY <1>1 DEF UsbInv, PropTypes, Properties, Config, State, property_set
  <1> HIDE DEF T
  <1>7. QueueOK' /\ \A q \in {"sys.usb.config", "persist.sys.usb.config"} : Waits(q)' <=> q = p
    BY <1>1, <1>4, <1>5, <1>6, QueueMain DEF UsbInv, SwitchInv, OneSetting
  <1>8. /\ Waits("sys.usb.config")' <=> p = "sys.usb.config"
        /\ Waits("persist.sys.usb.config")' <=> p = "persist.sys.usb.config"
    BY <1>7
  <1>9. (PersistComes' <=> p = "persist.sys.usb.config") /\ InFlight' /\ cur' \in Seq(Harmless)
    BY <1>1, <1>4, <1>8 DEF PersistComes, InFlight
  <1>10. PhaseKnows'
    BY <1>1, <1>2, <1>3, <1>6, <1>9 DEF PhaseKnows
  <1>11. Clean /\ ~adbd
    <2>1. ~Waits("sys.usb.config")
      BY <1>4 DEF MainWaits
    <2> QED BY <1>3, <1>4, <2>1, HarmlessCur DEF SwitchInv, NoneProgress, Clean, AdbdOff
  <1>12. Clean' /\ AdbdOff' /\ OneGadget'
    BY <1>1, <1>11 DEF SwitchInv, Clean, AdbdOff, Enabled, OneGadget
  <1>13. CASE p = "sys.usb.config"
    <2>1. Progress'
      BY <1>8, <1>12, <1>13 DEF Progress, StartsClean, GadgetProgress, ChargingProgress, NoneProgress
    <2> QED BY <1>7, <1>9, <1>10, <2>1 DEF SwitchInv, Progress, OneSetting, CurKind
  <1>14. CASE p = "persist.sys.usb.config"
    <2>1. (Waits("sys.usb.config")' <=> Waits("sys.usb.config")) /\ Config' = Config
      BY <1>4, <1>6, <1>8, <1>14 DEF MainWaits
    <2>2. EnableFollows(cur')
      BY <1>9, HarmlessSeq
    <2>3. Progress'
      BY <1>1, <1>4, <1>12, <2>1, <2>2, ProgressKept DEF SwitchInv, Progress
    <2> QED BY <1>7, <1>9, <1>10, <2>3 DEF SwitchInv, Progress, OneSetting, CurKind
  <1> QED BY <1>13, <1>14

(* So does the framework seeing its target announced. *)
LEMMA FinishSwitchSwitch ==
    ASSUME Patient, UsbInv, SwitchInv, FinishSwitch
    PROVE  SwitchInv'
  <1>1. /\ client.phase = "enabling" /\ State = client.target
        /\ client' = [client EXCEPT !.phase = "idle"]
        /\ UNCHANGED <<props, file, adbd, queue, cur>>
    BY DEF FinishSwitch, State
  <1>2. /\ client.target # {} /\ client.target # {"none"}
        /\ client'.phase = "idle" /\ client'.target = client.target
    BY <1>1, ConfigsAssumption, Vocabulary DEF UsbInv, ClientTypes
  <1>3. ~PersistComes /\ ~InFlight /\ Config = client.target
    BY <1>1, <1>2 DEF SwitchInv, PhaseKnows
  <1>4. cur \in Seq(Harmless) /\ EnableFollows(cur)
    BY <1>3, NotFlying, HarmlessSeq
  <1>5. Config' = Config /\ State' = State /\ QueueOK' /\ \A q : Waits(q)' <=> Waits(q)
    BY <1>1, QueueSame DEF SwitchInv, OneSetting, Config, State
  <1>6. ~InFlight'
    BY <1>1, <1>3, <1>5 DEF PersistComes, InFlight
  <1>7. PhaseKnows'
    BY <1>1, <1>2, <1>3, <1>5, <1>6 DEF PhaseKnows
  <1>8. AdbdOff => AdbdOff'
    BY <1>1, <1>2 DEF AdbdOff
  <1>9. Progress'
    BY <1>1, <1>4, <1>5, <1>8, ProgressKept DEF SwitchInv, Progress
  <1> QED BY <1>1, <1>4, <1>5, <1>7, <1>9 DEF SwitchInv, Progress, OneSetting, CurKind

(* So does any other setting that does not touch sys.usb.bicr. *)
LEMMA SetOtherSwitch ==
    ASSUME Undisturbed, UsbInv, SwitchInv, NEW other \in Others, SetOther(other[1], other[2])
    PROVE  SwitchInv'
  <1>1. property_set(other[1], other[2]) /\ UNCHANGED <<file, adbd, cur, client>>
    BY DEF SetOther
  <1>2. /\ other[1] \in {"sys.usb.charging", "mediatek.usb.port.mode"}
        /\ <<other[1], other[2]>> \in Triggers
    BY OthersAssumption DEF Triggers, Undisturbed
  <1>3. /\ Config' = Config /\ State' = State
        /\ props'["persist.sys.usb.config"] = props["persist.sys.usb.config"]
        /\ QueueOK'
        /\ \A q \in {"sys.usb.config", "persist.sys.usb.config"} : Waits(q)' <=> Waits(q)
    BY <1>1, <1>2, SetBeside
  <1>4. /\ Waits("sys.usb.config")' <=> Waits("sys.usb.config")
        /\ Waits("persist.sys.usb.config")' <=> Waits("persist.sys.usb.config")
    BY <1>3
  <1>5. (PersistComes' <=> PersistComes) /\ (InFlight' <=> InFlight) /\ (MainWaits' <=> MainWaits)
    BY <1>1, <1>4 DEF PersistComes, InFlight, MainWaits
  <1>6. PhaseKnows'
    BY <1>1, <1>3, <1>5, PhaseSame DEF SwitchInv
  <1>7. CurKind' /\ OneSetting'
    BY <1>1, <1>3, <1>5, CurSame DEF SwitchInv, OneSetting
  <1>8. (\A c : Pending(c) => Pending(c)') /\ (EnableFollows(cur) => EnableFollows(cur'))
    BY <1>1 DEF Pending
  <1>9. Progress'
    BY <1>1, <1>3, <1>4, <1>8, ProgressMoves DEF SwitchInv, Progress
  <1> QED BY <1>6, <1>7, <1>9 DEF SwitchInv, Progress

-----------------------------------------------------------------------------
(* The invariant *)

LEMMA SwitchInit == Init => SwitchInv
  <1> SUFFICES ASSUME Init PROVE SwitchInv
    OBVIOUS
  <1>1. Config = {} /\ State = {}
    BY DEF Init, Config, State, Properties
  <1>2. file["enable"] = {"0"} /\ file["bDeviceClass"] = {"0"}
    <2> DEFINE v(f) == CASE f = "enable" -> {"0"} [] f = "bDeviceClass" -> {"0"}
                         [] f = "idVendor" -> {"0BB4"} [] OTHER -> {}
    <2>1. v("enable") = {"0"} /\ v("bDeviceClass") = {"0"}
      BY Zenon
    <2>2. file = [f \in Files |-> v(f)]
      BY Zenon DEF Init
    <2> HIDE DEF v
    <2> QED BY <2>1, <2>2 DEF Files
  <1>3. /\ cur = <<>> /\ client.phase = "idle" /\ client.target = {}
        /\ queue = <<<<"persist.sys.usb.config", {"*"}>>>>
    BY DEF Init
  <1>4. /\ DOMAIN queue = {1} /\ queue[1][1] = "persist.sys.usb.config"
    BY <1>3
  <1>5. /\ QueueOK /\ Waits("persist.sys.usb.config") /\ ~Waits("sys.usb.config")
    BY <1>4 DEF QueueOK, Waits
  <1>6. cur \in Seq(Harmless)
    BY <1>3, EmptySeq
  <1>7. PersistComes /\ InFlight
    BY <1>5 DEF PersistComes, InFlight
  <1>8. PhaseKnows
    BY <1>1, <1>3, <1>7 DEF PhaseKnows
  <1>9. ~Enabled /\ Clean
    BY <1>2, <1>3 DEF Enabled, Clean, AdbdOff
  <1>10. {} \notin GadgetConfigs /\ {"charging"} # {} /\ {"none"} # {}
    BY Vocabulary
  <1>11. Progress
    BY <1>1, <1>9, <1>10 DEF Progress, StartsClean, GadgetProgress, ChargingProgress, NoneProgress,
                             OneGadget
  <1> QED BY <1>5, <1>6, <1>8, <1>11 DEF SwitchInv, Progress, OneSetting, CurKind

(* Every step keeps SwitchInv. *)
LEMMA SwitchNext == Undisturbed /\ UsbInv /\ SwitchInv /\ [Next]_vars => SwitchInv'
  <1> SUFFICES ASSUME Undisturbed, UsbInv, SwitchInv, [Next]_vars PROVE SwitchInv'
    OBVIOUS
  <1>1. Patient
    BY DEF Undisturbed
  <1>2. CASE init
    BY <1>2, NextScriptSwitch, RunWriteSwitch, RunServiceSwitch, RunSetPropSwitch DEF init
  <1>3. CASE Switching
    BY <1>1, <1>3, AskForSwitch, FinishSwitchSwitch DEF Switching
  <1>4. CASE \E config \in Configs : StartSwitch(config)
    BY <1>1, <1>4, StartSwitchSwitch
  <1>5. CASE \E other \in Others : SetOther(other[1], other[2])
    BY <1>5, SetOtherSwitch
  <1>6. CASE UNCHANGED vars
    <2>1. /\ Config' = Config /\ State' = State /\ UNCHANGED <<props, file, adbd, queue, cur, client>>
      BY <1>6 DEF vars, Config, State
    <2>2. QueueOK' /\ \A q : Waits(q)' <=> Waits(q)
      BY <2>1, QueueSame DEF SwitchInv, OneSetting
    <2>3. (PersistComes' <=> PersistComes) /\ (InFlight' <=> InFlight) /\ (MainWaits' <=> MainWaits)
      BY <2>1, <2>2 DEF PersistComes, InFlight, MainWaits
    <2>4. PhaseKnows' /\ CurKind' /\ OneSetting'
      BY <2>1, <2>2, <2>3, PhaseSame, CurSame DEF SwitchInv, OneSetting
    <2>5. (\A c : Pending(c) => Pending(c)') /\ (EnableFollows(cur) => EnableFollows(cur'))
      BY <2>1 DEF Pending
    <2>6. Progress'
      BY <2>1, <2>2, <2>5, ProgressMoves DEF SwitchInv, Progress
    <2> QED BY <2>4, <2>6 DEF SwitchInv, Progress
  <1> QED BY <1>2, <1>3, <1>4, <1>5, <1>6 DEF Next

(* A framework that waits and nobody who sets the disk image by itself: at *)
(* most one setting is on its way, and every command it needs waits in the *)
(* running script or has had its effect.                                   *)
THEOREM SwitchInvariance == Undisturbed => (Spec => []SwitchInv)
  <1> SUFFICES ASSUME Undisturbed PROVE Spec => []SwitchInv
    OBVIOUS
  <1>1. UsbInv /\ SwitchInv /\ [Next]_vars => SwitchInv'
    BY SwitchNext
  <1> QED BY <1>1, SwitchInit, UsbInvariance, PTL DEF Spec

(* adbd is started exactly for the configurations with adb. *)
LEMMA AdbdWanted ==
    ASSUME NEW config
    PROVE  Starts(config) <=> "adb" \in FunctionsOf(config)
BY FunctionsCases DEF Starts

(* With nothing on its way, everything needed is done: the invariants *)
(* imply the property.                                                *)
LEMMA SwitchLeaves == UsbInv /\ SwitchInv => SwitchedCorrectly
  <1> DEFINE T == client.target
  <1> SUFFICES ASSUME UsbInv, SwitchInv, client.phase = "idle", T # {}
               PROVE  /\ Enabled <=> T # {"charging"}
                      /\ Enabled => /\ file["functions"] = FunctionsOf(T)
                                    /\ file["bDeviceClass"] = ClassOf(T)
                                    /\ T = {"acm_third"} => file["port_index"] = {"3"}
                                    /\ T = {"gs3"} => file["port_index"] = {"4"}
                                    /\ "bicr" \in T => /\ file["bicr"] = {"1"}
                                                       /\ file["lun/file"] = {"/dev/block/loop0"}
                      /\ adbd <=> Enabled /\ "adb" \in file["functions"]
    BY DEF SwitchedCorrectly
  <1>1. ~InFlight /\ Config = T
    BY DEF SwitchInv, PhaseKnows
  <1>2. cur \in Seq(Harmless) /\ ~Waits("sys.usb.config")
    BY <1>1, NotFlying DEF MainWaits
  <1>3. T \in AllConfigs /\ adbd \in BOOLEAN
    BY ConfigsAssumption DEF UsbInv, ClientTypes
  <1>4. AdbdOff <=> ~adbd
    BY <1>3 DEF AdbdOff
  <1> HIDE DEF T
  <1>5. CASE T = {"charging"}
    BY <1>1, <1>2, <1>4, <1>5 DEF SwitchInv, ChargingProgress
  <1>6. CASE T \in GadgetConfigs
    <2>1. /\ \A c \in Needed(T) : Done(T, c)
          /\ Enabled
          /\ ClassOf(T) = {"0"} => file["bDeviceClass"] = {"0"}
          /\ ~Starts(T) => ~adbd
      BY <1>1, <1>2, <1>4, <1>6, HarmlessCur DEF SwitchInv, GadgetProgress
    <2>2. ASSUME NEW f, NEW v, f # "functions", Write(f, v) \in Needed(T)
          PROVE  file[f] = v
      BY <2>1, <2>2 DEF Done, Value, Write
    <2>3. file["functions"] = FunctionsOf(T)
      <3>1. Write("functions", FunctionsWord(T)) \in Needed(T)
        BY DEF Needed
      <3> QED BY <2>1, <3>1 DEF Done, Value, Write
    <2>4. file["bDeviceClass"] = ClassOf(T)
      <3>1. ClassOf(T) # {"0"} => Write("bDeviceClass", ClassOf(T)) \in Needed(T)
        BY DEF Needed
      <3> QED BY <2>1, <2>2, <3>1
    <2>5. /\ T = {"acm_third"} => file["port_index"] = {"3"}
          /\ T = {"gs3"} => file["port_index"] = {"4"}
          /\ "bicr" \in T => file["bicr"] = {"1"} /\ file["lun/file"] = {"/dev/block/loop0"}
      <3>1. /\ T = {"acm_third"} => Write("port_index", {"3"}) \in Needed(T)
            /\ T = {"gs3"} => Write("port_index", {"4"}) \in Needed(T)
            /\ "bicr" \in T => /\ Write("bicr", {"1"}) \in Needed(T)
                               /\ Write("lun/file", {"/dev/block/loop0"}) \in Needed(T)
        BY DEF Needed
      <3> QED BY <2>2, <3>1
    <2>6. Starts(T) => adbd
      <3>1. Starts(T) => Service("start") \in Needed(T)
        BY DEF Needed
      <3> QED BY <2>1, <3>1, Records DEF Done
    <2>7. T # {"charging"}
      BY <1>6, Vocabulary
    <2>8. adbd <=> Starts(T)
      BY <1>3, <2>1, <2>6
    <2> QED BY <2>1, <2>3, <2>4, <2>5, <2>7, <2>8, AdbdWanted
  <1> QED BY <1>3, <1>5, <1>6 DEF AllConfigs

(* A switch that a waiting framework has seen complete left exactly what   *)
(* was asked for, whatever the configuration before it was.                *)
THEOREM SwitchCorrect == Undisturbed => (Spec => []SwitchedCorrectly)
  <1> SUFFICES ASSUME Undisturbed PROVE Spec => []SwitchedCorrectly
    OBVIOUS
  <1>1. Spec => []SwitchInv
    BY SwitchInvariance
  <1> QED BY <1>1, SwitchLeaves, UsbInvariance, PTL

(* While USB is enabled, every configuration announced under the ids of    *)
(* the gadget has the functions that the gadget has.                       *)
THEOREM IdsMean == Undisturbed => (Spec => []IdsTellFunctions)
  <1> SUFFICES ASSUME Undisturbed PROVE Spec => []IdsTellFunctions
    OBVIOUS
  <1>1. Spec => []SwitchInv
    BY SwitchInvariance
  <1>2. SwitchInv => IdsTellFunctions
    <2> SUFFICES ASSUME SwitchInv, Enabled, NEW config \in GadgetConfigs,
                        file["idProduct"] = {ProductOf(config)}
                 PROVE  file["functions"] = FunctionsOf(config)
      BY DEF IdsTellFunctions
    <2>1. PICK other \in GadgetConfigs : /\ file["idProduct"] = {ProductOf(other)}
                                         /\ file["functions"] = FunctionsOf(other)
      BY DEF SwitchInv, OneGadget
    <2>2. ProductOf(config) = ProductOf(other)
      BY <2>1
    <2> QED BY <2>1, <2>2, SameIdSameFunctions
  <1> QED BY <1>1, <1>2, PTL
=============================================================================
