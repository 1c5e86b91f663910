--------------------------- MODULE UsbGadgetProofs ---------------------------
(***************************************************************************)
(* Proofs about the USB configuration scripts, for any configurations and  *)
(* settings the framework asks for, whether it waits or not.               *)
(***************************************************************************)
EXTENDS UsbGadget, SequenceTheorems, TLAPS

-----------------------------------------------------------------------------
(* The commands of the scripts *)

Disable == Write("enable", {"0"})
Enable == Write("enable", {"1"})
Report == SetProp("sys.usb.state", sys_usb_config)

Commands ==
    {Disable, Enable, Service("start"), Service("stop"), Report,
     SetProp("sys.usb.charging", {"yes"}), SetProp("sys.usb.config", {"$persist.sys.usb.config"})}
    \cup [do : {"write"}, name : Files \ {"enable", "idProduct", "functions"}, value : SUBSET Numbers]
    \cup [do : {"write"}, name : {"functions"}, value : (SUBSET Words) \cup {sys_usb_config}]
    \cup {Write("idProduct", {ProductOf(config)}) : config \in GadgetConfigs}

(* What must not change while USB is enabled. *)
LiveFiles == {"idVendor", "idProduct", "functions", "bDeviceClass"}
Live(c) == c.do = "write" /\ c.name \in LiveFiles

(* Commands that may come before USB is enabled, and after it. *)
Before == {c \in Commands : c # Enable}
After == {c \in Commands : ~Live(c)}

(* The files of LiveFiles are written after USB was disabled, and before   *)
(* it is enabled.                                                          *)
DisablesFirst(s) == \A i \in DOMAIN s : Live(s[i]) => \E j \in 1..(i - 1) : s[j] = Disable
EnablesLast(s) == \A i \in DOMAIN s : \A j \in 1..(i - 1) : s[j] = Enable => ~Live(s[i])

(* Scripts whose last command announces the state, and parts of them. *)
Announces(s) == \E i \in DOMAIN s : s[i] = Report

Triggers ==
    {<<"persist.sys.usb.config", {"*"}>>}
    \cup ({"sys.usb.config"} \X (AllConfigs \cup {{"none"}}))
    \cup ({"sys.usb.charging", "sys.usb.bicr"} \X {{"yes"}, {"no"}})
    \cup ({"mediatek.usb.port.mode"} \X {{"usb"}, {"uart"}})

-----------------------------------------------------------------------------
(* The words of the scripts *)

LEMMA Vocabulary ==
    /\ {"mass_storage", "adb", "acm"} \subseteq Words
    /\ {"none", "yes", "no", "usb", "uart"} \subseteq Words
    /\ \A config \in AllConfigs : config \subseteq Words
    /\ {} \notin AllConfigs /\ {"none"} \notin AllConfigs
    /\ GadgetConfigs \subseteq AllConfigs /\ {"charging"} \in AllConfigs
    /\ {"charging"} \notin GadgetConfigs
  <1>1. <<{"mass_storage", "adb", "acm"}, "0005">> \in Products
    BY DEF Products, ModemProducts
  <1>2. {"mass_storage", "adb", "acm"} \in AllConfigs
    BY <1>1 DEF AllConfigs, GadgetConfigs
  <1>3. \A config \in AllConfigs : config \subseteq Words
    BY DEF Words
  <1> DEFINE Proper(p) == p[1] # {} /\ p[1] # {"none"} /\ p[1] # {"charging"}
  <1>4. \A p \in Products : Proper(p)
    <2>1. \A p \in SingleProducts \cup PortProducts : Proper(p)
      BY DEF SingleProducts, PortProducts
    <2>2. \A p \in MediaProducts : Proper(p)
      BY DEF MediaProducts
    <2>3. \A p \in ModemProducts : Proper(p)
      BY DEF ModemProducts
    <2>4. \A p \in AccessoryProducts \cup BicrProducts \cup EemProducts : Proper(p)
      BY DEF AccessoryProducts, BicrProducts, EemProducts
    <2> HIDE DEF Proper
    <2> QED BY <2>1, <2>2, <2>3, <2>4 DEF Products
  <1>5. {} \notin AllConfigs /\ {"none"} \notin AllConfigs /\ {"charging"} \notin GadgetConfigs
    BY <1>4 DEF AllConfigs, GadgetConfigs
  <1>6. {"none", "yes", "no", "usb", "uart"} \subseteq Words
    BY DEF Words
  <1>7. {"mass_storage", "adb", "acm"} \subseteq Words
    BY <1>2, <1>3
  <1>8. GadgetConfigs \subseteq AllConfigs /\ {"charging"} \in AllConfigs
    BY DEF AllConfigs
  <1> QED BY <1>3, <1>5, <1>6, <1>7, <1>8

(* What FunctionsOf gives for the three kinds of configuration. *)
LEMMA FunctionsCases ==
    ASSUME NEW config
    PROVE  /\ "bicr" \in config => FunctionsOf(config) = (config \ {"bicr"}) \cup {"mass_storage"}
           /\ config \in {{"acm_third"}, {"gs3"}} => FunctionsOf(config) = {"mass_storage", "adb", "acm"}
           /\ "bicr" \notin config /\ config \notin {{"acm_third"}, {"gs3"}} =>
                FunctionsOf(config) = config
  <1>1. config \in {{"acm_third"}, {"gs3"}} => "bicr" \notin config
    OBVIOUS
  <1> QED BY <1>1, Zenon DEF FunctionsOf

(* The functions of a configuration are words of the scripts. *)
LEMMA FunctionsTyped ==
    ASSUME NEW config \in GadgetConfigs
    PROVE  FunctionsOf(config) \subseteq Words /\ FunctionsWord(config) \in (SUBSET Words) \cup {sys_usb_config}
  <1>1. config \subseteq Words
    BY Vocabulary
  <1>2. FunctionsOf(config) \subseteq Words
    BY <1>1, Vocabulary, FunctionsCases
  <1>3. FunctionsWord(config) = FunctionsOf(config) \/ FunctionsWord(config) = sys_usb_config
    BY DEF FunctionsWord
  <1> QED BY <1>2, <1>3

(* There are three device classes. *)
LEMMA ClassTyped ==
    ASSUME NEW config
    PROVE  ClassOf(config) \in {{"02"}, {"224"}, {"0"}}
BY Zenon DEF ClassOf

-----------------------------------------------------------------------------
(* The order of the commands *)

LEMMA CommandKinds ==
    /\ Disable \in Before /\ Disable \in After /\ Enable \in After
    /\ Service("start") \in After /\ Service("stop") \in Before
    /\ Report \in Before /\ Report \in After
    /\ SetProp("sys.usb.charging", {"yes"}) \in After
    /\ SetProp("sys.usb.config", {"$persist.sys.usb.config"}) \in After
    /\ \A f \in Files \ {"enable", "idProduct", "functions"}, v \in SUBSET Numbers :
          Write(f, v) \in Before /\ (f \notin LiveFiles => Write(f, v) \in After)
    /\ \A v \in (SUBSET Words) \cup {sys_usb_config} : Write("functions", v) \in Before
    /\ \A config \in GadgetConfigs : Write("idProduct", {ProductOf(config)}) \in Before
  <1>1. Disable # Enable
    BY DEF Disable, Enable, Write
  <1>2. \A f, v : /\ Write(f, v).name = f /\ Write(f, v).do = "write"
                  /\ f # "enable" => Write(f, v) # Enable
    BY DEF Write, Enable
  <1>3. \A p, v : SetProp(p, v).do = "setprop" /\ SetProp(p, v) # Enable
    BY DEF SetProp, Enable, Write
  <1>4. \A verb : Service(verb).do = verb
    BY DEF Service
  <1>5. Service("stop") # Enable
    BY DEF Service, Enable, Write
  <1>6. \A f \in Files \ {"enable", "idProduct", "functions"}, v \in SUBSET Numbers :
            Write(f, v) \in Commands
    BY DEF Commands, Write
  <1>7. \A v \in (SUBSET Words) \cup {sys_usb_config} : Write("functions", v) \in Commands
    BY DEF Commands, Write
  <1>8. \A config \in GadgetConfigs : Write("idProduct", {ProductOf(config)}) \in Commands
    BY DEF Commands
  <1>9. {Disable, Enable, Service("start"), Service("stop"), Report,
          SetProp("sys.usb.charging", {"yes"}),
          SetProp("sys.usb.config", {"$persist.sys.usb.config"})} \subseteq Commands
    BY DEF Commands
  <1>10. ~Live(Disable) /\ ~Live(Enable) /\ ~Live(Service("start")) /\ ~Live(Service("stop"))
    BY <1>2, <1>4 DEF Live, LiveFiles, Disable, Enable
  <1>11. \A p, v : ~Live(SetProp(p, v))
    BY <1>3 DEF Live
  <1>12. \A f, v : f \notin LiveFiles => ~Live(Write(f, v))
    BY <1>2 DEF Live
  <1>13. Report # Enable /\ ~Live(Report)
    BY <1>3, <1>11 DEF Report
  <1> QED BY <1>1, <1>2, <1>5, <1>6, <1>7, <1>8, <1>9, <1>10, <1>11, <1>12, <1>13 DEF Before, After

(* A script before USB is enabled, and afterwards. *)
Down(s) == s \in Seq(Before) /\ DisablesFirst(s) /\ \E j \in DOMAIN s : s[j] = Disable
Ordered(s) == s \in Seq(Commands) /\ DisablesFirst(s) /\ EnablesLast(s)

(* A sequence over a set is one over every larger set. *)
LEMMA SubSeqs ==
    ASSUME NEW S, NEW T, S \subseteq T, NEW s \in Seq(S)
    PROVE  s \in Seq(T)
BY LenProperties, ElementOfSeq, IsASeq

(* A script that has disabled USB may go on with commands that need it *)
(* disabled.                                                           *)
LEMMA DownConcat ==
    ASSUME NEW s, Down(s), NEW x \in Seq(Before)
    PROVE  Down(s \o x)
  <1>1. s \in Seq(Before) /\ s \o x \in Seq(Before)
    BY ConcatProperties DEF Down
  <1>2. /\ Len(s) \in Nat /\ Len(x) \in Nat /\ Len(s \o x) = Len(s) + Len(x)
        /\ DOMAIN s = 1..Len(s) /\ DOMAIN (s \o x) = 1..(Len(s) + Len(x))
        /\ \A i \in 1..(Len(s) + Len(x)) : i <= Len(s) => (s \o x)[i] = s[i]
    BY <1>1, ConcatProperties, LenProperties
  <1>3. PICK j \in 1..Len(s) : s[j] = Disable
    BY <1>2 DEF Down
  <1>4. (s \o x)[j] = Disable
    BY <1>2, <1>3
  <1>5. ASSUME NEW i \in 1..(Len(s) + Len(x)), Live((s \o x)[i])
        PROVE  \E k \in 1..(i - 1) : (s \o x)[k] = Disable
    <2>1. CASE i <= Len(s)
      <3>1. PICK k \in 1..(i - 1) : s[k] = Disable
        BY <1>2, <1>5, <2>1 DEF Down, DisablesFirst
      <3> QED BY <1>2, <2>1, <3>1
    <2>2. CASE i > Len(s)
      BY <1>2, <1>4, <2>2
    <2> QED BY <1>2, <2>1, <2>2
  <1>6. DisablesFirst(s \o x)
    BY <1>2, <1>5 DEF DisablesFirst
  <1> QED BY <1>1, <1>2, <1>3, <1>4, <1>6 DEF Down

(* A script that only disables USB and changes it afterwards is in order. *)
LEMMA DownOrdered ==
    ASSUME NEW s, Down(s)
    PROVE  Ordered(s)
  <1>1. s \in Seq(Before) /\ Before \subseteq Commands
    BY DEF Down, Before
  <1>2. \A i \in DOMAIN s : \A j \in 1..(i - 1) : j \in DOMAIN s /\ s[j] # Enable
    BY <1>1, LenProperties, ElementOfSeq DEF Before
  <1> QED BY <1>1, <1>2, SubSeqs DEF Ordered, Down, EnablesLast

(* A script in order may go on with commands that write none of the *)
(* files that must not change while USB is enabled.                 *)
LEMMA OrderedConcat ==
    ASSUME NEW s, Ordered(s), NEW x \in Seq(After)
    PROVE  Ordered(s \o x)
  <1>1. s \in Seq(Commands) /\ x \in Seq(Commands) /\ s \o x \in Seq(Commands)
    BY SubSeqs, ConcatProperties DEF Ordered, After
  <1>2. /\ Len(s) \in Nat /\ Len(x) \in Nat /\ Len(s \o x) = Len(s) + Len(x)
        /\ DOMAIN s = 1..Len(s) /\ DOMAIN (s \o x) = 1..(Len(s) + Len(x))
        /\ \A i \in 1..(Len(s) + Len(x)) :
              (s \o x)[i] = IF i <= Len(s) THEN s[i] ELSE x[i - Len(s)]
    BY <1>1, ConcatProperties, LenProperties
  <1>3. \A i \in 1..(Len(s) + Len(x)) : i > Len(s) => ~Live((s \o x)[i])
    <2>1. \A i \in 1..Len(x) : ~Live(x[i])
      BY <1>2, ElementOfSeq DEF After
    <2> QED BY <1>2, <2>1
  <1>4. DisablesFirst(s \o x)
    <2> SUFFICES ASSUME NEW i \in 1..(Len(s) + Len(x)), Live((s \o x)[i])
                 PROVE  \E k \in 1..(i - 1) : (s \o x)[k] = Disable
      BY <1>2 DEF DisablesFirst
    <2>1. i <= Len(s) /\ Live(s[i])
      <3>1. i \in Nat /\ ~(i > Len(s))
        BY <1>2, <1>3
      <3>2. i <= Len(s)
        BY <1>2, <3>1
      <3>3. (s \o x)[i] = s[i]
        BY <1>2, <3>2
      <3> QED BY <3>2, <3>3
    <2>2. PICK k \in 1..(i - 1) : s[k] = Disable
      BY <1>2, <2>1 DEF Ordered, DisablesFirst
    <2> QED BY <1>2, <2>1, <2>2
  <1>5. EnablesLast(s \o x)
    <2> SUFFICES ASSUME NEW i \in 1..(Len(s) + Len(x)), NEW j \in 1..(i - 1), (s \o x)[j] = Enable
                 PROVE  ~Live((s \o x)[i])
      BY <1>2 DEF EnablesLast
    <2>1. CASE i <= Len(s)
      BY <1>2, <2>1 DEF Ordered, EnablesLast
    <2>2. CASE i > Len(s)
      BY <1>3, <2>2
    <2> QED BY <1>2, <2>1, <2>2
  <1> QED BY <1>1, <1>4, <1>5 DEF Ordered

-----------------------------------------------------------------------------
(* The scripts *)

LEMMA OnlyTyped ==
    ASSUME NEW S, NEW condition, NEW c \in S
    PROVE  Only(condition, c) \in Seq(S)
BY DEF Only

(* A script that ends with setting sys.usb.state announces the state. *)
LEMMA AnnouncesLast ==
    ASSUME NEW s \in Seq(Commands)
    PROVE  Announces(s \o ReportState)
  <1>1. <<Report>> \in Seq(Commands)
    BY CommandKinds DEF After
  <1>2. Len(s) \in Nat /\ DOMAIN (s \o <<Report>>) = 1..(Len(s) + 1)
        /\ (s \o <<Report>>)[Len(s) + 1] = Report
    BY <1>1, ConcatProperties, LenProperties
  <1> QED BY <1>2 DEF Announces, ReportState, Report

(* The commands that every gadget script starts with leave USB disabled. *)
LEMMA DisableFirst == Down(DisableGadget)
  <1>1. <<Disable>> \in Seq(Before) /\ DOMAIN <<Disable>> = {1} /\ <<Disable>>[1] = Disable
    BY CommandKinds
  <1>2. ~Live(Disable)
    BY CommandKinds DEF After
  <1> QED BY <1>1, <1>2 DEF Down, DisablesFirst, DisableGadget, Disable

(* A gadget is set up while USB is disabled, then enabled and announced. *)
LEMMA GadgetOrdered ==
    ASSUME NEW config \in GadgetConfigs
    PROVE  Ordered(GadgetScript(config)) /\ Announces(GadgetScript(config))
  <1> DEFINE vendor == {IF config \cap {"accessory", "audio_source"} # {} THEN "18d1" ELSE "0BB4"}
             x1 == <<Write("idVendor", vendor), Write("idProduct", {ProductOf(config)})>>
             x2 == Only("acm" \in config, Write("instances", {"1"}))
             x3 == Only(config = {"acm_third"}, Write("port_index", {"3"}))
             x4 == Only(config = {"gs3"}, Write("port_index", {"4"}))
             x5 == <<Write("functions", FunctionsWord(config))>>
             x6 == Only(ClassOf(config) # {"0"}, Write("bDeviceClass", ClassOf(config)))
             x7 == Only("bicr" \in config, Write("bicr", {"1"}))
             x8 == Only("bicr" \in config, Write("lun/file", {"/dev/block/loop0"}))
             x9 == <<Write("enable", {"1"})>>
             x10 == Only(Starts(config), Service("start"))
             down == DisableGadget \o x1 \o x2 \o x3 \o x4 \o x5 \o x6 \o x7 \o x8
  <1>1. GadgetScript(config) = down \o x9 \o x10 \o ReportState
    BY Zenon DEF GadgetScript
  <1>2. \A f \in Files \ {"enable", "idProduct", "functions"}, v \in SUBSET Numbers :
            Write(f, v) \in Before
    BY CommandKinds
  <1>3. x1 \in Seq(Before)
    <2>1. vendor \in SUBSET Numbers
      BY DEF Numbers
    <2>2. Write("idVendor", vendor) \in Before
      BY <1>2, <2>1 DEF Files
    <2>3. Write("idProduct", {ProductOf(config)}) \in Before
      BY CommandKinds
    <2> QED BY <2>2, <2>3
  <1>4. /\ x2 \in Seq(Before) /\ x3 \in Seq(Before) /\ x4 \in Seq(Before)
        /\ x7 \in Seq(Before) /\ x8 \in Seq(Before)
    <2>1. \A f \in {"instances", "port_index", "bicr", "lun/file"} :
          \A v \in {"1", "3", "4", "/dev/block/loop0"} : Write(f, {v}) \in Before
      BY <1>2 DEF Files, Numbers
    <2> QED BY <2>1, OnlyTyped
  <1>5. x5 \in Seq(Before)
    <2>1. Write("functions", FunctionsWord(config)) \in Before
      BY CommandKinds, FunctionsTyped
    <2> QED BY <2>1
  <1>6. x6 \in Seq(Before)
    <2>1. ClassOf(config) \in SUBSET Numbers
      BY ClassTyped DEF Numbers
    <2>2. Write("bDeviceClass", ClassOf(config)) \in Before
      BY <1>2, <2>1 DEF Files
    <2> QED BY <2>2, OnlyTyped
  <1>7. /\ x9 \in Seq(After) /\ x10 \in Seq(After) /\ ReportState \in Seq(After)
    <2>1. Write("enable", {"1"}) \in After /\ Service("start") \in After
          /\ SetProp("sys.usb.state", sys_usb_config) \in After
      BY CommandKinds DEF Enable, Report
    <2> QED BY <2>1, OnlyTyped DEF ReportState
  <1> HIDE DEF x1, x2, x3, x4, x5, x6, x7, x8, x9, x10
  <1>8. Down(DisableGadget \o x1 \o x2 \o x3 \o x4)
    BY <1>3, <1>4, DisableFirst, DownConcat
  <1>9. Down(down)
    BY <1>4, <1>5, <1>6, <1>8, DownConcat
  <1> HIDE DEF down
  <1>10. Ordered(down \o x9 \o x10)
    BY <1>7, <1>9, DownOrdered, OrderedConcat
  <1>11. Ordered(down \o x9 \o x10 \o ReportState)
    BY <1>7, <1>10, OrderedConcat
  <1>12. Announces(down \o x9 \o x10 \o ReportState)
    BY <1>10, AnnouncesLast DEF Ordered
  <1> QED BY <1>1, <1>11, <1>12

(* The script for none is in order and announces the state. *)
LEMMA NoneOrdered == Ordered(NoneScript) /\ Announces(NoneScript)
  <1> DEFINE x1 == <<Service("stop")>>
             x2 == <<Write("bDeviceClass", {"0"})>>
  <1>1. NoneScript = x1 \o DisableGadget \o x2 \o ReportState
    BY DEF NoneScript
  <1>3. Down(x1 \o DisableGadget)
    <2>1. x1 \in Seq(Before) /\ DisableGadget \in Seq(Before)
      BY CommandKinds DEF DisableGadget, Disable
    <2>2. Len(x1) = 1 /\ x1[1] = Service("stop")
          /\ Len(DisableGadget) = 1 /\ DisableGadget[1] = Disable
      BY DEF DisableGadget, Disable
    <2> DEFINE s == x1 \o DisableGadget
    <2>3. s \in Seq(Before) /\ DOMAIN s = 1..2 /\ s[1] = Service("stop") /\ s[2] = Disable
      <3> HIDE DEF x1
      <3>0. s \in Seq(Before) /\ Len(s) = Len(x1) + Len(DisableGadget)
        BY <2>1, ConcatProperties
      <3>1. s \in Seq(Before) /\ Len(s) = 2
        BY <2>2, <3>0
      <3>2. s[1] = x1[1] /\ s[2] = DisableGadget[1]
        BY <2>1, <2>2, <3>1, ConcatProperties
      <3> QED BY <2>2, <3>1, <3>2, LenProperties
    <2>4. ~Live(Disable)
      BY CommandKinds DEF After
    <2>5. ~Live(Service("stop"))
      BY DEF Live, Service
    <2>6. \A i \in 1..2 : i = 1 \/ i = 2
      OBVIOUS
    <2> HIDE DEF s
    <2>7. DisablesFirst(s)
      BY <2>3, <2>4, <2>5, <2>6 DEF DisablesFirst
    <2>8. Down(s)
      BY <2>3, <2>7 DEF Down
    <2> QED BY <2>8 DEF s
  <1>4. x2 \in Seq(Before)
    <2>1. Write("bDeviceClass", {"0"}) \in Before
      BY CommandKinds DEF Files, Numbers
    <2> QED BY <2>1
  <1>5. ReportState \in Seq(After)
    BY CommandKinds DEF ReportState, Report
  <1> HIDE DEF x1, x2
  <1>6. Ordered(x1 \o DisableGadget \o x2)
    BY <1>3, <1>4, DownConcat, DownOrdered
  <1>7. Ordered(x1 \o DisableGadget \o x2 \o ReportState)
    BY <1>5, <1>6, OrderedConcat
  <1>8. Announces(x1 \o DisableGadget \o x2 \o ReportState)
    BY <1>6, AnnouncesLast DEF Ordered
  <1> QED BY <1>1, <1>7, <1>8

(* The scripts that do not touch what USB is. *)
LEMMA AfterOrdered ==
    ASSUME NEW s \in Seq(After)
    PROVE  Ordered(s)
  <1>1. \A i \in DOMAIN s : ~Live(s[i])
    BY LenProperties, ElementOfSeq DEF After
  <1>2. s \in Seq(Commands)
    BY SubSeqs DEF After
  <1> QED BY <1>1, <1>2 DEF Ordered, DisablesFirst, EnablesLast

(* The scripts of the other properties write none of those files. *)
LEMMA OtherScripts ==
    /\ PersistScript \in Seq(After)
    /\ \A words : /\ ChargeModeScript(words) \in Seq(After)
                  /\ BicrModeScript(words) \in Seq(After)
                  /\ PortModeScript(words) \in Seq(After)
  <1>1. \A f \in {"cmode", "bicr", "lun/file", "portmode"} :
        \A v \in {"0", "1", "2", "/dev/block/loop0"} : Write(f, {v}) \in After
    BY CommandKinds DEF Files, Numbers, LiveFiles
  <1>2. PersistScript \in Seq(After)
    BY CommandKinds DEF PersistScript
  <1>3. ASSUME NEW words
        PROVE  /\ ChargeModeScript(words) \in Seq(After)
               /\ BicrModeScript(words) \in Seq(After)
               /\ PortModeScript(words) \in Seq(After)
    <2>1. /\ Write("cmode", {IF words = {"yes"} THEN "2" ELSE "1"}) \in After
          /\ Write("bicr", {IF words = {"yes"} THEN "1" ELSE "0"}) \in After
          /\ Write("lun/file", {IF words = {"yes"} THEN "/dev/block/loop0" ELSE "0"}) \in After
          /\ Write("portmode", {IF words = {"usb"} THEN "0" ELSE "1"}) \in After
      BY <1>1
    <2> QED BY <2>1 DEF ChargeModeScript, BicrModeScript, PortModeScript
  <1> QED BY <1>2, <1>3

(* The script for charging is in order and announces the state. *)
LEMMA ChargingOrdered == Ordered(ChargingScript) /\ Announces(ChargingScript)
  <1> DEFINE x == <<SetProp("sys.usb.charging", {"yes"})>>
  <1>1. ReportState \in Seq(After) /\ x \in Seq(After)
    BY CommandKinds DEF ReportState, Report
  <1>2. Len(ReportState) = 1 /\ ReportState[1] = Report
    BY DEF ReportState, Report
  <1> HIDE DEF x
  <1>3. /\ ReportState \o x \in Seq(After) /\ Len(ReportState \o x) = Len(ReportState) + Len(x)
        /\ Len(x) \in Nat /\ DOMAIN (ReportState \o x) = 1..Len(ReportState \o x)
    BY <1>1, ConcatProperties, LenProperties
  <1>4. 1 \in DOMAIN (ReportState \o x)
    BY <1>2, <1>3
  <1>5. (ReportState \o x)[1] = Report
    BY <1>1, <1>2, <1>3, ConcatProperties
  <1>6. ChargingScript = ReportState \o x
    BY DEF ChargingScript, x
  <1> QED BY <1>3, <1>4, <1>5, <1>6, AfterOrdered DEF Announces

(* Which script runs for each value of sys.usb.config. *)
LEMMA ConfigScriptOf ==
    ASSUME NEW words \in AllConfigs \cup {{"none"}}
    PROVE  /\ words = {"none"} => ConfigScript(words) = NoneScript
           /\ words = {"charging"} => ConfigScript(words) = ChargingScript
           /\ words \in GadgetConfigs => ConfigScript(words) = GadgetScript(words)
           /\ words \in {{"none"}, {"charging"}} \cup GadgetConfigs
  <1>1. {"none"} # {"charging"} /\ {"none"} \notin GadgetConfigs /\ {"charging"} \notin GadgetConfigs
    BY Vocabulary
  <1>2. /\ words = {"none"} => words # {"charging"} /\ words \notin GadgetConfigs
        /\ words = {"charging"} => words # {"none"} /\ words \notin GadgetConfigs
        /\ words \in GadgetConfigs => words # {"none"} /\ words # {"charging"}
    BY <1>1
  <1>3. /\ words = {"none"} => ConfigScript(words) = NoneScript
        /\ words = {"charging"} => ConfigScript(words) = ChargingScript
        /\ words \in GadgetConfigs => ConfigScript(words) = GadgetScript(words)
    BY <1>2, Zenon DEF ConfigScript
  <1> QED BY <1>3 DEF AllConfigs

(* Which script runs for each property. *)
LEMMA ScriptOf ==
    ASSUME NEW t
    PROVE  /\ t[1] = "persist.sys.usb.config" => Script(t) = PersistScript
           /\ t[1] = "sys.usb.config" => Script(t) = ConfigScript(t[2])
           /\ t[1] = "sys.usb.charging" => Script(t) = ChargeModeScript(t[2])
           /\ t[1] = "sys.usb.bicr" => Script(t) = BicrModeScript(t[2])
           /\ t[1] = "mediatek.usb.port.mode" => Script(t) = PortModeScript(t[2])
BY Zenon DEF Script

(* Every script changes what USB is while it is disabled, and those of     *)
(* sys.usb.config announce the state.                                      *)
LEMMA ScriptsOrdered ==
    ASSUME NEW t \in Triggers
    PROVE  /\ Ordered(Script(t))
           /\ t[1] = "sys.usb.config" => Announces(Script(t))
  <1>1. CASE t[1] = "sys.usb.config"
    <2>1. t[2] \in AllConfigs \cup {{"none"}}
      BY <1>1 DEF Triggers
    <2>2. Ordered(ConfigScript(t[2])) /\ Announces(ConfigScript(t[2]))
      BY <2>1, ConfigScriptOf, NoneOrdered, ChargingOrdered, GadgetOrdered
    <2> QED BY <1>1, <2>2, ScriptOf
  <1>2. CASE t[1] \in {"persist.sys.usb.config", "sys.usb.charging", "sys.usb.bicr",
                       "mediatek.usb.port.mode"}
    <2>1. Script(t) \in Seq(After)
      BY <1>2, ScriptOf, OtherScripts
    <2> QED BY <1>2, <2>1, AfterOrdered
  <1>3. t[1] \in {"sys.usb.config", "persist.sys.usb.config", "sys.usb.charging", "sys.usb.bicr",
                  "mediatek.usb.port.mode"}
    BY DEF Triggers
  <1> QED BY <1>1, <1>2, <1>3

-----------------------------------------------------------------------------
(* The inductive invariant *)

PropTypes ==
    /\ props \in [Properties -> SUBSET Words]
    /\ props["sys.usb.config"] \in AllConfigs \cup {{}, {"none"}}
    /\ props["persist.sys.usb.config"] \in Persistent

FileTypes ==
    /\ DOMAIN file = Files
    /\ \A f \in Files \ {"idProduct", "functions"} : file[f] \subseteq Numbers
    /\ file["functions"] \subseteq Words

ClientTypes ==
    /\ client \in [phase : Phases, target : Configs \cup {{}}]
    /\ client.phase # "idle" => client.target \in Configs

(* What is left of a script is typed and in order: while USB is enabled,   *)
(* it disables USB before it changes anything else.                        *)
CurOrdered ==
    /\ cur \in Seq(Commands)
    /\ EnablesLast(cur)
    /\ Enabled => DisablesFirst(cur)

(* The last setting is announced, or a script that will do so is running   *)
(* or waits: whatever value it was queued for, it announces the last one.  *)
ConfigWaits == \E i \in DOMAIN queue : queue[i][1] = "sys.usb.config"
Settling ==
    props["sys.usb.config"] # {} =>
        \/ props["sys.usb.state"] = props["sys.usb.config"]
        \/ Announces(cur)
        \/ ConfigWaits

UsbInv ==
    /\ PropTypes /\ FileTypes /\ ClientTypes /\ adbd \in BOOLEAN
    /\ queue \in Seq(Triggers)
    /\ CurOrdered
    /\ Settling

(* What init puts for a property that a command names. *)
LEMMA Expanded ==
    ASSUME NEW words
    PROVE  /\ words = sys_usb_config => Expand(words) = props["sys.usb.config"]
           /\ words = {"$persist.sys.usb.config"} => Expand(words) = props["persist.sys.usb.config"]
           /\ words # sys_usb_config /\ words # {"$persist.sys.usb.config"} => Expand(words) = words
           /\ words \in (SUBSET Numbers) \cup {{"yes"}} => Expand(words) = words
  <1>1. {"$persist.sys.usb.config"} # sys_usb_config
    BY DEF sys_usb_config
  <1>2. words \in (SUBSET Numbers) \cup {{"yes"}} =>
            words # sys_usb_config /\ words # {"$persist.sys.usb.config"}
    BY DEF Numbers, sys_usb_config
  <1>3. words # sys_usb_config /\ words # {"$persist.sys.usb.config"} => Expand(words) = words
    BY Zenon DEF Expand
  <1>4. words = sys_usb_config => Expand(words) = props["sys.usb.config"]
    BY <1>1, Zenon DEF Expand
  <1>5. words = {"$persist.sys.usb.config"} => Expand(words) = props["persist.sys.usb.config"]
    BY <1>1, Zenon DEF Expand
  <1> QED BY <1>2, <1>3, <1>4, <1>5

(* No script runs at boot and USB is disabled. *)
LEMMA UsbInit == Init => UsbInv
  <1> SUFFICES ASSUME Init PROVE UsbInv
    OBVIOUS
  <1>1. PICK config \in Persistent :
            props = [p \in Properties |-> IF p = "persist.sys.usb.config" THEN config ELSE {}]
    BY DEF Init
  <1>2. config \in AllConfigs
    BY ConfigsAssumption
  <1>3. PropTypes
    BY <1>1, <1>2, Vocabulary DEF PropTypes, Properties
  <1>4. FileTypes /\ file["enable"] = {"0"}
    <2> DEFINE v(f) == CASE f = "enable" -> {"0"} [] f = "bDeviceClass" -> {"0"}
                         [] f = "idVendor" -> {"0BB4"} [] OTHER -> {}
    <2>1. \A f : v(f) \in {{}, {"0"}, {"0BB4"}}
      BY Zenon
    <2>2. v("enable") = {"0"} /\ v("functions") = {}
      BY Zenon
    <2>3. file = [f \in Files |-> v(f)]
      BY Zenon DEF Init
    <2> HIDE DEF v
    <2> QED BY <2>1, <2>2, <2>3 DEF FileTypes, Files, Numbers
  <1>5. cur = <<>> /\ queue = <<<<"persist.sys.usb.config", {"*"}>>>>
        /\ client = [phase |-> "idle", target |-> {}] /\ adbd \in BOOLEAN
    BY DEF Init, adbdAtBoot
  <1>6. queue \in Seq(Triggers)
    BY <1>5 DEF Triggers
  <1>7. CurOrdered
    BY <1>5 DEF CurOrdered, EnablesLast, DisablesFirst
  <1>8. Settling
    BY <1>1 DEF Settling, Properties
  <1> QED BY <1>3, <1>4, <1>5, <1>6, <1>7, <1>8 DEF UsbInv, ClientTypes, Phases

(* property_set queues the script of the new value if none waits. *)
LEMMA PropertySetEffect ==
    ASSUME queue \in Seq(Triggers), NEW p \in Properties, NEW words, property_set(p, words),
           HasScript(p, words) => TriggerOf(p, words) \in Triggers
    PROVE  /\ props' = [props EXCEPT ![p] = words]
           /\ queue' \in Seq(Triggers)
           /\ \A t : (\E i \in DOMAIN queue : queue[i] = t) => \E i \in DOMAIN queue' : queue'[i] = t
           /\ HasScript(p, words) => \E i \in DOMAIN queue' : queue'[i] = TriggerOf(p, words)
           /\ queue' # queue => HasScript(p, words)
  <1> DEFINE t == TriggerOf(p, words)
  <1>1. /\ props' = [props EXCEPT ![p] = words]
        /\ queue' = IF HasScript(p, words) /\ t \notin {queue[i] : i \in DOMAIN queue}
                    THEN Append(queue, t) ELSE queue
    BY DEF property_set
  <1> HIDE DEF t
  <1>2. CASE HasScript(p, words) /\ t \notin {queue[i] : i \in DOMAIN queue}
    <2>1. queue' = Append(queue, t) /\ t \in Triggers
      BY <1>1, <1>2 DEF t
    <2>2. /\ queue' \in Seq(Triggers) /\ Len(queue) \in Nat
          /\ DOMAIN queue = 1..Len(queue) /\ DOMAIN queue' = 1..(Len(queue) + 1)
          /\ queue'[Len(queue) + 1] = t
          /\ \A i \in 1..Len(queue) : queue'[i] = queue[i]
      BY <2>1, AppendProperties, LenProperties
    <2> QED BY <1>1, <1>2, <2>2 DEF t
  <1>3. CASE ~(HasScript(p, words) /\ t \notin {queue[i] : i \in DOMAIN queue})
    BY <1>1, <1>3 DEF t
  <1> QED BY <1>2, <1>3

(* A command that is done leaves the rest in order. *)
LEMMA TailOrdered ==
    ASSUME CurOrdered, cur # <<>>, cur' = Tail(cur)
    PROVE  /\ Head(cur) \in Commands
           /\ cur' \in Seq(Commands) /\ EnablesLast(cur')
           /\ DisablesFirst(cur) /\ Head(cur) # Disable => DisablesFirst(cur')
           /\ DisablesFirst(cur) => ~Live(Head(cur))
           /\ Head(cur) = Enable => DisablesFirst(cur')
           /\ Announces(cur) /\ Head(cur) # Report => Announces(cur')
  <1>1. /\ cur \in Seq(Commands) /\ Tail(cur) \in Seq(Commands) /\ Len(cur) \in Nat \ {0}
        /\ DOMAIN cur = 1..Len(cur) /\ Len(Tail(cur)) = Len(cur) - 1
        /\ DOMAIN Tail(cur) = 1..(Len(cur) - 1)
        /\ Head(cur) = cur[1] /\ cur[1] \in Commands
        /\ \A i \in 1..(Len(cur) - 1) : cur'[i] = cur[i + 1]
    BY HeadTailProperties, LenProperties, ElementOfSeq, EmptySeq DEF CurOrdered
  <1>2. EnablesLast(cur')
    BY <1>1 DEF CurOrdered, EnablesLast
  <1>3. ASSUME DisablesFirst(cur), Head(cur) # Disable
        PROVE  DisablesFirst(cur')
    <2> SUFFICES ASSUME NEW i \in 1..(Len(cur) - 1), Live(cur'[i])
                 PROVE  \E j \in 1..(i - 1) : cur'[j] = Disable
      BY <1>1 DEF DisablesFirst
    <2>1. i + 1 \in 1..Len(cur) /\ Live(cur[i + 1])
      BY <1>1
    <2>2. PICK k \in 1..i : cur[k] = Disable
      BY <1>1, <1>3, <2>1 DEF DisablesFirst
    <2>3. k # 1
      BY <1>1, <1>3, <2>2
    <2>4. k - 1 \in 1..(i - 1) /\ cur'[k - 1] = cur[k]
      BY <1>1, <2>2, <2>3
    <2> QED BY <2>2, <2>4
  <1>4. DisablesFirst(cur) => ~Live(Head(cur))
    BY <1>1 DEF DisablesFirst
  <1>5. ASSUME Head(cur) = Enable PROVE DisablesFirst(cur')
    BY <1>1, <1>5 DEF CurOrdered, EnablesLast, DisablesFirst
  <1>6. ASSUME Announces(cur), Head(cur) # Report PROVE Announces(cur')
    <2>1. PICK i \in 1..Len(cur) : cur[i] = Report
      BY <1>1, <1>6 DEF Announces
    <2>2. i - 1 \in 1..(Len(cur) - 1) /\ cur'[i - 1] = Report
      BY <1>1, <1>6, <2>1
    <2> QED BY <1>1, <2>2 DEF Announces
  <1> QED BY <1>1, <1>2, <1>3, <1>4, <1>5, <1>6

(* What a command of the scripts can be, by its kind. *)
LEMMA RunKinds ==
    ASSUME NEW c \in Commands
    PROVE  /\ c.do = "write" =>
                /\ c = Disable \/ c = Enable \/ (c # Disable /\ c # Enable /\ c.name # "enable")
                /\ c # Report /\ c.name \in Files
                /\ c.name \notin {"idProduct", "functions"} => c.value \in SUBSET Numbers
                /\ c.name = "functions" => c.value \in (SUBSET Words) \cup {sys_usb_config}
           /\ c.do \in {"start", "stop"} => c # Report /\ c # Disable
           /\ c.do = "setprop" =>
                /\ c # Disable
                /\ \/ c = Report
                   \/ c = SetProp("sys.usb.charging", {"yes"}) /\ c # Report
                   \/ c = SetProp("sys.usb.config", {"$persist.sys.usb.config"}) /\ c # Report
  <1>1. /\ Disable = [do |-> "write", name |-> "enable", value |-> {"0"}]
        /\ Enable = [do |-> "write", name |-> "enable", value |-> {"1"}]
        /\ Report = [do |-> "setprop", name |-> "sys.usb.state", value |-> sys_usb_config]
    BY DEF Disable, Enable, Report, Write, SetProp
  <1>2. {"0"} \in SUBSET Numbers /\ {"1"} \in SUBSET Numbers
    BY DEF Numbers
  <1>3. CASE c \in {Disable, Enable}
    BY <1>1, <1>2, <1>3 DEF Files
  <1>4. CASE c \in {Service("start"), Service("stop")}
    BY <1>1, <1>4 DEF Service
  <1>5. CASE c \in {Report, SetProp("sys.usb.charging", {"yes"}),
                    SetProp("sys.usb.config", {"$persist.sys.usb.config"})}
    BY <1>1, <1>5 DEF SetProp
  <1>6. CASE c \in [do : {"write"}, name : Files \ {"enable", "idProduct", "functions"},
                    value : SUBSET Numbers]
    BY <1>1, <1>6
  <1>7. CASE c \in [do : {"write"}, name : {"functions"}, value : (SUBSET Words) \cup {sys_usb_config}]
    BY <1>1, <1>7 DEF Files
  <1>8. CASE \E config \in GadgetConfigs : c = Write("idProduct", {ProductOf(config)})
    BY <1>1, <1>8 DEF Write, Files
  <1> QED BY <1>3, <1>4, <1>5, <1>6, <1>7, <1>8 DEF Commands

-----------------------------------------------------------------------------
(* The steps of init *)

LEMMA NextScriptInv ==
    ASSUME UsbInv, NextScript
    PROVE  UsbInv'
  <1>1. /\ cur = <<>> /\ queue # <<>> /\ cur' = Script(Head(queue)) /\ queue' = Tail(queue)
        /\ UNCHANGED <<props, file, adbd, client>>
    BY DEF NextScript
  <1>2. queue \in Seq(Triggers)
    BY DEF UsbInv
  <1>3. /\ Head(queue) \in Triggers /\ queue' \in Seq(Triggers)
        /\ Len(queue) \in Nat \ {0} /\ DOMAIN queue = 1..Len(queue)
        /\ DOMAIN queue' = 1..(Len(queue) - 1) /\ Head(queue) = queue[1]
        /\ \A i \in 1..(Len(queue) - 1) : queue'[i] = queue[i + 1]
    BY <1>1, <1>2, HeadTailProperties, LenProperties, ElementOfSeq, EmptySeq
  <1>4. Ordered(cur') /\ (queue[1][1] = "sys.usb.config" => Announces(cur'))
    BY <1>1, <1>3, ScriptsOrdered
  <1>5. CurOrdered'
    BY <1>4 DEF CurOrdered, Ordered
  <1>6. ~Announces(cur)
    BY <1>1 DEF Announces
  <1>7. ConfigWaits => ConfigWaits' \/ queue[1][1] = "sys.usb.config"
    <2> SUFFICES ASSUME NEW i \in 1..Len(queue), queue[i][1] = "sys.usb.config", i # 1
                 PROVE  \E j \in 1..(Len(queue) - 1) : queue'[j][1] = "sys.usb.config"
      BY <1>3 DEF ConfigWaits
    <2>1. i - 1 \in 1..(Len(queue) - 1) /\ queue'[i - 1] = queue[i]
      BY <1>3
    <2> QED BY <2>1
  <1>8. Settling'
    BY <1>1, <1>4, <1>6, <1>7 DEF UsbInv, Settling
  <1> QED BY <1>1, <1>3, <1>5, <1>8 DEF UsbInv, PropTypes, FileTypes, ClientTypes

(* Writing a file keeps UsbInv: the ids, functions and class of an  *)
(* enabled gadget are not written before USB is disabled.           *)
LEMMA RunWriteInv ==
    ASSUME UsbInv, RunWrite
    PROVE  UsbInv'
  <1> DEFINE c == Head(cur)
  <1>1. /\ cur # <<>> /\ c.do = "write" /\ cur' = Tail(cur)
        /\ file' = [file EXCEPT ![c.name] = Expand(c.value)]
        /\ UNCHANGED <<props, adbd, queue, client>>
    BY DEF RunWrite
  <1>2. CurOrdered /\ c \in Commands
    BY <1>1, TailOrdered DEF UsbInv
  <1>3. /\ c = Disable \/ c = Enable \/ (c # Disable /\ c # Enable /\ c.name # "enable")
        /\ c # Report /\ c.name \in Files
        /\ c.name \notin {"idProduct", "functions"} => c.value \in SUBSET Numbers
        /\ c.name = "functions" => c.value \in (SUBSET Words) \cup {sys_usb_config}
    BY <1>1, <1>2, RunKinds
  <1> HIDE DEF c
  <1>4. c.name \notin {"idProduct", "functions"} => Expand(c.value) \subseteq Numbers
    BY <1>3, Expanded
  <1>5. c.name = "functions" => Expand(c.value) \subseteq Words
    <2>1. props["sys.usb.config"] \subseteq Words /\ props["persist.sys.usb.config"] \subseteq Words
      BY DEF UsbInv, PropTypes, Properties
    <2> QED BY <1>3, <2>1, Expanded
  <1>6. /\ DOMAIN file = Files /\ DOMAIN file' = Files
        /\ file'[c.name] = Expand(c.value)
        /\ \A f \in Files : f # c.name => file'[f] = file[f]
    BY <1>1, <1>3 DEF UsbInv, FileTypes
  <1>7. FileTypes'
    <2>1. /\ \A f \in Files \ {"idProduct", "functions"} : file[f] \subseteq Numbers
          /\ file["functions"] \subseteq Words
      BY DEF UsbInv, FileTypes
    <2>2. ASSUME NEW f \in Files \ {"idProduct", "functions"} PROVE file'[f] \subseteq Numbers
      BY <1>4, <1>6, <2>1
    <2>3. file'["functions"] \subseteq Words
      BY <1>5, <1>6, <2>1 DEF Files
    <2> QED BY <1>6, <2>2, <2>3 DEF FileTypes
  <1>8. CurOrdered'
    <2>1. cur' \in Seq(Commands) /\ EnablesLast(cur')
      BY <1>1, <1>2, TailOrdered
    <2>2. CASE c = Disable
      <3>1. c.name = "enable" /\ c.value = {"0"}
        BY <2>2 DEF Disable, Write
      <3>2. Expand(c.value) = {"0"}
        BY <3>1, Expanded DEF Numbers
      <3>3. ~Enabled'
        BY <1>6, <3>1, <3>2 DEF Enabled
      <3> QED BY <2>1, <3>3 DEF CurOrdered
    <2>3. CASE c = Enable
      <3>1. DisablesFirst(cur')
        BY <1>1, <1>2, <2>3, TailOrdered DEF c
      <3> QED BY <2>1, <3>1 DEF CurOrdered
    <2>4. CASE c # Disable /\ c # Enable /\ c.name # "enable"
      <3>1. Enabled' = Enabled
        BY <1>6, <2>4 DEF Enabled, Files
      <3>2. DisablesFirst(cur) => DisablesFirst(cur')
        BY <1>1, <1>2, <2>4, TailOrdered DEF c
      <3> QED BY <1>2, <2>1, <3>1, <3>2 DEF CurOrdered
    <2> QED BY <1>3, <2>2, <2>3, <2>4
  <1>9. Settling'
    <2>1. Announces(cur) => Announces(cur')
      BY <1>1, <1>2, <1>3, TailOrdered DEF c
    <2> QED BY <1>1, <2>1 DEF UsbInv, Settling, ConfigWaits
  <1> QED BY <1>1, <1>7, <1>8, <1>9 DEF UsbInv, PropTypes, ClientTypes

(* Starting or stopping adbd keeps UsbInv. *)
LEMMA RunServiceInv ==
    ASSUME UsbInv, RunService
    PROVE  UsbInv'
  <1> DEFINE c == Head(cur)
  <1>1. /\ cur # <<>> /\ c.do \in {"start", "stop"} /\ cur' = Tail(cur)
        /\ adbd' = (c.do = "start")
        /\ UNCHANGED <<props, file, queue, client>>
    BY DEF RunService
  <1>2. CurOrdered /\ c \in Commands
    BY <1>1, TailOrdered DEF UsbInv
  <1>3. c # Report /\ c # Disable
    BY <1>1, <1>2, RunKinds
  <1>4. CurOrdered'
    BY <1>1, <1>2, <1>3, TailOrdered DEF CurOrdered, Enabled
  <1>5. Announces(cur) => Announces(cur')
    BY <1>1, <1>2, <1>3, TailOrdered
  <1>6. Settling'
    BY <1>1, <1>5 DEF UsbInv, Settling, ConfigWaits
  <1>7. adbd' \in BOOLEAN
    BY <1>1
  <1> QED BY <1>1, <1>4, <1>6, <1>7 DEF UsbInv, PropTypes, FileTypes, ClientTypes

(* A setting of sys.usb.config has its script in the queue. *)
LEMMA ConfigSet ==
    ASSUME UsbInv, NEW words \in AllConfigs \cup {{"none"}}, property_set("sys.usb.config", words)
    PROVE  PropTypes' /\ queue' \in Seq(Triggers) /\ ConfigWaits'
  <1> DEFINE p == "sys.usb.config"
  <1>1. /\ p \in Properties /\ HasScript(p, words) /\ TriggerOf(p, words) = <<p, words>>
    BY DEF Properties, HasScript, TriggerOf
  <1>2. <<p, words>> \in Triggers
    BY DEF Triggers
  <1>3. /\ props' = [props EXCEPT ![p] = words]
        /\ queue' \in Seq(Triggers)
        /\ \E i \in DOMAIN queue' : queue'[i] = <<p, words>>
    BY <1>1, <1>2, PropertySetEffect DEF UsbInv
  <1>4. words \subseteq Words
    BY Vocabulary
  <1>5. PropTypes'
    BY <1>3, <1>4 DEF UsbInv, PropTypes, Properties
  <1>6. <<p, words>>[1] = "sys.usb.config"
    OBVIOUS
  <1> QED BY <1>3, <1>5, <1>6 DEF ConfigWaits

(* A setting of another property keeps the settled state. *)
LEMMA OtherSet ==
    ASSUME UsbInv, NEW p \in Properties \ {"sys.usb.config", "sys.usb.state"}, NEW words,
           property_set(p, words), TriggerOf(p, words) \in Triggers, words \subseteq Words,
           p = "persist.sys.usb.config" => words \in Persistent
    PROVE  /\ PropTypes' /\ queue' \in Seq(Triggers)
           /\ ConfigWaits => ConfigWaits'
           /\ props'["sys.usb.config"] = props["sys.usb.config"]
           /\ props'["sys.usb.state"] = props["sys.usb.state"]
  <1>1. /\ props' = [props EXCEPT ![p] = words]
        /\ queue' \in Seq(Triggers)
        /\ \A t : (\E i \in DOMAIN queue : queue[i] = t) => \E i \in DOMAIN queue' : queue'[i] = t
    BY PropertySetEffect DEF UsbInv
  <1>2. ConfigWaits => ConfigWaits'
    BY <1>1 DEF ConfigWaits
  <1>3. PropTypes'
    BY <1>1 DEF UsbInv, PropTypes, Properties
  <1>4. /\ props'["sys.usb.config"] = props["sys.usb.config"]
        /\ props'["sys.usb.state"] = props["sys.usb.state"]
    BY <1>1 DEF UsbInv, PropTypes, Properties
  <1> QED BY <1>1, <1>2, <1>3, <1>4

(* Setting a property keeps UsbInv: the script it sets off waits behind *)
(* the running one.                                                     *)
LEMMA RunSetPropInv ==
    ASSUME UsbInv, RunSetProp
    PROVE  UsbInv'
  <1> DEFINE c == Head(cur)
  <1>1. /\ cur # <<>> /\ c.do = "setprop" /\ cur' = Tail(cur)
        /\ property_set(c.name, Expand(c.value))
        /\ UNCHANGED <<file, adbd, client>>
    BY DEF RunSetProp
  <1>2. CurOrdered /\ c \in Commands
    BY <1>1, TailOrdered DEF UsbInv
  <1>3. /\ c # Disable
        /\ \/ c = Report
           \/ c = SetProp("sys.usb.charging", {"yes"}) /\ c # Report
           \/ c = SetProp("sys.usb.config", {"$persist.sys.usb.config"}) /\ c # Report
    BY <1>1, <1>2, RunKinds
  <1>4. CurOrdered'
    BY <1>1, <1>2, <1>3, TailOrdered DEF CurOrdered, Enabled
  <1>5. c # Report /\ Announces(cur) => Announces(cur')
    BY <1>1, <1>2, <1>3, TailOrdered
  <1>6. PropTypes' /\ queue' \in Seq(Triggers) /\ Settling'
    <2> HIDE DEF c
    <2>1. CASE c = Report
      <3>1. c.name = "sys.usb.state" /\ Expand(c.value) = props["sys.usb.config"]
        BY <2>1, Expanded DEF Report, SetProp
      <3>2. ~HasScript(c.name, Expand(c.value)) /\ c.name \in Properties
        BY <3>1 DEF HasScript, Properties
      <3>3. /\ props' = [props EXCEPT !["sys.usb.state"] = props["sys.usb.config"]]
            /\ queue' \in Seq(Triggers)
        BY <1>1, <3>1, <3>2, PropertySetEffect DEF UsbInv
      <3>4. /\ PropTypes' /\ props'["sys.usb.state"] = props["sys.usb.config"]
            /\ props'["sys.usb.config"] = props["sys.usb.config"]
        BY <3>3 DEF UsbInv, PropTypes, Properties
      <3> QED BY <3>3, <3>4 DEF Settling
    <2>2. CASE c = SetProp("sys.usb.charging", {"yes"}) /\ c # Report
      <3>1. c.name = "sys.usb.charging" /\ Expand(c.value) = {"yes"}
        BY <2>2, Expanded DEF SetProp
      <3>2. TriggerOf(c.name, Expand(c.value)) \in Triggers /\ {"yes"} \subseteq Words
        BY <3>1, Vocabulary DEF TriggerOf, Triggers
      <3>3. /\ PropTypes' /\ queue' \in Seq(Triggers)
            /\ ConfigWaits => ConfigWaits'
            /\ props'["sys.usb.config"] = props["sys.usb.config"]
            /\ props'["sys.usb.state"] = props["sys.usb.state"]
        BY <1>1, <3>1, <3>2, OtherSet DEF Properties
      <3> QED BY <1>5, <2>2, <3>3 DEF UsbInv, Settling
    <2>3. CASE c = SetProp("sys.usb.config", {"$persist.sys.usb.config"}) /\ c # Report
      <3>1. c.name = "sys.usb.config" /\ Expand(c.value) = props["persist.sys.usb.config"]
        BY <2>3, Expanded DEF SetProp
      <3>2. Expand(c.value) \in AllConfigs
        BY <3>1, ConfigsAssumption DEF UsbInv, PropTypes
      <3> QED BY <1>1, <3>1, <3>2, ConfigSet DEF Settling
    <2> QED BY <1>3, <2>1, <2>2, <2>3
  <1> QED BY <1>1, <1>4, <1>6 DEF UsbInv, FileTypes, ClientTypes

-----------------------------------------------------------------------------
(* The steps of the framework *)

LEMMA FrameworkInv ==
    ASSUME UsbInv,
           \/ Switching
           \/ \E config \in Configs : StartSwitch(config)
           \/ \E other \in Others : SetOther(other[1], other[2])
    PROVE  UsbInv'
  <1>1. ASSUME UNCHANGED <<file, adbd, cur>>, ClientTypes', PropTypes', queue' \in Seq(Triggers),
               \/ ConfigWaits'
               \/ /\ ConfigWaits => ConfigWaits'
                  /\ props'["sys.usb.config"] = props["sys.usb.config"]
                  /\ props'["sys.usb.state"] = props["sys.usb.state"]
        PROVE  UsbInv'
    <2>1. FileTypes' /\ CurOrdered'
      BY <1>1 DEF UsbInv, FileTypes, CurOrdered, Enabled
    <2>2. Settling'
      BY <1>1 DEF UsbInv, Settling
    <2> QED BY <1>1, <2>1, <2>2 DEF UsbInv
  <1>2. ASSUME NEW config \in Configs, StartSwitch(config) PROVE UsbInv'
    <2>1. /\ property_set("sys.usb.config", {"none"})
          /\ client' = [phase |-> "disabling", target |-> config]
          /\ UNCHANGED <<file, adbd, cur>>
      BY <1>2 DEF StartSwitch
    <2>2. ClientTypes'
      BY <2>1 DEF ClientTypes, Phases
    <2> QED BY <1>1, <2>1, <2>2, ConfigSet
  <1>3. ASSUME NEW p \in {"sys.usb.config", "persist.sys.usb.config"}, AskFor(p) PROVE UsbInv'
    <2>1. /\ client.phase = "disabling"
          /\ p = "persist.sys.usb.config" => client.target \in Persistent
          /\ property_set(p, client.target)
          /\ client' = [client EXCEPT !.phase = "enabling"]
          /\ UNCHANGED <<file, adbd, cur>>
      BY <1>3 DEF AskFor
    <2>2. client.target \in Configs /\ client.target \in AllConfigs /\ client.target \subseteq Words
      BY <2>1, ConfigsAssumption, Vocabulary DEF UsbInv, ClientTypes
    <2>3. ClientTypes'
      BY <2>1, <2>2 DEF UsbInv, ClientTypes, Phases
    <2>4. CASE p = "sys.usb.config"
      BY <1>1, <2>1, <2>2, <2>3, <2>4, ConfigSet
    <2>5. CASE p = "persist.sys.usb.config"
      <3>1. TriggerOf(p, client.target) \in Triggers
        BY <2>5 DEF TriggerOf, Triggers
      <3>2. p \in Properties \ {"sys.usb.config", "sys.usb.state"}
        BY <2>5 DEF Properties
      <3> QED BY <1>1, <2>1, <2>2, <2>3, <3>1, <3>2, OtherSet
    <2> QED BY <2>4, <2>5
  <1>4. ASSUME FinishSwitch PROVE UsbInv'
    <2>1. client' = [client EXCEPT !.phase = "idle"] /\ UNCHANGED <<props, file, adbd, queue, cur>>
      BY <1>4 DEF FinishSwitch
    <2>2. ClientTypes'
      BY <2>1 DEF UsbInv, ClientTypes, Phases
    <2>3. PropTypes' /\ queue' \in Seq(Triggers) /\ (ConfigWaits => ConfigWaits')
      BY <2>1 DEF UsbInv, PropTypes, ConfigWaits
    <2> QED BY <1>1, <2>1, <2>2, <2>3
  <1>5. ASSUME NEW other \in Others, SetOther(other[1], other[2]) PROVE UsbInv'
    <2>1. property_set(other[1], other[2]) /\ UNCHANGED <<file, adbd, cur, client>>
      BY <1>5 DEF SetOther
    <2>2. /\ other[1] \in {"sys.usb.charging", "sys.usb.bicr", "mediatek.usb.port.mode"}
          /\ other[2] \in {{"yes"}, {"no"}, {"usb"}, {"uart"}}
          /\ <<other[1], other[2]>> \in Triggers
      BY OthersAssumption DEF Triggers
    <2>3. TriggerOf(other[1], other[2]) \in Triggers
      BY <2>2 DEF TriggerOf
    <2>4. other[2] \subseteq Words
      BY <2>2, Vocabulary
    <2>5. ClientTypes'
      BY <2>1 DEF UsbInv, ClientTypes
    <2>6. other[1] \in Properties \ {"sys.usb.config", "sys.usb.state"} /\ other[1] # "persist.sys.usb.config"
      BY <2>2 DEF Properties
    <2> QED BY <1>1, <2>1, <2>3, <2>4, <2>5, <2>6, OtherSet
  <1> QED BY <1>2, <1>3, <1>4, <1>5 DEF Switching

(* Every step of init and the framework keeps UsbInv. *)
LEMMA UsbNext == UsbInv /\ [Next]_vars => UsbInv'
  <1> SUFFICES ASSUME UsbInv, [Next]_vars PROVE UsbInv'
    OBVIOUS
  <1>1. CASE init
    BY <1>1, NextScriptInv, RunWriteInv, RunServiceInv, RunSetPropInv DEF init
  <1>2. CASE \/ Switching
             \/ \E config \in Configs : StartSwitch(config)
             \/ \E other \in Others : SetOther(other[1], other[2])
    BY <1>2, FrameworkInv
  <1>3. CASE UNCHANGED vars
    BY <1>3 DEF vars, UsbInv, PropTypes, FileTypes, ClientTypes, CurOrdered, Settling, ConfigWaits,
                Enabled
  <1> QED BY <1>1, <1>2, <1>3 DEF Next

(* UsbInv is an invariant, for a framework that waits or does not and any *)
(* other settings.                                                        *)
THEOREM UsbInvariance == Spec => []UsbInv
BY UsbInit, UsbNext, PTL DEF Spec

(* Properties and files hold what the scripts write. *)
THEOREM TypeCorrect == Spec => []TypeOK
  <1>1. UsbInv => TypeOK
    BY DEF UsbInv, PropTypes, FileTypes, ClientTypes, TypeOK
  <1> QED BY <1>1, UsbInvariance, PTL

(* However settings overtake each other, the last one is announced.        *)
THEOREM LastSettingAnnounced == Spec => []StateSettles
  <1>1. UsbInv => StateSettles
    BY DEF UsbInv, Settling, ConfigWaits, Announces, StateSettles
  <1> QED BY <1>1, UsbInvariance, PTL

(* No script changes the ids, the functions or the class of a gadget that  *)
(* is and stays enabled.                                                   *)
THEOREM NoChangeWhileEnabled == Spec => NoLiveReconfiguration
  <1> DEFINE Kept == Enabled /\ Enabled' =>
                \A f \in {"idVendor", "idProduct", "functions", "bDeviceClass"} : file'[f] = file[f]
  <1>1. UsbInv /\ [Next]_vars => [Kept]_vars
    <2> SUFFICES ASSUME UsbInv, Next, Enabled PROVE Kept
      BY DEF vars
    <2>1. CASE RunWrite
      <3>1. /\ cur # <<>> /\ Head(cur).do = "write" /\ cur' = Tail(cur)
            /\ file' = [file EXCEPT ![Head(cur).name] = Expand(Head(cur).value)]
        BY <2>1 DEF RunWrite
      <3>2. CurOrdered /\ DisablesFirst(cur) /\ DOMAIN file = Files
        BY DEF UsbInv, CurOrdered, FileTypes
      <3>3. ~Live(Head(cur))
        BY <3>1, <3>2, TailOrdered
      <3> QED BY <3>1, <3>2, <3>3 DEF Live, LiveFiles, Files
    <2>2. CASE ~RunWrite
      <3>1. UNCHANGED file
        BY <2>2 DEF Next, init, Switching, NextScript, RunService, RunSetProp, AskFor, FinishSwitch,
                    StartSwitch, SetOther
      <3> QED BY <3>1
    <2> QED BY <2>1, <2>2
  <1> QED BY <1>1, UsbInvariance, PTL DEF Spec, NoLiveReconfiguration

=============================================================================
