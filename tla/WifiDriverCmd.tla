--------------------------- MODULE WifiDriverCmd ----------------------------
(***************************************************************************)
(* The private driver commands of wpa_supplicant and hostapd,              *)
(* wpa_supplicant_8_lib/mediatek_driver_cmd_nl80211.c.  Features are the   *)
(* parts that the build variables of Android.mk add; hotspot management is *)
(* always built.                                                           *)
(*                                                                         *)
(* wpa_supplicant has the interface wlan0 and hostapd ap0; each runs its   *)
(* commands one after the other, and both meet in the kernel driver.       *)
(*                                                                         *)
(* External, modelled from how the commands use them: the kernel driver,   *)
(* which may refuse any request, the association events that keep          *)
(* drv->associated up to date some time later, wpa_drv_deauthenticate and  *)
(* the list of wpa_supplicant's interfaces.                                *)
(***************************************************************************)
EXTENDS Integers, Sequences

CONSTANTS
    Features,   \* CONFIG_ macros the library is built with
    Aps,        \* access points
    NoAp,
    Stations,   \* stations of the hotspot, peers of WAPI keys
    Countries,
    Numbers,    \* arguments of the commands that take a number
    StatisticsReplies,  \* replies of the driver: functions from attributes,
    LinkReplies,        \* by the names of their enums, to values
    MaxEvents   \* bound on the events that are on the way

(* Unsigned words; one of 32 bits is <<top bit, rest>>. *)
UInt8 == 0..255
UInt16 == 0..65535
IntMax == 2^30 + (2^30 - 1)
UInt32 == {0, 1} \X (0..IntMax)

ASSUME FeaturesAssumption ==
    Features \subseteq {"WAPI_SUPPORT", "MTK_P2P_SIGMA", "MEDIATEK_WIFI_BEAM", "MTK_POOR_LINK_DETECT"}
ASSUME NumbersAssumption == \A n \in Numbers : n \in Nat /\ n < 2^30  \* no sum leaves its 32-bit word
ASSUME StatisticsAssumption ==
    \A sent \in StatisticsReplies : \A a \in DOMAIN sent :
        /\ a \in {"VERSION", "LINK_SCORE", "PER", "RSSI"} => sent[a] \in UInt8
        /\ a = "TX_RATE" => sent[a] \in UInt16
        /\ a \in {"TOTAL_CNT", "THRESHOLD_CNT", "FAIL_CNT", "TIMEOUT_CNT", "AVG_PROCESS_TIME",
                  "AVG_AIR_TIME"} => sent[a] \in UInt32
        /\ a \in {"TC_EMPTY_CNT_ARRAY", "TC_QUE_LEN_ARRAY", "TC_AVG_QUE_LEN_ARRAY",
                  "TC_CUR_QUE_LEN_ARRAY"} =>
             \A tc \in 1..4 : sent[a][tc] \in UInt32
ASSUME LinkAssumption == \A sent \in LinkReplies : \A a \in DOMAIN sent : sent[a] \in Int
ASSUME MaxEventsAssumption == MaxEvents \in Nat \ {0}
ASSUME NoApAssumption == NoAp \notin Aps

Ifaces == {"wlan0", "ap0"}

-----------------------------------------------------------------------------
(* Test-mode messages: an index with a version in its upper byte, and the  *)
(* words that follow the header.                                           *)

Msg(index, body) == [index |-> index + 2^24, body |-> body]

(* x & BITS(m, n) *)
AndBits(x, m, n) == (x % 2^(n + 1)) - (x % 2^m)

(* Software commands send <<set, adr, data>>; an adr is split in halves. *)
NumberCommands == {"rxfilter-add", "rxfilter-remove", "smt-rate"}
PlainCommands == {"rxfilter-stop", "rxfilter-start", "smt-test-on", "smt-test-off"}
RxFilter == <<\h9F00, \h0000>>

(* Mutant: remove copied from add. *)
NumberWord_Copied(cmd, n) ==
    CASE cmd \in {"rxfilter-add", "rxfilter-remove"} -> <<1, RxFilter, \h00900200 + n>>
      [] cmd = "smt-rate" -> <<1, <<\hFFFF, \h0123>>, n>>

NumberWord(cmd, n) ==
    CASE cmd = "rxfilter-add" -> <<1, RxFilter, \h00900200 + n>>
      [] cmd = "rxfilter-remove" -> <<1, RxFilter, \h00900300 + n>>
      [] cmd = "smt-rate" -> <<1, <<\hFFFF, \h0123>>, n>>

PlainWord(cmd) ==
    CASE cmd = "rxfilter-stop" -> <<1, RxFilter, \h00900000>>
      [] cmd = "rxfilter-start" -> <<1, RxFilter, \h00900100>>
      [] cmd = "smt-test-on" -> <<1, <<\hFFFF, \h1234>>, 0>>
      [] cmd = "smt-test-off" -> <<1, <<\hFFFF, \h1235>>, 0>>

(* The P2P commands of the sigma test share the index of those and send    *)
(* <<idx, value>>.                                                         *)
SigmaIdx == [p2p_set_sleep |-> 106, p2p_set_opps |-> 107, p2p_set_power_save |-> 108]

(* WAPI keys <<addr, key_idx, set_tx>>: without an address, or with that   *)
(* of everyone, the key is a group key of everyone.                        *)
Broadcast == "ff:ff:ff:ff:ff:ff"
NULL == "NULL"
WapiKeys == (Stations \cup {Broadcast, NULL}) \X (0..1) \X BOOLEAN
WapiAddr(addr) == IF addr = NULL THEN Broadcast ELSE addr
WapiBody(addr, key_idx, set_tx) ==
    <<key_idx + 1, WapiAddr(addr), [group |-> addr \in {NULL, Broadcast}, set_tx |-> set_tx]>>

(* The commands that send a message, with their arguments, and the message.*)
Built(feature, commands) == IF feature \in Features THEN commands ELSE {}

SwCommands ==
    [cmd : PlainCommands, args : {<<>>}] \cup [cmd : NumberCommands, args : {<<n>> : n \in Numbers}]
StaCommands == [cmd : {"STA-BLOCK", "STA-UNBLOCK"}, args : {<<s>> : s \in Stations}]
WapiCommands == Built("WAPI_SUPPORT", [cmd : {"set-wapi-key"}, args : WapiKeys])
SigmaCommands == Built("MTK_P2P_SIGMA",
    [cmd : {"p2p_set_opps", "p2p_set_power_save"}, args : {<<n>> : n \in Numbers}]
    \cup [cmd : {"p2p_set_sleep"}, args : {<<0>>}])
Commands == SwCommands \cup StaCommands \cup WapiCommands \cup SigmaCommands

Message(c) ==
    CASE c.cmd \in PlainCommands -> Msg(1, PlainWord(c.cmd))
      [] c.cmd \in NumberCommands -> Msg(1, NumberWord(c.cmd, c.args[1]))
      [] c.cmd \in DOMAIN SigmaIdx -> Msg(1, <<SigmaIdx[c.cmd], c.args[1]>>)
      [] c.cmd = "set-wapi-key" -> Msg(2, WapiBody(c.args[1], c.args[2], c.args[3]))
      [] c.cmd = "STA-BLOCK" -> Msg(3, <<1, c.args[1]>>)
      [] c.cmd = "STA-UNBLOCK" -> Msg(3, <<0, c.args[1]>>)

-----------------------------------------------------------------------------
(* Replies: the attributes the driver sends, the fields the handler of the *)
(* index stores them in, and the lines that are printed from the fields.   *)
(* The structures are not initialised: a line whose attribute was not sent *)
(* shows what was on the stack.                                            *)

Garbage == "stack"

(* ((int)raw - 220) / 2, rounding towards zero. *)
Rssi(raw) == IF raw >= 220 THEN (raw - 220) \div 2 ELSE -((220 - raw) \div 2)

(* The field of each attribute of the station statistics. *)
StatisticsFields ==
    [version |-> "VERSION", addr |-> "MAC", flag |-> "FLAG", link_score |-> "LINK_SCORE", per |-> "PER",
     rssi |-> "RSSI", phy_mode |-> "PHY_MODE", tx_rate |-> "TX_RATE", tx_total_cnt |-> "TOTAL_CNT",
     tx_exc_threshold_cnt |-> "THRESHOLD_CNT", tx_avg_process_time |-> "AVG_PROCESS_TIME",
     tx_fail_cnt |-> "FAIL_CNT", tx_timeout_cnt |-> "TIMEOUT_CNT", tx_avg_air_time |-> "AVG_AIR_TIME",
     tc_buf_full_cnt |-> "TC_EMPTY_CNT_ARRAY", tc_que_len |-> "TC_QUE_LEN_ARRAY",
     tc_avg_que_len |-> "TC_AVG_QUE_LEN_ARRAY", tc_cur_que_len |-> "TC_CUR_QUE_LEN_ARRAY",
     reserved |-> "RESERVED_ARRAY"]

(* The signal is converted to dBm; the rate, a double, is half the number  *)
(* sent: <<whole, tenths>>.                                                *)
sta_statistics_handler(sent) ==
    [f \in {g \in DOMAIN StatisticsFields : StatisticsFields[g] \in DOMAIN sent} |->
        LET raw == sent[StatisticsFields[f]]
        IN CASE f = "rssi" -> Rssi(raw)
             [] f = "tx_rate" -> <<raw \div 2, 5 * (raw % 2)>>
             [] OTHER -> raw]

(* %d of a 32-bit word: negative if its top bit is set. *)
AsInt(word) == IF word[1] = 0 THEN word[2] ELSE (word[2] - IntMax) - 1

(* Mutant: the lines about air and processing time show each other's field.*)
StatisticsLines_Swapped ==
    [sta_addr |-> "addr", link_score |-> "link_score", per |-> "per", rssi |-> "rssi", phy |-> "phy_mode",
     rate |-> "tx_rate", total_cnt |-> "tx_total_cnt", threshold_cnt |-> "tx_exc_threshold_cnt",
     fail_cnt |-> "tx_fail_cnt", timeout_cnt |-> "tx_timeout_cnt", apt |-> "tx_avg_air_time",
     aat |-> "tx_avg_process_time", TC_buf_full_cnt |-> "tc_buf_full_cnt", TC_sta_que_len |-> "tc_que_len",
     TC_avg_que_len |-> "tc_avg_que_len", TC_cur_que_len |-> "tc_cur_que_len", flag |-> "flag",
     reserved0 |-> "reserved", reserved1 |-> "reserved"]

(* The field that each printed line shows; the version is not printed. *)
StatisticsLines ==
    [sta_addr |-> "addr", link_score |-> "link_score", per |-> "per", rssi |-> "rssi", phy |-> "phy_mode",
     rate |-> "tx_rate", total_cnt |-> "tx_total_cnt", threshold_cnt |-> "tx_exc_threshold_cnt",
     fail_cnt |-> "tx_fail_cnt", timeout_cnt |-> "tx_timeout_cnt", apt |-> "tx_avg_process_time",
     aat |-> "tx_avg_air_time", TC_buf_full_cnt |-> "tc_buf_full_cnt", TC_sta_que_len |-> "tc_que_len",
     TC_avg_que_len |-> "tc_avg_que_len", TC_cur_que_len |-> "tc_cur_que_len", flag |-> "flag",
     reserved0 |-> "reserved", reserved1 |-> "reserved"]

CountLines == {"total_cnt", "threshold_cnt", "fail_cnt", "timeout_cnt", "apt", "aat"}
ClassLines == {"TC_buf_full_cnt", "TC_sta_que_len", "TC_avg_que_len", "TC_cur_que_len"}

(* Counts are printed with %d, those of the traffic classes four on a line;*)
(* the halves of the reserved bytes on a line each.                        *)
print_sta_statistics(stats) ==
    [l \in DOMAIN StatisticsLines |->
        LET f == StatisticsLines[l]
        IN CASE f \notin DOMAIN stats -> Garbage
             [] f \in DOMAIN stats /\ l \in CountLines -> AsInt(stats[f])
             [] f \in DOMAIN stats /\ l \in ClassLines -> [tc \in 1..4 |-> AsInt(stats[f][tc])]
             [] f \in DOMAIN stats /\ l = "reserved0" -> stats[f][1]
             [] f \in DOMAIN stats /\ l = "reserved1" -> stats[f][2]
             [] OTHER -> stats[f]]

(* Link detection: the fields, and the lines in their order.  A 64-bit     *)
(* count is the number the driver means by it; only that of the missing    *)
(* acknowledgements is taken for a signed one.                             *)
LinkFields ==
    [tx_fail_cnt |-> "TX_FAIL_CNT", tx_retry_cnt |-> "TX_RETRY_CNT",
     tx_multi_retry_cnt |-> "TX_MULTI_RETRY_CNT", ack_fail_cnt |-> "ACK_FAIL_CNT",
     fcs_err_cnt |-> "FCS_ERR_CNT", tx_cnt |-> "TX_CNT", tx_ok_cnt |-> "TX_OK_CNT", tx_os_cnt |-> "TX_OS_CNT"]

link_detect_handler(sent) ==
    [f \in {g \in DOMAIN LinkFields : LinkFields[g] \in DOMAIN sent} |->
        LET raw == sent[LinkFields[f]]
        IN IF f = "ack_fail_cnt" /\ raw < 0 THEN -raw ELSE raw]

(* Mutant: a line copied without its field. *)
LinkLines_Copied ==
    <<<<"rFailedCount", "tx_fail_cnt">>, <<"rRetryCount", "tx_retry_cnt">>,
      <<"rMultipleRetryCount", "tx_multi_retry_cnt">>, <<"rACKFailureCount", "ack_fail_cnt">>,
      <<"rFCSErrorCount", "fcs_err_cnt">>, <<"tx_total", "tx_cnt">>, <<"tx_ok", "tx_cnt">>,
      <<"tx_os", "tx_os_cnt">>>>

LinkLines ==
    <<<<"rFailedCount", "tx_fail_cnt">>, <<"rRetryCount", "tx_retry_cnt">>,
      <<"rMultipleRetryCount", "tx_multi_retry_cnt">>, <<"rACKFailureCount", "ack_fail_cnt">>,
      <<"rFCSErrorCount", "fcs_err_cnt">>, <<"tx_total", "tx_cnt">>, <<"tx_ok", "tx_ok_cnt">>,
      <<"tx_os", "tx_os_cnt">>>>

(* The lines that fit the buffer. *)
print_link_detect(counts, lines) ==
    [j \in 1..lines |->
        LET f == LinkLines[j][2]
        IN [label |-> LinkLines[j][1], count |-> IF f \in DOMAIN counts THEN counts[f] ELSE Garbage]]

(* Beam: the state of the group owner. *)
GoReadySent == {[STATE |-> state] : state \in 0..1}
go_ready_handler(sent) == sent

(* What the handler of a message stores, chosen by the index without its   *)
(* version; other messages have none.                                      *)
Stored(index, sent) ==
    LET i == AndBits(index, 0, 23)
    IN CASE i = \h10 -> sta_statistics_handler(sent)
         [] i = \h12 /\ "MEDIATEK_WIFI_BEAM" \in Features -> go_ready_handler(sent)
         [] i = \h20 /\ "MTK_POOR_LINK_DETECT" \in Features -> link_detect_handler(sent)
         [] OTHER -> <<>>

(* The indices of the three queries, with their version. *)
StatisticsIndex == \h10 + 2^24
GoReadyIndex == \h12 + 2^24
LinkDetectIndex == \h20 + 2^24

-----------------------------------------------------------------------------
VARIABLES
    up,         \* kernel: interface flags
    link,       \* kernel: the access point of wlan0, or NoAp
    events,     \* association events on their way to wpa_supplicant
    drv,        \* of each process: associated, bssid
    blocked,    \* kernel: the stations the hotspot blocks
    country,    \* kernel: the country
    p2p,        \* wpa_supplicant: interfaces, those with multi-channel
                \* concurrency, and concurrent_operations of global->p2p
    announced,  \* last CTRL-EVENT-DRIVER-STATE of each process
    pc,         \* "idle", "stopping" (in the middle of stop) or "dead"
    last,       \* the answer of the last command until it is given, with the
                \* message the driver took or the reply it sent
    acked,      \* history: what the last command about each station, the
                \* country and mcc has asked for; Unknown if it failed
    orphan      \* history: the driver has refused to leave the link, or the
                \* link is older than the process

kernel == <<up, link, events, orphan, blocked, country>>
vars == <<kernel, drv, p2p, announced, pc, last, acked>>

NotAssociated == [associated |-> FALSE, bssid |-> NoAp]
NoConcurrency == [ifaces |-> {"wlan0"}, concurrent |-> {}, operations |-> FALSE]
NoAnswer == <<>>
NoCountry == "none"
Unknown == "unknown"

Init ==
    /\ up = [i \in Ifaces |-> FALSE]
    /\ link = NoAp /\ events = <<>> /\ orphan = FALSE
    /\ drv = [i \in Ifaces |-> NotAssociated]
    /\ blocked = {} /\ country = NoCountry /\ p2p = NoConcurrency
    /\ announced = [i \in Ifaces |-> "none"]
    /\ pc = [i \in Ifaces |-> "idle"]
    /\ last = NoAnswer
    /\ acked = [sta |-> [s \in Stations |-> "free"], country |-> NoCountry, mcc |-> "off"]

(* A process between two commands.  Nothing happens before the answer of   *)
(* the last one is given: that touches nothing any other step uses.        *)
Idle(i) == pc[i] = "idle" /\ last = NoAnswer

Return(ret) == last' = [ret |-> ret]

(* The driver took the message of command c, or did not. *)
Sent(c, taken, ret) ==
    IF taken THEN last' = [ret |-> ret, command |-> c, message |-> Message(c)] ELSE Return(ret)

(* The driver replied to a query, which printed the reply. *)
Replied(query, sent, printed, ret) ==
    last' = [ret |-> ret, query |-> query, sent |-> sent, printed |-> printed]

-----------------------------------------------------------------------------
(* Commands of wpa_driver_nl80211_driver_cmd on interface i *)

(* Mutant: ret is not initialised. *)
NoEffect_Uninitialised(i) ==
    /\ Idle(i)
    /\ \E ret \in -2..2 : Return(ret)
    /\ UNCHANGED <<kernel, drv, p2p, announced, pc, acked>>

(* Commands without an effect: POWERMODE, getpower, the two about the rts  *)
(* threshold and unknown ones leave ret at -1, as any command does before  *)
(* the interface is set up; those of btcoex return 0.                      *)
NoEffect(i) ==
    /\ Idle(i)
    /\ Return(-1) \/ Return(0)
    /\ UNCHANGED <<kernel, drv, p2p, announced, pc, acked>>

(* The P2P calls of the driver interface: ignored, three with an error. *)
IgnoredCall(i) ==
    /\ Idle(i)
    /\ \E call \in {"set_p2p_noa", "get_p2p_noa", "set_p2p_ps", "set_ap_wps_p2p_ie"} :
         Return(IF call = "set_ap_wps_p2p_ie" THEN 0 ELSE -1)
    /\ UNCHANGED <<kernel, drv, p2p, announced, pc, acked>>

(* A request to the kernel: answered with 0 only if the driver took it; an *)
(* error may come before or after that.                                    *)
Outcomes == {o \in [taken : BOOLEAN, ret : {0, -1}] : o.ret = 0 => o.taken}

(* wpa_driver_nl80211_testmode builds the message, sends it and waits for  *)
(* the answer; failing to build it is an error like the others.            *)
testmode == Outcomes

(* wpa_driver_nl80211_driver_sw_cmd drops the outcome; a missing number is *)
(* an error.                                                               *)
SwCmd(i) ==
    /\ Idle(i)
    /\ \/ \E c \in SwCommands, o \in testmode : Sent(c, o.taken, 0)
       \/ Return(-1)
    /\ UNCHANGED <<kernel, drv, p2p, announced, pc, acked>>

(* set-wapi-key drops the outcome, too; a sequence that is too long is an  *)
(* error.                                                                  *)
SetWapiKey(i) ==
    /\ Idle(i) /\ "WAPI_SUPPORT" \in Features
    /\ \/ \E c \in WapiCommands, o \in testmode : Sent(c, o.taken, 0)
       \/ Return(-1)
    /\ UNCHANGED <<kernel, drv, p2p, announced, pc, acked>>

(* wapi-msg-send checks the length and sends nothing. *)
WapiMsgSend(i) ==
    /\ Idle(i) /\ "WAPI_SUPPORT" \in Features
    /\ Return(-1) \/ Return(0)
    /\ UNCHANGED <<kernel, drv, p2p, announced, pc, acked>>

Acked(ret, value) == IF ret = 0 THEN value ELSE Unknown

(* The block list after a command. *)
UpdatedList(c) == IF c.cmd = "STA-BLOCK" THEN blocked \cup {c.args[1]} ELSE blocked \ {c.args[1]}

(* Mutant: the outcome of the message is dropped, as in sw_cmd. *)
StaBlock_DropsOutcome(i, c) ==
    /\ Idle(i)
    /\ \E o \in testmode : /\ blocked' = IF o.taken THEN UpdatedList(c) ELSE blocked
                           /\ Sent(c, o.taken, 0)
    /\ acked' = [acked EXCEPT !.sta[c.args[1]] = IF c.cmd = "STA-BLOCK" THEN "blocked" ELSE "free"]
    /\ UNCHANGED <<up, link, events, orphan, country, drv, p2p, announced, pc>>

(* STA-BLOCK and STA-UNBLOCK; hwaddr_aton may refuse the address. *)
StaBlock(i, c) ==
    /\ Idle(i)
    /\ \/ \E o \in testmode :
            /\ blocked' = IF o.taken THEN UpdatedList(c) ELSE blocked
            /\ acked' = [acked EXCEPT !.sta[c.args[1]] =
                            Acked(o.ret, IF c.cmd = "STA-BLOCK" THEN "blocked" ELSE "free")]
            /\ Sent(c, o.taken, o.ret)
       \/ Return(-1) /\ UNCHANGED <<blocked, acked>>
    /\ UNCHANGED <<up, link, events, orphan, country, drv, p2p, announced, pc>>

(* COUNTRY: a private ioctl on a socket of its own. *)
SetCountry(i, c) ==
    /\ Idle(i)
    /\ \E o \in Outcomes :
         /\ country' = IF o.taken THEN c ELSE country
         /\ acked' = [acked EXCEPT !.country = Acked(o.ret, c)]
         /\ Return(o.ret)
    /\ UNCHANGED <<up, link, events, orphan, blocked, drv, p2p, announced, pc>>

(* COUNTRY without two letters.  A longer argument, or whatever follows a  *)
(* bare COUNTRY in memory, is printed past the end of buf: the driver gets *)
(* a text nobody can tell, and the process goes on or ends.                *)
SetCountryOverflow(i) ==
    /\ Idle(i)
    /\ country' \in Countries \cup {NoCountry}
    /\ acked' = [acked EXCEPT !.country = Unknown]
    /\ \/ pc' = [pc EXCEPT ![i] = "dead"] /\ last' = last
       \/ pc' = pc /\ \E ret \in {0, -1} : Return(ret)
    /\ UNCHANGED <<up, link, events, orphan, blocked, drv, p2p, announced>>

(* linux_set_iface_flags; an interface that goes down loses its link. *)
SetFlags(i, flag) ==
    /\ up' = [up EXCEPT ![i] = flag]
    /\ IF i = "wlan0" /\ ~flag /\ link # NoAp
         THEN /\ link' = NoAp
              /\ events' = Append(events, NoAp)
              /\ orphan' = FALSE
         ELSE UNCHANGED <<link, events, orphan>>

Start(i) ==
    /\ Idle(i)
    /\ \/ /\ SetFlags(i, TRUE)
          /\ announced' = [announced EXCEPT ![i] = "STARTED"]
          /\ Return(0)
       \/ /\ Return(-1)
          /\ UNCHANGED <<up, link, events, orphan, announced>>
    /\ UNCHANGED <<blocked, country, drv, p2p, pc, acked>>

(* wpa_drv_deauthenticate: the driver may refuse, and does if the link is  *)
(* already gone or another one; the process may then have forgotten its    *)
(* association all the same.                                               *)
Deauthenticate(i) ==
    \/ /\ link = drv[i].bssid
       /\ link' = NoAp
       /\ events' = Append(events, NoAp)
       /\ orphan' = FALSE
       /\ drv' = [drv EXCEPT ![i] = NotAssociated]
    \/ /\ drv' \in {drv, [drv EXCEPT ![i] = NotAssociated]}
       /\ orphan' = (orphan \/ link = drv[i].bssid)
       /\ UNCHANGED <<link, events>>

(* Mutant: stop takes the interface down without leaving the network. *)
Stop_Silently(i) ==
    /\ Idle(i)
    /\ pc' = [pc EXCEPT ![i] = "stopping"]
    /\ UNCHANGED <<kernel, drv, p2p, announced, last, acked>>

(* stop: leave the network that the process knows of. *)
Stop(i) ==
    /\ Idle(i)
    /\ IF drv[i].associated
         THEN Deauthenticate(i)
         ELSE UNCHANGED <<drv, link, events, orphan>>
    /\ pc' = [pc EXCEPT ![i] = "stopping"]
    /\ UNCHANGED <<up, blocked, country, p2p, announced, last, acked>>

(* Mutant: the state is announced even if the interface could not be set. *)
StopFlags_Announces(i) ==
    /\ pc[i] = "stopping" /\ last = NoAnswer
    /\ \/ SetFlags(i, FALSE) /\ Return(0)
       \/ Return(-1) /\ UNCHANGED <<up, link, events, orphan>>
    /\ announced' = [announced EXCEPT ![i] = "STOPPED"]
    /\ pc' = [pc EXCEPT ![i] = "idle"]
    /\ UNCHANGED <<blocked, country, drv, p2p, acked>>

(* Then take the interface down and announce it; this outcome replaces     *)
(* that of the deauthentication.                                           *)
StopFlags(i) ==
    /\ pc[i] = "stopping" /\ last = NoAnswer
    /\ \/ /\ SetFlags(i, FALSE)
          /\ announced' = [announced EXCEPT ![i] = "STOPPED"]
          /\ Return(0)
       \/ /\ Return(-1)
          /\ UNCHANGED <<up, link, events, orphan, announced>>
    /\ pc' = [pc EXCEPT ![i] = "idle"]
    /\ UNCHANGED <<blocked, country, drv, p2p, acked>>

-----------------------------------------------------------------------------
(* Commands that need wpa_s, which only wpa_supplicant has *)

(* MACADDR prints own_addr. *)
MacAddr ==
    /\ Idle("wlan0")
    /\ Return(1)
    /\ UNCHANGED <<kernel, drv, p2p, announced, pc, acked>>

(* GET_STA_STATISTICS: invalid address, failed message, a line that does   *)
(* not fit (which answers 0), or all lines.  A message without test data   *)
(* counts as one that sends nothing.                                       *)
GetStaStatistics ==
    /\ Idle("wlan0")
    /\ \/ Return(-1) \/ Return(0)
       \/ \E sent \in StatisticsReplies :
            Replied("statistics", sent, print_sta_statistics(Stored(StatisticsIndex, sent)), 1)
    /\ UNCHANGED <<kernel, drv, p2p, announced, pc, acked>>

(* GET_STA_LINK_DETECT: failed message, or the lines that fit the buffer   *)
(* (their number stands for their length).                                 *)
GetStaLinkDetect ==
    /\ Idle("wlan0") /\ "MTK_POOR_LINK_DETECT" \in Features
    /\ \/ Return(-1)
       \/ \E sent \in LinkReplies, lines \in 0..8 :
            Replied("link_detect", sent, print_link_detect(Stored(LinkDetectIndex, sent), lines), lines)
    /\ UNCHANGED <<kernel, drv, p2p, announced, pc, acked>>

(* The Beam application's question whether the group owner is ready. *)
GoReady ==
    /\ Idle("wlan0") /\ "MEDIATEK_WIFI_BEAM" \in Features
    /\ \/ Return(-1)
       \/ \E sent \in GoReadySent : Replied("go_ready", sent, Stored(GoReadyIndex, sent), 0)
    /\ UNCHANGED <<kernel, drv, p2p, announced, pc, acked>>

(* p2p_set_opps, p2p_set_power_save and p2p_set_sleep drop the outcome;    *)
(* the first and the last refuse an invalid address, and write through a   *)
(* null pointer when the text ends after the number or the address.        *)
SigmaTest ==
    /\ Idle("wlan0")
    /\ \E c \in SigmaCommands :
         \/ /\ \E o \in testmode : Sent(c, o.taken, 0)
            /\ pc' = pc
         \/ /\ c.cmd # "p2p_set_power_save"
            /\ \/ Return(-1) /\ pc' = pc
               \/ pc' = [pc EXCEPT !["wlan0"] = "dead"] /\ last' = last
    /\ UNCHANGED <<kernel, drv, p2p, announced, acked>>

(* global->p2p is there, with its configuration, while p2p0 is. *)
P2pExists == "p2p0" \in p2p.ifaces

(* Mutant: 0 is set for the interface of the command only. *)
Mcc_OwnInterface ==
    /\ Idle("wlan0") /\ "MTK_P2P_SIGMA" \in Features
    /\ \E on \in BOOLEAN :
         /\ p2p' = [p2p EXCEPT !.concurrent = IF on THEN p2p.ifaces ELSE @ \ {"wlan0"},
                               !.operations = on /\ P2pExists]
         /\ acked' = [acked EXCEPT !.mcc = IF on THEN "on" ELSE "off"]
    /\ Return(0)
    /\ UNCHANGED <<kernel, drv, announced, pc>>

(* mcc: multi-channel concurrency on or off, for all interfaces there are  *)
(* and for P2P; a missing value, or no driver, is an error.                *)
Mcc ==
    /\ Idle("wlan0") /\ "MTK_P2P_SIGMA" \in Features
    /\ \/ /\ \E on \in BOOLEAN :
               /\ p2p' = [p2p EXCEPT !.concurrent = IF on THEN p2p.ifaces ELSE {},
                                     !.operations = on /\ P2pExists]
               /\ acked' = [acked EXCEPT !.mcc = IF on THEN "on" ELSE "off"]
          /\ Return(0)
       \/ Return(-1) /\ UNCHANGED <<p2p, acked>>
    /\ UNCHANGED <<kernel, drv, announced, pc>>

(* On ap0 wpa_s is never assigned: all these commands follow whatever      *)
(* pointer is on the stack, and end the process or answer anything.        *)
UndefinedContext ==
    /\ Idle("ap0")
    /\ \/ pc' = [pc EXCEPT !["ap0"] = "dead"] /\ last' = last
       \/ /\ pc' = pc
          /\ \E ret \in {-1, 0, 1} : Return(ret)
    /\ UNCHANGED <<kernel, drv, p2p, announced, acked>>

-----------------------------------------------------------------------------
(* The rest of the system *)

(* The kernel completes an association, or loses it. *)
LinkChanges ==
    /\ up["wlan0"] /\ Len(events) < MaxEvents /\ last = NoAnswer
    /\ \/ link = NoAp /\ link' \in Aps
       \/ link # NoAp /\ link' = NoAp
    /\ events' = Append(events, link')
    /\ orphan' = FALSE
    /\ UNCHANGED <<up, blocked, country, drv, p2p, announced, pc, last, acked>>

(* wpa_supplicant hears of it, between two commands. *)
EventArrives ==
    /\ Idle("wlan0") /\ events # <<>>
    /\ drv' = [drv EXCEPT !["wlan0"] = IF Head(events) = NoAp THEN NotAssociated
                                       ELSE [associated |-> TRUE, bssid |-> Head(events)]]
    /\ events' = Tail(events)
    /\ UNCHANGED <<up, link, orphan, blocked, country, p2p, announced, pc, last, acked>>

(* The answer goes to whoever gave the command. *)
Answer ==
    /\ last # NoAnswer
    /\ last' = NoAnswer
    /\ UNCHANGED <<kernel, drv, p2p, announced, pc, acked>>

(* The interface p2p0 comes, without concurrency because the driver does   *)
(* not report it, and P2P is initialised with it; or both go.              *)
P2pInterface ==
    /\ Idle("wlan0") /\ "MTK_P2P_SIGMA" \in Features
    /\ p2p' = IF P2pExists
                THEN [ifaces |-> p2p.ifaces \ {"p2p0"}, concurrent |-> p2p.concurrent \ {"p2p0"},
                      operations |-> FALSE]
                ELSE [p2p EXCEPT !.ifaces = @ \cup {"p2p0"}]
    /\ UNCHANGED <<kernel, drv, announced, pc, last, acked>>

(* A process that died starts again; wpa_supplicant without the events     *)
(* that were on their way to the old one.                                  *)
Restart(i) ==
    /\ pc[i] = "dead" /\ last = NoAnswer
    /\ pc' = [pc EXCEPT ![i] = "idle"]
    /\ drv' = [drv EXCEPT ![i] = NotAssociated]
    /\ announced' = [announced EXCEPT ![i] = "none"]
    /\ IF i = "wlan0"
         THEN /\ p2p' = NoConcurrency /\ events' = <<>> /\ orphan' = (link # NoAp)
              /\ acked' = [acked EXCEPT !.mcc = "off"]
         ELSE UNCHANGED <<p2p, events, orphan, acked>>
    /\ UNCHANGED <<up, link, blocked, country, last>>

-----------------------------------------------------------------------------
driver_cmd(i) ==
    \/ NoEffect(i) \/ SwCmd(i) \/ SetWapiKey(i) \/ WapiMsgSend(i)
    \/ \E c \in StaCommands : StaBlock(i, c)
    \/ (\E c \in Countries : SetCountry(i, c)) \/ SetCountryOverflow(i)
    \/ Start(i) \/ Stop(i) \/ StopFlags(i)

Next ==
    \/ \E i \in Ifaces : driver_cmd(i) \/ IgnoredCall(i) \/ Restart(i)
    \/ MacAddr \/ GetStaStatistics \/ GetStaLinkDetect \/ GoReady \/ SigmaTest \/ Mcc
    \/ UndefinedContext
    \/ LinkChanges \/ EventArrives \/ P2pInterface \/ Answer

Spec == Init /\ [][Next]_vars

-----------------------------------------------------------------------------
(* Properties *)

(* Type invariant. *)
TypeOK ==
    /\ up \in [Ifaces -> BOOLEAN]
    /\ link \in Aps \cup {NoAp}
    /\ events \in Seq(Aps \cup {NoAp})
    /\ drv \in [Ifaces -> {NotAssociated} \cup [associated : {TRUE}, bssid : Aps]]
    /\ blocked \subseteq Stations
    /\ country \in Countries \cup {NoCountry}
    /\ p2p \in [ifaces : SUBSET {"wlan0", "p2p0"}, concurrent : SUBSET {"wlan0", "p2p0"},
                 operations : BOOLEAN]
    /\ announced \in [Ifaces -> {"none", "STARTED", "STOPPED"}]
    /\ pc \in [Ifaces -> {"idle", "stopping", "dead"}]
    /\ orphan \in BOOLEAN
    /\ last = NoAnswer \/ last.ret \in -1..8

(* Whatever requests fail, before or after the driver took them, and       *)
(* whichever process sends them: a station is blocked or free, and the     *)
(* country set, as the last command about it said, if that was answered    *)
(* with 0.                                                                 *)
DriverAgrees ==
    /\ \A s \in Stations : /\ acked.sta[s] = "blocked" => s \in blocked
                           /\ acked.sta[s] = "free" => s \notin blocked
    /\ acked.country \in {country, Unknown}

(* The last CTRL-EVENT-DRIVER-STATE tells whether the interface is up,     *)
(* although setting it may fail and start and stop may be repeated.        *)
AnnouncedState ==
    \A i \in Ifaces : /\ announced[i] = "STARTED" => up[i]
                      /\ announced[i] = "STOPPED" => ~up[i]

(* stop takes wlan0 down under a live link only if the driver has refused  *)
(* to leave that link, or its event is still on the way to the process, or *)
(* the process is younger than the link: a link that the process could     *)
(* know of is left first, however events, lost links, refusals and failed  *)
(* stops come before it.                                                   *)
NoKnownLinkDropped ==
    [][up["wlan0"] /\ ~up'["wlan0"] /\ link # NoAp => orphan \/ events # <<>>]_vars

(* The driver can tell from the message it took which command was given,   *)
(* although the P2P tests share the index of the software commands and the *)
(* filter words have room for numbers of 8 bits only (a larger number,     *)
(* which the code lets through, turns a command into another).  A WAPI key *)
(* without an address is one for everyone.                                 *)
MessageTellsCommand ==
    LET Meaning(c) == IF c.cmd = "set-wapi-key" THEN [c EXCEPT !.args[1] = WapiAddr(@)] ELSE c
        Fits(c) == c \in SwCommands /\ c.args # <<>> => c.args[1] < 256
    IN "message" \in DOMAIN last /\ Fits(last.command) =>
         \A c \in Commands : Message(c) = last.message /\ Fits(c) => Meaning(c) = Meaning(last.command)

(* The attribute that a reader of each line expects. *)
Expected ==
    [sta_addr |-> "MAC", link_score |-> "LINK_SCORE", per |-> "PER", rssi |-> "RSSI", phy |-> "PHY_MODE",
     rate |-> "TX_RATE", total_cnt |-> "TOTAL_CNT", threshold_cnt |-> "THRESHOLD_CNT",
     fail_cnt |-> "FAIL_CNT", timeout_cnt |-> "TIMEOUT_CNT", apt |-> "AVG_PROCESS_TIME",
     aat |-> "AVG_AIR_TIME", TC_buf_full_cnt |-> "TC_EMPTY_CNT_ARRAY", TC_sta_que_len |-> "TC_QUE_LEN_ARRAY",
     TC_avg_que_len |-> "TC_AVG_QUE_LEN_ARRAY", TC_cur_que_len |-> "TC_CUR_QUE_LEN_ARRAY", flag |-> "FLAG",
     reserved0 |-> "RESERVED_ARRAY", reserved1 |-> "RESERVED_ARRAY",
     rFailedCount |-> "TX_FAIL_CNT", rRetryCount |-> "TX_RETRY_CNT",
     rMultipleRetryCount |-> "TX_MULTI_RETRY_CNT", rACKFailureCount |-> "ACK_FAIL_CNT",
     rFCSErrorCount |-> "FCS_ERR_CNT", tx_total |-> "TX_CNT", tx_ok |-> "TX_OK_CNT", tx_os |-> "TX_OS_CNT"]

(* A count below 2^31 is shown as it is; a larger one as a negative number.*)
ShowsCount(shown, word) == IF word[1] = 0 THEN shown = word[2] ELSE shown < 0

(* GET_STA_STATISTICS shows on every line what the driver sent of the      *)
(* attribute that the line is named for, from the switch of the handler    *)
(* through the structure to the printed labels: counts up to 2^31 as they  *)
(* are; the rate in halves; the signal in dBm, -110 at 0 and half a unit   *)
(* for each step, rounded by less than 1 and never across 0.               *)
StatisticsFaithful ==
    "query" \in DOMAIN last /\ last.query = "statistics" =>
        \A l \in DOMAIN StatisticsLines : Expected[l] \in DOMAIN last.sent =>
            LET raw == last.sent[Expected[l]]
                shown == last.printed[l]
            IN CASE l \in CountLines -> ShowsCount(shown, raw)
                 [] l \in ClassLines -> \A tc \in 1..4 : ShowsCount(shown[tc], raw[tc])
                 [] l = "rate" -> 10 * shown[1] + shown[2] = 5 * raw /\ shown[2] \in 0..9
                 [] l = "rssi" -> /\ 2 * shown \in (raw - 221)..(raw - 219)
                                  /\ (raw <= 220 => shown <= 0) /\ (raw >= 220 => shown >= 0)
                 [] l = "reserved0" -> shown = raw[1]
                 [] l = "reserved1" -> shown = raw[2]
                 [] OTHER -> shown = raw

(* However few lines of GET_STA_LINK_DETECT fit the buffer, each shows the *)
(* count it is named for, no name comes twice, and missing acknowledgements*)
(* are a number of frames: as far from 0 as the driver's count, never      *)
(* below.                                                                  *)
LinkDetectFaithful ==
    "query" \in DOMAIN last /\ last.query = "link_detect" =>
        \A j \in 1..last.ret :
            LET a == Expected[last.printed[j].label]
                shown == last.printed[j].count
            IN /\ a \in DOMAIN last.sent =>
                    IF a # "ACK_FAIL_CNT" THEN shown = last.sent[a]
                    ELSE shown >= 0 /\ shown \in {last.sent[a], -last.sent[a]}
               /\ \A k \in 1..last.ret : last.printed[k].label = last.printed[j].label => k = j

(* After mcc 0, and until the next mcc 1, no interface has multi-channel   *)
(* concurrency and P2P does not operate with it, however interfaces and    *)
(* P2P itself come and go before and after the command.                    *)
NoStrayConcurrency == acked.mcc = "off" => p2p.concurrent = {} /\ ~p2p.operations
=============================================================================
