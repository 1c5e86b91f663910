------------------------- MODULE WifiDriverCmdProofs -------------------------
(***************************************************************************)
(* Proofs about the private driver commands, for every choice of features  *)
(* and any access points, stations, countries, numbers and replies.        *)
(*                                                                         *)
(* StateInv is about commands and the kernel.  LinkInv is what the process *)
(* can know of its link: the last event on the way, or drv if there is     *)
(* none, tells the link, unless the driver has refused to leave it.        *)
(* LastInv says which command or query an answer belongs to.               *)
(***************************************************************************)
EXTENDS WifiDriverCmd, SequenceTheorems, TLAPS

-----------------------------------------------------------------------------
(* The inductive invariants *)

(* TypeOK without the answer, which is LastInv's. *)
StateTypes ==
    /\ up \in [Ifaces -> BOOLEAN]
    /\ link \in Aps \cup {NoAp}
    /\ events \in Seq(Aps \cup {NoAp})
    /\ drv \in [Ifaces -> {NotAssociated} \cup [associated : {TRUE}, bssid : Aps]]
    /\ blocked \subseteq Stations
    /\ country \in Countries \cup {NoCountry}
    /\ p2p \in [ifaces : SUBSET {"wlan0", "p2p0"}, concurrent : SUBSET {"wlan0", "p2p0"},
                 operations : BOOLEAN]
    /\ orphan \in BOOLEAN
    /\ announced \in [Ifaces -> {"none", "STARTED", "STOPPED"}]
    /\ pc \in [Ifaces -> {"idle", "stopping", "dead"}]

AckedTypes ==
    acked \in [sta : [Stations -> {"blocked", "free", Unknown}],
               country : Countries \cup {NoCountry, Unknown}, mcc : {"off", "on"}]

StateInv ==
    StateTypes /\ AckedTypes /\ DriverAgrees /\ AnnouncedState /\ NoStrayConcurrency

(* What wpa_supplicant will take for its link when it has heard all events.*)
Told == IF events = <<>> THEN drv["wlan0"].bssid ELSE events[Len(events)]

(* That is the link, or one that was not to be left; whoever is in the     *)
(* middle of stop and still associated was refused, or has an event to     *)
(* hear; hostapd is never associated.                                      *)
Coherent == orphan \/ link = Told
StoppingLeft ==
    pc["wlan0"] = "stopping" /\ drv["wlan0"].associated => orphan \/ events # <<>>
LinkInv == Coherent /\ StoppingLeft /\ drv["ap0"] = NotAssociated

(* The kinds of answers. *)
OfCommand(ret, c) == [ret |-> ret, command |-> c, message |-> Message(c)]
OfQuery(ret, query, sent, printed) ==
    [ret |-> ret, query |-> query, sent |-> sent, printed |-> printed]
QueryKinds(ret) ==
    \/ \E sent \in StatisticsReplies :
          last = OfQuery(ret, "statistics", sent, print_sta_statistics(sta_statistics_handler(sent)))
    \/ /\ ret \in 0..8
       /\ \E sent \in LinkReplies :
             last = OfQuery(ret, "link_detect", sent, print_link_detect(link_detect_handler(sent), ret))
    \/ \E sent \in GoReadySent : last = OfQuery(ret, "go_ready", sent, sent)
LastInv ==
    \/ last = NoAnswer
    \/ \E ret \in -1..8 :
         \/ last = [ret |-> ret]
         \/ \E c \in Commands : last = OfCommand(ret, c)
         \/ QueryKinds(ret)

-----------------------------------------------------------------------------
(* The state: what each group of actions does to it *)

(* Commands that only answer, and perhaps end their process. *)
Quiet ==
    \/ \E i \in Ifaces : NoEffect(i) \/ SwCmd(i) \/ SetWapiKey(i) \/ WapiMsgSend(i) \/ IgnoredCall(i)
    \/ MacAddr \/ GetStaStatistics \/ GetStaLinkDetect \/ GoReady \/ SigmaTest
    \/ UndefinedContext \/ Answer

(* Commands that only ask or only send change nothing that StateInv is *)
(* about, except that one process may end.                             *)
LEMMA QuietEffect ==
    ASSUME Quiet
    PROVE  /\ UNCHANGED <<up, link, events, orphan, blocked, country, drv, p2p, announced, acked>>
           /\ pc' = pc \/ \E i \in Ifaces : pc' = [pc EXCEPT ![i] = "dead"]
BY DEF Quiet, NoEffect, SwCmd, SetWapiKey, WapiMsgSend, IgnoredCall, MacAddr, GetStaStatistics,
       GetStaLinkDetect, GoReady, SigmaTest, UndefinedContext, Answer, kernel, Ifaces

(* They therefore keep StateInv. *)
LEMMA QuietStep ==
    ASSUME StateInv, Quiet
    PROVE  StateInv'
  <1> USE DEF StateInv
  <1>1. /\ UNCHANGED <<up, link, events, orphan, blocked, country, drv, p2p, announced, acked>>
        /\ pc' = pc \/ \E i \in Ifaces : pc' = [pc EXCEPT ![i] = "dead"]
    BY QuietEffect
  <1>2. pc' \in [Ifaces -> {"idle", "stopping", "dead"}]
    BY <1>1 DEF StateTypes
  <1>3. StateTypes'
    BY <1>1, <1>2 DEF StateTypes
  <1>4. AckedTypes' /\ DriverAgrees' /\ AnnouncedState' /\ NoStrayConcurrency'
    BY <1>1 DEF AckedTypes, DriverAgrees, AnnouncedState, NoStrayConcurrency
  <1> QED BY <1>3, <1>4

(* STA-BLOCK and STA-UNBLOCK: what an answer of 0 promises has been done,  *)
(* and nothing is promised after an error.                                 *)
LEMMA StaBlockStep ==
    ASSUME StateInv, NEW i \in Ifaces, NEW c \in StaCommands, StaBlock(i, c)
    PROVE  StateInv'
  <1> USE DEF StateInv
  <1>1. UNCHANGED <<up, link, events, orphan, country, drv, p2p, announced, pc>>
    BY DEF StaBlock
  <1>2. AnnouncedState'
    BY <1>1 DEF AnnouncedState
  <1>3. CASE UNCHANGED <<blocked, acked>>
    BY <1>1, <1>2, <1>3 DEF StateTypes, AckedTypes, DriverAgrees, NoStrayConcurrency
  <1>4. CASE ~UNCHANGED <<blocked, acked>>
    <2> DEFINE s == c.args[1]
               asked == IF c.cmd = "STA-BLOCK" THEN "blocked" ELSE "free"
    <2>1. PICK o \in testmode :
            /\ blocked' = IF o.taken THEN UpdatedList(c) ELSE blocked
            /\ acked' = [acked EXCEPT !.sta[s] = Acked(o.ret, asked)]
      BY <1>4 DEF StaBlock
    <2>2. o.taken \in BOOLEAN /\ (o.ret = 0 => o.taken)
      BY DEF testmode, Outcomes
    <2>3. s \in Stations /\ c.cmd \in {"STA-BLOCK", "STA-UNBLOCK"}
      BY DEF StaCommands
    <2>4. UpdatedList(c) = IF c.cmd = "STA-BLOCK" THEN blocked \cup {s} ELSE blocked \ {s}
      BY DEF UpdatedList
    <2> HIDE DEF s
    <2>5. /\ acked'.country = acked.country /\ acked'.mcc = acked.mcc
          /\ acked'.sta = [acked.sta EXCEPT ![s] = Acked(o.ret, asked)]
          /\ AckedTypes'
      BY <2>1, <2>3 DEF AckedTypes, Acked
    <2>6. StateTypes'
      BY <1>1, <2>1, <2>3, <2>4 DEF StateTypes
    <2>7. DriverAgrees'
      <3>1. acked'.country \in {country', Unknown}
        BY <1>1, <2>5 DEF DriverAgrees
      <3>2. ASSUME NEW t \in Stations
            PROVE  /\ acked'.sta[t] = "blocked" => t \in blocked'
                   /\ acked'.sta[t] = "free" => t \notin blocked'
        <4>1. CASE t # s
          <5>1. acked'.sta[t] = acked.sta[t] /\ (t \in blocked' <=> t \in blocked)
            BY <2>1, <2>4, <2>5, <4>1 DEF AckedTypes
          <5> QED BY <5>1 DEF DriverAgrees
        <4>2. CASE t = s
          <5>1. acked'.sta[t] = Acked(o.ret, asked)
            BY <2>3, <2>5, <4>2 DEF AckedTypes
          <5>2. CASE o.ret = 0
            BY <2>1, <2>2, <2>3, <2>4, <4>2, <5>1, <5>2 DEF Acked
          <5>3. CASE o.ret # 0
            BY <5>1, <5>3 DEF Acked, Unknown
          <5> QED BY <5>2, <5>3
        <4> QED BY <4>1, <4>2
      <3> QED BY <3>1, <3>2 DEF DriverAgrees
    <2>8. NoStrayConcurrency'
      BY <1>1, <2>5 DEF NoStrayConcurrency
    <2> QED BY <1>2, <2>5, <2>6, <2>7, <2>8
  <1> QED BY <1>3, <1>4

(* COUNTRY: the same, for the one country of the driver; an argument that  *)
(* overflows promises nothing.                                             *)
LEMMA CountryStep ==
    ASSUME StateInv, NEW i \in Ifaces,
           SetCountryOverflow(i) \/ \E c \in Countries : SetCountry(i, c)
    PROVE  StateInv'
  <1> USE DEF StateInv
  <1>1. /\ UNCHANGED <<up, link, events, orphan, blocked, drv, p2p, announced>>
        /\ pc' = pc \/ pc' = [pc EXCEPT ![i] = "dead"]
    BY DEF SetCountry, SetCountryOverflow
  <1>2. \E v \in Countries \cup {NoCountry, Unknown} :
             /\ acked' = [acked EXCEPT !.country = v]
             /\ country' \in Countries \cup {NoCountry}
             /\ v \in {country', Unknown}
    <2>1. CASE SetCountryOverflow(i)
      BY <2>1 DEF SetCountryOverflow
    <2>2. ASSUME NEW c \in Countries, SetCountry(i, c)
          PROVE  \E v \in Countries \cup {NoCountry, Unknown} :
                    /\ acked' = [acked EXCEPT !.country = v]
                    /\ country' \in Countries \cup {NoCountry}
                    /\ v \in {country', Unknown}
      <3>1. PICK o \in Outcomes : /\ country' = IF o.taken THEN c ELSE country
                                  /\ acked' = [acked EXCEPT !.country = Acked(o.ret, c)]
        BY <2>2 DEF SetCountry
      <3>2. o.taken \in BOOLEAN /\ (o.ret = 0 => o.taken)
        BY DEF Outcomes
      <3>3. country' \in Countries \cup {NoCountry} /\ Acked(o.ret, c) \in {country', Unknown}
        BY <3>1, <3>2 DEF StateTypes, Acked
      <3> QED BY <3>1, <3>3
    <2> QED BY <2>1, <2>2
  <1>3. PICK v \in Countries \cup {NoCountry, Unknown} :
             /\ acked' = [acked EXCEPT !.country = v]
             /\ country' \in Countries \cup {NoCountry}
             /\ v \in {country', Unknown}
    BY <1>2
  <1>4. acked'.sta = acked.sta /\ acked'.mcc = acked.mcc /\ acked'.country = v /\ AckedTypes'
    BY <1>3 DEF AckedTypes
  <1>5. AnnouncedState' /\ NoStrayConcurrency'
    BY <1>1, <1>4 DEF AnnouncedState, NoStrayConcurrency
  <1>6. StateTypes'
    BY <1>1, <1>3 DEF StateTypes
  <1>7. DriverAgrees'
    BY <1>1, <1>3, <1>4 DEF DriverAgrees
  <1> QED BY <1>4, <1>5, <1>6, <1>7

(* Any event that the kernel sends is an access point or none. *)
LEMMA EventTypes ==
    ASSUME StateTypes
    PROVE  /\ events \in Seq(Aps \cup {NoAp}) /\ <<>> \in Seq(Aps \cup {NoAp})
           /\ \A a \in Aps \cup {NoAp} : Append(events, a) \in Seq(Aps \cup {NoAp})
BY AppendProperties DEF StateTypes

(* A link that is lost, with its event, or nothing. *)
LEMMA LinkLost ==
    ASSUME StateTypes,
           \/ link' = NoAp /\ events' = Append(events, NoAp) /\ orphan' = FALSE
           \/ UNCHANGED <<link, events>> /\ orphan' \in BOOLEAN
    PROVE  link' \in Aps \cup {NoAp} /\ events' \in Seq(Aps \cup {NoAp}) /\ orphan' \in BOOLEAN
  <1>1. CASE link' = NoAp /\ events' = Append(events, NoAp) /\ orphan' = FALSE
    BY <1>1, EventTypes
  <1>2. CASE UNCHANGED <<link, events>> /\ orphan' \in BOOLEAN
    BY <1>2 DEF StateTypes
  <1> QED BY <1>1, <1>2

(* start, and the second half of stop: the state is announced in the step  *)
(* that sets the flags.                                                    *)
LEMMA FlagsStep ==
    ASSUME StateInv, NEW i \in Ifaces, Start(i) \/ StopFlags(i)
    PROVE  StateInv'
  <1> USE DEF StateInv
  <1>1. UNCHANGED <<blocked, country, drv, p2p, acked>>
    BY DEF Start, StopFlags
  <1>2. AckedTypes' /\ DriverAgrees' /\ NoStrayConcurrency'
    BY <1>1 DEF AckedTypes, DriverAgrees, NoStrayConcurrency
  <1>3. pc' = pc \/ pc' = [pc EXCEPT ![i] = "idle"]
    BY DEF Start, StopFlags
  <1>4. \/ UNCHANGED <<up, link, events, orphan, announced>>
        \/ \E flag \in BOOLEAN :
             /\ SetFlags(i, flag)
             /\ announced' = [announced EXCEPT ![i] = IF flag THEN "STARTED" ELSE "STOPPED"]
    BY DEF Start, StopFlags
  <1>5. CASE UNCHANGED <<up, link, events, orphan, announced>>
    <2>1. StateTypes'
      BY <1>1, <1>3, <1>5 DEF StateTypes
    <2>2. AnnouncedState'
      BY <1>5 DEF AnnouncedState
    <2> QED BY <1>2, <2>1, <2>2
  <1>6. ASSUME NEW flag \in BOOLEAN, SetFlags(i, flag),
               announced' = [announced EXCEPT ![i] = IF flag THEN "STARTED" ELSE "STOPPED"]
        PROVE  StateInv'
    <2>1. up' = [up EXCEPT ![i] = flag]
      BY <1>6 DEF SetFlags
    <2>2. \/ link' = NoAp /\ events' = Append(events, NoAp) /\ orphan' = FALSE
          \/ UNCHANGED <<link, events>> /\ orphan' \in BOOLEAN
      BY <1>6 DEF SetFlags, StateTypes
    <2>3. link' \in Aps \cup {NoAp} /\ events' \in Seq(Aps \cup {NoAp}) /\ orphan' \in BOOLEAN
      BY <2>2, LinkLost
    <2>4. StateTypes'
      BY <1>1, <1>3, <1>6, <2>1, <2>3 DEF StateTypes
    <2>5. AnnouncedState'
      BY <1>6, <2>1 DEF AnnouncedState, StateTypes
    <2> QED BY <1>2, <2>4, <2>5
  <1> QED BY <1>4, <1>5, <1>6

(* What the first half of stop does to links and associations. *)
LEMMA StopEffect ==
    ASSUME StateTypes, NEW i \in Ifaces, Stop(i)
    PROVE  /\ drv' = drv \/ drv' = [drv EXCEPT ![i] = NotAssociated]
           /\ drv' # drv => drv[i].associated
           /\ \/ link' = NoAp /\ events' = Append(events, NoAp) /\ orphan' = FALSE
              \/ UNCHANGED <<link, events>> /\ orphan' \in BOOLEAN
           /\ pc' = [pc EXCEPT ![i] = "stopping"]
           /\ UNCHANGED <<up, blocked, country, p2p, announced, acked>>
  <1>1. /\ pc' = [pc EXCEPT ![i] = "stopping"]
        /\ UNCHANGED <<up, blocked, country, p2p, announced, acked>>
    BY DEF Stop
  <1>2. CASE drv[i].associated
    <2>1. Deauthenticate(i)
      BY <1>2 DEF Stop
    <2> QED BY <1>1, <1>2, <2>1 DEF Deauthenticate, StateTypes
  <1>3. CASE ~drv[i].associated
    BY <1>1, <1>3 DEF Stop, StateTypes
  <1> QED BY <1>2, <1>3

(* The first half of stop only touches links and associations. *)
LEMMA StopStep ==
    ASSUME StateInv, NEW i \in Ifaces, Stop(i)
    PROVE  StateInv'
  <1> USE DEF StateInv
  <1>1. /\ pc' = [pc EXCEPT ![i] = "stopping"]
        /\ UNCHANGED <<up, blocked, country, p2p, announced, acked>>
        /\ drv' = drv \/ drv' = [drv EXCEPT ![i] = NotAssociated]
        /\ \/ link' = NoAp /\ events' = Append(events, NoAp) /\ orphan' = FALSE
           \/ UNCHANGED <<link, events>> /\ orphan' \in BOOLEAN
    BY StopEffect
  <1>2. AckedTypes' /\ DriverAgrees' /\ AnnouncedState' /\ NoStrayConcurrency'
    BY <1>1 DEF AckedTypes, DriverAgrees, AnnouncedState, NoStrayConcurrency
  <1>3. link' \in Aps \cup {NoAp} /\ events' \in Seq(Aps \cup {NoAp}) /\ orphan' \in BOOLEAN
    BY <1>1, LinkLost
  <1>4. drv' \in [Ifaces -> {NotAssociated} \cup [associated : {TRUE}, bssid : Aps]]
    BY <1>1 DEF StateTypes
  <1>5. StateTypes'
    BY <1>1, <1>3, <1>4 DEF StateTypes
  <1> QED BY <1>2, <1>5

(* mcc sets what it can reach, and all of it is off after mcc 0. *)
LEMMA MccStep ==
    ASSUME StateInv, Mcc
    PROVE  StateInv'
  <1> USE DEF StateInv
  <1>1. UNCHANGED <<up, link, events, orphan, blocked, country, drv, announced, pc>>
    BY DEF Mcc, kernel
  <1>2. CASE UNCHANGED <<p2p, acked>>
    BY <1>1, <1>2 DEF StateTypes, AckedTypes, DriverAgrees, AnnouncedState, NoStrayConcurrency
  <1>3. ASSUME NEW on \in BOOLEAN,
               p2p' = [p2p EXCEPT !.concurrent = IF on THEN p2p.ifaces ELSE {},
                                  !.operations = on /\ P2pExists],
               acked' = [acked EXCEPT !.mcc = IF on THEN "on" ELSE "off"]
        PROVE  StateInv'
    <2>1. /\ p2p' \in [ifaces : SUBSET {"wlan0", "p2p0"}, concurrent : SUBSET {"wlan0", "p2p0"},
                       operations : BOOLEAN]
          /\ ~on => p2p'.concurrent = {} /\ p2p'.operations = FALSE
      <3>1. (on /\ P2pExists) \in BOOLEAN /\ (~on => (on /\ P2pExists) = FALSE)
        BY <1>3
      <3>2. /\ p2p.ifaces \in SUBSET {"wlan0", "p2p0"}
            /\ (IF on THEN p2p.ifaces ELSE {}) \in SUBSET {"wlan0", "p2p0"}
        BY DEF StateTypes
      <3> HIDE DEF P2pExists
      <3>3. /\ p2p'.concurrent = IF on THEN p2p.ifaces ELSE {}
            /\ p2p'.operations = (on /\ P2pExists)
            /\ p2p' \in [ifaces : SUBSET {"wlan0", "p2p0"}, concurrent : SUBSET {"wlan0", "p2p0"},
                         operations : BOOLEAN]
        BY <1>3, <3>1, <3>2, ZenonT(40) DEF StateTypes
      <3> QED BY <3>1, <3>3
    <2>2. /\ AckedTypes' /\ acked'.sta = acked.sta /\ acked'.country = acked.country
          /\ acked'.mcc = IF on THEN "on" ELSE "off"
      BY <1>3 DEF AckedTypes
    <2>3. StateTypes'
      BY <1>1, <2>1 DEF StateTypes
    <2>4. NoStrayConcurrency'
      BY <2>1, <2>2 DEF NoStrayConcurrency
    <2>5. DriverAgrees' /\ AnnouncedState'
      BY <1>1, <2>2 DEF DriverAgrees, AnnouncedState
    <2> QED BY <2>2, <2>3, <2>4, <2>5
  <1> QED BY <1>2, <1>3 DEF Mcc

(* The rest of the system. *)
LEMMA EnvironmentStep ==
    ASSUME StateInv,
           LinkChanges \/ EventArrives \/ P2pInterface \/ \E i \in Ifaces : Restart(i)
    PROVE  StateInv'
  <1> USE DEF StateInv
  <1>1. CASE LinkChanges
    <2>1. /\ link' \in Aps \cup {NoAp} /\ events' = Append(events, link') /\ orphan' = FALSE
          /\ UNCHANGED <<up, blocked, country, drv, p2p, announced, pc, acked>>
      BY <1>1 DEF LinkChanges
    <2>2. events' \in Seq(Aps \cup {NoAp})
      BY <2>1, EventTypes
    <2>3. StateTypes'
      BY <2>1, <2>2 DEF StateTypes
    <2> QED BY <2>1, <2>3 DEF AckedTypes, DriverAgrees, AnnouncedState, NoStrayConcurrency
  <1>2. CASE EventArrives
    <2>1. /\ events # <<>> /\ events' = Tail(events)
          /\ drv' = [drv EXCEPT !["wlan0"] = IF Head(events) = NoAp THEN NotAssociated
                                       ELSE [associated |-> TRUE, bssid |-> Head(events)]]
          /\ UNCHANGED <<up, link, orphan, blocked, country, p2p, announced, pc, acked>>
      BY <1>2 DEF EventArrives
    <2>2. Head(events) \in Aps \cup {NoAp} /\ events' \in Seq(Aps \cup {NoAp})
      BY <2>1, HeadTailProperties DEF StateTypes
    <2>3. StateTypes'
      BY <2>1, <2>2 DEF StateTypes
    <2> QED BY <2>1, <2>3 DEF AckedTypes, DriverAgrees, AnnouncedState, NoStrayConcurrency
  <1>3. CASE P2pInterface
    <2>1. UNCHANGED <<up, link, events, orphan, blocked, country, drv, announced, pc, acked>>
      BY <1>3 DEF P2pInterface, kernel
    <2>2. /\ p2p' \in [ifaces : SUBSET {"wlan0", "p2p0"}, concurrent : SUBSET {"wlan0", "p2p0"},
                       operations : BOOLEAN]
          /\ p2p.concurrent = {} => p2p'.concurrent = {}
          /\ ~p2p.operations => ~p2p'.operations
      BY <1>3 DEF P2pInterface, StateTypes
    <2>3. StateTypes'
      BY <2>1, <2>2 DEF StateTypes
    <2>4. NoStrayConcurrency'
      BY <2>1, <2>2 DEF NoStrayConcurrency
    <2> QED BY <2>1, <2>3, <2>4 DEF AckedTypes, DriverAgrees, AnnouncedState
  <1>4. ASSUME NEW i \in Ifaces, Restart(i)
        PROVE  StateInv'
    <2>1. /\ pc' = [pc EXCEPT ![i] = "idle"]
          /\ drv' = [drv EXCEPT ![i] = NotAssociated]
          /\ announced' = [announced EXCEPT ![i] = "none"]
          /\ \/ /\ p2p' = NoConcurrency /\ events' = <<>> /\ orphan' \in BOOLEAN
                /\ acked' = [acked EXCEPT !.mcc = "off"]
             \/ UNCHANGED <<p2p, events, orphan, acked>>
          /\ UNCHANGED <<up, link, blocked, country>>
      BY <1>4 DEF Restart
    <2>2. /\ p2p' \in [ifaces : SUBSET {"wlan0", "p2p0"}, concurrent : SUBSET {"wlan0", "p2p0"},
                       operations : BOOLEAN]
          /\ NoStrayConcurrency'
      <3>1. CASE p2p' = NoConcurrency
        BY <3>1 DEF NoConcurrency, NoStrayConcurrency
      <3>2. CASE UNCHANGED <<p2p, acked>>
        BY <3>2 DEF NoStrayConcurrency, StateTypes
      <3> QED BY <2>1, <3>1, <3>2
    <2>3. events' \in Seq(Aps \cup {NoAp}) /\ orphan' \in BOOLEAN
      BY <2>1, EventTypes DEF StateTypes
    <2>4. StateTypes'
      BY <2>1, <2>2, <2>3 DEF StateTypes
    <2>5. AnnouncedState'
      BY <2>1 DEF AnnouncedState, StateTypes
    <2>6. AckedTypes' /\ acked'.sta = acked.sta /\ acked'.country = acked.country
      BY <2>1 DEF AckedTypes
    <2>7. DriverAgrees'
      BY <2>1, <2>6 DEF DriverAgrees
    <2> QED BY <2>2, <2>4, <2>5, <2>6, <2>7
  <1> QED BY <1>1, <1>2, <1>3, <1>4

(* Every step keeps the invariant of the state. *)
LEMMA StateStep == StateInv /\ [Next]_vars => StateInv'
  <1> SUFFICES ASSUME StateInv, [Next]_vars PROVE StateInv'
    OBVIOUS
  <1>1. CASE UNCHANGED vars
    BY <1>1 DEF vars, kernel, StateInv, StateTypes, AckedTypes, DriverAgrees, AnnouncedState,
                NoStrayConcurrency
  <1>2. CASE Next
    <2>1. CASE Quiet
      BY <2>1, QuietStep
    <2>2. ASSUME NEW i \in Ifaces, NEW c \in StaCommands, StaBlock(i, c) PROVE StateInv'
      BY <2>2, StaBlockStep
    <2>3. ASSUME NEW i \in Ifaces,
                 SetCountryOverflow(i) \/ \E c \in Countries : SetCountry(i, c)
          PROVE  StateInv'
      BY <2>3, CountryStep
    <2>4. ASSUME NEW i \in Ifaces, Start(i) \/ StopFlags(i) PROVE StateInv'
      BY <2>4, FlagsStep
    <2>5. ASSUME NEW i \in Ifaces, Stop(i) PROVE StateInv'
      BY <2>5, StopStep
    <2>6. CASE LinkChanges \/ EventArrives \/ P2pInterface \/ \E i \in Ifaces : Restart(i)
      BY <2>6, EnvironmentStep
    <2>7. CASE Mcc
      BY <2>7, MccStep
    <2> QED BY <1>2, <2>1, <2>2, <2>3, <2>4, <2>5, <2>6, <2>7 DEF Next, driver_cmd, Quiet
  <1> QED BY <1>1, <1>2

(* At the start no station is blocked, no country set, nothing announced. *)
LEMMA StateInit == Init => StateInv
  <1> SUFFICES ASSUME Init PROVE StateInv
    OBVIOUS
  <1>1. NotAssociated \in {NotAssociated} \cup [associated : {TRUE}, bssid : Aps]
    OBVIOUS
  <1>2. drv \in [Ifaces -> {NotAssociated} \cup [associated : {TRUE}, bssid : Aps]]
    BY <1>1 DEF Init
  <1>3. p2p \in [ifaces : SUBSET {"wlan0", "p2p0"}, concurrent : SUBSET {"wlan0", "p2p0"},
                operations : BOOLEAN]
    BY DEF Init, NoConcurrency
  <1>4. events \in Seq(Aps \cup {NoAp})
    BY EmptySeq DEF Init
  <1>5. StateTypes
    BY <1>2, <1>3, <1>4 DEF Init, StateTypes
  <1>6. AckedTypes /\ DriverAgrees
    BY DEF Init, AckedTypes, DriverAgrees, NoCountry, Unknown
  <1>7. AnnouncedState /\ NoStrayConcurrency
    BY DEF Init, AnnouncedState, NoStrayConcurrency, NoConcurrency
  <1> QED BY <1>5, <1>6, <1>7 DEF StateInv

(* StateInv is an invariant of both processes and the kernel. *)
LEMMA StateInvariance == Spec => []StateInv
BY StateInit, StateStep, PTL DEF Spec

(* A station or the country is as the last command with an answer of 0     *)
(* said, for both processes and every outcome of the driver.               *)
THEOREM DriverAgreement == Spec => []DriverAgrees
BY StateInvariance, PTL DEF StateInv

(* CTRL-EVENT-DRIVER-STATE tells the truth about the interface. *)
THEOREM AnnouncedTruth == Spec => []AnnouncedState
BY StateInvariance, PTL DEF StateInv

(* After mcc 0 no interface and no P2P keeps multi-channel concurrency. *)
THEOREM Concurrency == Spec => []NoStrayConcurrency
BY StateInvariance, PTL DEF StateInv

-----------------------------------------------------------------------------
(* What the process can know of its link *)

(* The last of the events after another one has come. *)
LEMMA LastEvent ==
    ASSUME StateTypes, NEW a \in Aps \cup {NoAp}, events' = Append(events, a)
    PROVE  events' # <<>> /\ events'[Len(events')] = a
BY AppendProperties DEF StateTypes

(* A process that is not associated has no access point. *)
LEMMA NotAssociatedKnows ==
    ASSUME StateTypes
    PROVE  /\ ~drv["wlan0"].associated => drv["wlan0"].bssid = NoAp
           /\ NotAssociated.associated = FALSE /\ NotAssociated.bssid = NoAp
  <1>1. NotAssociated.associated = FALSE /\ NotAssociated.bssid = NoAp
    BY DEF NotAssociated
  <1>2. drv["wlan0"] \in {NotAssociated} \cup [associated : {TRUE}, bssid : Aps]
    BY DEF StateTypes, Ifaces
  <1>3. CASE drv["wlan0"] = NotAssociated
    BY <1>1, <1>3
  <1>4. CASE drv["wlan0"] \in [associated : {TRUE}, bssid : Aps]
    BY <1>1, <1>4
  <1> QED BY <1>2, <1>3, <1>4

(* A step that loses the link and says so keeps what the process can know. *)
LEMMA LostKeeps ==
    ASSUME StateTypes, link' = NoAp, events' = Append(events, NoAp)
    PROVE  Coherent' /\ StoppingLeft'
  <1>1. events' # <<>> /\ events'[Len(events')] = NoAp
    BY LastEvent
  <1> QED BY <1>1 DEF Coherent, StoppingLeft, Told

(* Setting the flags does. *)
LEMMA FlagsKeepLink ==
    ASSUME StateTypes, LinkInv, NEW i \in Ifaces, Start(i) \/ StopFlags(i)
    PROVE  LinkInv'
  <1> USE DEF LinkInv
  <1>1. drv' = drv /\ (pc' = pc \/ pc' = [pc EXCEPT ![i] = "idle"])
    BY DEF Start, StopFlags
  <1>2. \/ UNCHANGED <<link, events, orphan>>
        \/ link' = NoAp /\ events' = Append(events, NoAp)
    BY DEF Start, StopFlags, SetFlags
  <1>3. CASE UNCHANGED <<link, events, orphan>>
    <2>1. pc'["wlan0"] = "stopping" => pc["wlan0"] = "stopping"
      BY <1>1 DEF StateTypes, Ifaces
    <2> QED BY <1>1, <1>3, <2>1 DEF Coherent, StoppingLeft, Told
  <1>4. CASE link' = NoAp /\ events' = Append(events, NoAp)
    BY <1>1, <1>4, LostKeeps
  <1> QED BY <1>2, <1>3, <1>4

(* The first half of stop: the link is left, refused, or not the one that  *)
(* the process believes in, which only happens while an event is on its    *)
(* way.                                                                    *)
LEMMA StopKeepsLink ==
    ASSUME StateTypes, LinkInv, NEW i \in Ifaces, Stop(i)
    PROVE  LinkInv'
  <1> USE DEF LinkInv
  <1>1. /\ drv' = drv \/ drv' = [drv EXCEPT ![i] = NotAssociated]
        /\ pc' = [pc EXCEPT ![i] = "stopping"]
    BY StopEffect
  <1>2. drv'["ap0"] = NotAssociated
    BY <1>1 DEF StateTypes, Ifaces
  <1>3. CASE ~drv[i].associated
    <2>1. UNCHANGED <<drv, link, events, orphan>>
      BY <1>3 DEF Stop
    <2>2. Coherent'
      BY <2>1 DEF Coherent, Told
    <2>3. StoppingLeft'
      <3>1. CASE i = "wlan0"
        BY <1>3, <2>1, <3>1 DEF StoppingLeft
      <3>2. CASE i = "ap0"
        BY <1>1, <2>1, <3>2 DEF StoppingLeft, StateTypes, Ifaces
      <3> QED BY <3>1, <3>2 DEF Ifaces
    <2> QED BY <1>2, <2>2, <2>3
  <1>4. CASE drv[i].associated
    <2>1. i = "wlan0" /\ Deauthenticate("wlan0")
      BY <1>4, NotAssociatedKnows DEF Stop, Ifaces
    <2>2. CASE link' = NoAp /\ events' = Append(events, NoAp)
      BY <1>2, <2>2, LostKeeps
    <2>3. CASE /\ UNCHANGED <<link, events>>
               /\ orphan' = (orphan \/ link = drv["wlan0"].bssid)
               /\ drv' \in {drv, [drv EXCEPT !["wlan0"] = NotAssociated]}
      <3>1. orphan' \/ (link # drv["wlan0"].bssid /\ ~orphan)
        BY <2>3 DEF StateTypes
      <3>2. CASE orphan'
        BY <1>2, <3>2 DEF Coherent, StoppingLeft
      <3>3. CASE link # drv["wlan0"].bssid /\ ~orphan
        <4>1. events # <<>> /\ link = events[Len(events)]
          BY <3>3 DEF Coherent, Told
        <4> QED BY <1>2, <2>3, <4>1 DEF Coherent, StoppingLeft, Told
      <3> QED BY <3>1, <3>2, <3>3
    <2> QED BY <2>1, <2>2, <2>3 DEF Deauthenticate
  <1> QED BY <1>3, <1>4

(* The kernel and the events: what is heard was the first of what was told.*)
LEMMA EventsKeepLink ==
    ASSUME StateTypes, LinkInv, LinkChanges \/ EventArrives \/ \E i \in Ifaces : Restart(i)
    PROVE  LinkInv'
  <1> USE DEF LinkInv
  <1>1. CASE LinkChanges
    <2>1. link' \in Aps \cup {NoAp} /\ events' = Append(events, link') /\ drv' = drv
      BY <1>1 DEF LinkChanges
    <2>2. events' # <<>> /\ events'[Len(events')] = link'
      BY <2>1, LastEvent
    <2> QED BY <2>1, <2>2 DEF Coherent, StoppingLeft, Told
  <1>2. CASE EventArrives
    <2>1. /\ events # <<>> /\ events' = Tail(events) /\ pc' = pc /\ pc["wlan0"] = "idle"
          /\ drv' = [drv EXCEPT !["wlan0"] = IF Head(events) = NoAp THEN NotAssociated
                                       ELSE [associated |-> TRUE, bssid |-> Head(events)]]
          /\ UNCHANGED <<link, orphan>>
      BY <1>2 DEF EventArrives, Idle
    <2>2. drv'["ap0"] = drv["ap0"] /\ drv'["wlan0"].bssid = Head(events)
      BY <2>1, NotAssociatedKnows DEF StateTypes, Ifaces
    <2>3. StoppingLeft'
      BY <2>1 DEF StoppingLeft
    <2>4. Told' = Told
      <3>1. events \in Seq(Aps \cup {NoAp}) /\ events # <<>>
        BY <2>1 DEF StateTypes
      <3>2. /\ Len(Tail(events)) = Len(events) - 1 /\ Len(events) \in Nat \ {0}
            /\ Head(events) = events[1]
            /\ \A k \in 1..(Len(events) - 1) : Tail(events)[k] = events[k + 1]
        BY <3>1, HeadTailProperties, LenProperties, EmptySeq
      <3>3. CASE Tail(events) = <<>>
        <4>1. Len(events) = 1
          BY <3>2, <3>3
        <4> QED BY <2>1, <2>2, <3>2, <3>3, <4>1 DEF Told
      <3>4. CASE Tail(events) # <<>>
        <4>1. Len(Tail(events)) # 0
          BY <3>1, <3>4, HeadTailProperties, EmptySeq
        <4>2. events'[Len(events')] = events[Len(events)]
          BY <2>1, <3>2, <4>1
        <4> QED BY <2>1, <3>4, <4>2 DEF Told
      <3> QED BY <3>3, <3>4
    <2>5. Coherent'
      BY <2>1, <2>4 DEF Coherent
    <2> QED BY <2>2, <2>3, <2>5
  <1>3. ASSUME NEW i \in Ifaces, Restart(i) PROVE LinkInv'
    <2>1. /\ pc' = [pc EXCEPT ![i] = "idle"] /\ link' = link
          /\ drv' = [drv EXCEPT ![i] = NotAssociated]
          /\ i = "wlan0" => events' = <<>> /\ orphan' = (link # NoAp)
          /\ i # "wlan0" => UNCHANGED <<events, orphan>>
      BY <1>3 DEF Restart
    <2>2. drv'["ap0"] = NotAssociated
      BY <2>1 DEF StateTypes, Ifaces
    <2>3. CASE i = "wlan0"
      <3>1. drv'["wlan0"] = NotAssociated /\ pc'["wlan0"] = "idle"
        BY <2>1, <2>3 DEF StateTypes, Ifaces
      <3> QED BY <2>1, <2>2, <2>3, <3>1, NotAssociatedKnows DEF Coherent, StoppingLeft, Told
    <2>4. CASE i = "ap0"
      <3>1. drv'["wlan0"] = drv["wlan0"] /\ pc'["wlan0"] = pc["wlan0"]
        BY <2>1, <2>4 DEF StateTypes, Ifaces
      <3> QED BY <2>1, <2>2, <2>4, <3>1 DEF Coherent, StoppingLeft, Told
    <2> QED BY <2>3, <2>4 DEF Ifaces
  <1> QED BY <1>1, <1>2, <1>3

(* Steps that leave link, events and associations alone. *)
LEMMA OthersKeepLink ==
    ASSUME StateTypes, LinkInv, UNCHANGED <<link, events, orphan, drv>>,
           pc' = pc \/ \E i \in Ifaces : pc' = [pc EXCEPT ![i] = "dead"]
    PROVE  LinkInv'
  <1>1. pc'["wlan0"] = "stopping" => pc["wlan0"] = "stopping"
    BY DEF StateTypes, Ifaces
  <1> QED BY <1>1 DEF LinkInv, Coherent, StoppingLeft, Told

(* Every step keeps what the process can know of its link. *)
LEMMA LinkStep == StateTypes /\ LinkInv /\ [Next]_vars => LinkInv'
  <1> SUFFICES ASSUME StateTypes, LinkInv, [Next]_vars PROVE LinkInv'
    OBVIOUS
  <1>1. CASE Quiet
    BY <1>1, QuietEffect, OthersKeepLink
  <1>2. ASSUME NEW i \in Ifaces, NEW c \in StaCommands, StaBlock(i, c) PROVE LinkInv'
    BY <1>2, OthersKeepLink DEF StaBlock
  <1>3. ASSUME NEW i \in Ifaces, SetCountryOverflow(i) \/ \E c \in Countries : SetCountry(i, c)
        PROVE  LinkInv'
    BY <1>3, OthersKeepLink DEF SetCountry, SetCountryOverflow
  <1>4. CASE Mcc \/ P2pInterface \/ UNCHANGED vars
    BY <1>4, OthersKeepLink DEF Mcc, P2pInterface, vars, kernel
  <1>5. ASSUME NEW i \in Ifaces, Start(i) \/ StopFlags(i) PROVE LinkInv'
    BY <1>5, FlagsKeepLink
  <1>6. ASSUME NEW i \in Ifaces, Stop(i) PROVE LinkInv'
    BY <1>6, StopKeepsLink
  <1>7. CASE LinkChanges \/ EventArrives \/ \E i \in Ifaces : Restart(i)
    BY <1>7, EventsKeepLink
  <1> QED BY <1>1, <1>2, <1>3, <1>4, <1>5, <1>6, <1>7 DEF Next, driver_cmd, Quiet

(* LinkInv is an invariant, for any number of events on the way. *)
LEMMA LinkInvariance == Spec => []LinkInv
  <1>1. Init => LinkInv
    BY DEF Init, LinkInv, Coherent, StoppingLeft, Told, NotAssociated, Ifaces
  <1>2. StateInv => StateTypes
    BY DEF StateInv
  <1> QED BY <1>1, <1>2, LinkStep, StateInvariance, PTL DEF Spec

(* stop takes wlan0 down under a live link only if the driver refused to   *)
(* leave it, or the process could not know of it.  Only the second half of *)
(* stop takes an interface down; a link that it then meets, without an     *)
(* event on the way, is the one of drv (Coherent), and that one has been   *)
(* left or refused (StoppingLeft).                                         *)
THEOREM LinkLeftFirst == Spec => NoKnownLinkDropped
  <1> DEFINE Leaves == up["wlan0"] /\ ~up'["wlan0"] /\ link # NoAp => orphan \/ events # <<>>
  <1>1. StateInv /\ LinkInv /\ [Next]_vars => [Leaves]_vars
    <2> SUFFICES ASSUME StateInv, LinkInv, [Next]_vars, up["wlan0"], ~up'["wlan0"], link # NoAp
                 PROVE  orphan \/ events # <<>>
      OBVIOUS
    <2>1. CASE StopFlags("wlan0")
      <3> SUFFICES ASSUME ~orphan, events = <<>> PROVE FALSE
        OBVIOUS
      <3>1. pc["wlan0"] = "stopping"
        BY <2>1 DEF StopFlags
      <3>2. link = drv["wlan0"].bssid
        BY DEF LinkInv, Coherent, Told
      <3>3. drv["wlan0"].associated
        BY <3>2, NotAssociatedKnows DEF StateInv
      <3> QED BY <3>1, <3>3 DEF LinkInv, StoppingLeft
    <2>2. CASE StopFlags("ap0") \/ Start("ap0") \/ Start("wlan0")
      <3>1. up' = up \/ up' = [up EXCEPT !["ap0"] = FALSE] \/ up' = [up EXCEPT !["ap0"] = TRUE]
            \/ up' = [up EXCEPT !["wlan0"] = TRUE]
        BY <2>2 DEF StopFlags, Start, SetFlags
      <3> QED BY <3>1 DEF StateInv, StateTypes, Ifaces
    <2>3. CASE UNCHANGED up
      BY <2>3
    <2>4. \/ StopFlags("wlan0")
          \/ StopFlags("ap0") \/ Start("ap0") \/ Start("wlan0")
          \/ UNCHANGED up
      <3>1. CASE Quiet
        BY <3>1, QuietEffect
      <3>2. ASSUME NEW i \in Ifaces, NEW c \in StaCommands, StaBlock(i, c) PROVE UNCHANGED up
        BY <3>2 DEF StaBlock
      <3>3. ASSUME NEW i \in Ifaces, SetCountryOverflow(i) \/ \E c \in Countries : SetCountry(i, c)
            PROVE  UNCHANGED up
        BY <3>3 DEF SetCountry, SetCountryOverflow
      <3>4. ASSUME NEW i \in Ifaces, Stop(i) PROVE UNCHANGED up
        BY <3>4 DEF Stop
      <3>5. CASE LinkChanges \/ EventArrives \/ P2pInterface \/ Mcc \/ \E i \in Ifaces : Restart(i)
        BY <3>5 DEF LinkChanges, EventArrives, P2pInterface, Mcc, Restart, kernel
      <3>6. CASE UNCHANGED vars
        BY <3>6 DEF vars, kernel
      <3> QED BY <3>1, <3>2, <3>3, <3>4, <3>5, <3>6 DEF Next, driver_cmd, Quiet, Ifaces
    <2> QED BY <2>1, <2>2, <2>3, <2>4
  <1>2. Spec => [][Leaves]_vars
    BY <1>1, StateInvariance, LinkInvariance, PTL DEF Spec
  <1> QED BY <1>2 DEF NoKnownLinkDropped

-----------------------------------------------------------------------------
(* The answers *)

(* The version in the upper byte is masked off: the handler found for a    *)
(* reply is that of the index of its query.                                *)
LEMMA HandlerOfIndex ==
    /\ \A sent : Stored(StatisticsIndex, sent) = sta_statistics_handler(sent)
    /\ "MTK_POOR_LINK_DETECT" \in Features =>
         \A sent : Stored(LinkDetectIndex, sent) = link_detect_handler(sent)
    /\ "MEDIATEK_WIFI_BEAM" \in Features => \A sent : Stored(GoReadyIndex, sent) = sent
  <1>1. /\ AndBits(StatisticsIndex, 0, 23) = \h10
        /\ AndBits(LinkDetectIndex, 0, 23) = \h20
        /\ AndBits(GoReadyIndex, 0, 23) = \h12
    BY DEF AndBits, StatisticsIndex, LinkDetectIndex, GoReadyIndex
  <1>2. \h10 # \h12 /\ \h10 # \h20 /\ \h12 # \h20
    OBVIOUS
  <1> QED BY <1>1, <1>2, Zenon DEF Stored, go_ready_handler

(* What a command leaves in `last'. *)
LEMMA ReturnKind ==
    ASSUME NEW ret \in -1..8, Return(ret)
    PROVE  LastInv'
BY DEF Return, LastInv
(* An answer that records what was sent records a command and its message. *)
LEMMA SentKind ==
    ASSUME NEW c \in Commands, NEW taken, NEW ret \in -1..8, Sent(c, taken, ret) PROVE LastInv'
BY ReturnKind DEF Sent, LastInv, OfCommand

(* Every answer is of one of the four kinds: the software and WAPI         *)
(* commands, the block list, the P2P tests and the queries each leave      *)
(* their own.                                                              *)
LEMMA LastStep == LastInv /\ [Next]_vars => LastInv'
  <1> SUFFICES ASSUME LastInv, [Next]_vars PROVE LastInv'
    OBVIOUS
  <1>1. CASE last' = last
    BY <1>1 DEF LastInv, QueryKinds
  <1>2. CASE last' = NoAnswer
    BY <1>2 DEF LastInv
  <1>3. ASSUME NEW i \in Ifaces, SwCmd(i) \/ SetWapiKey(i) PROVE LastInv'
    <2>1. \/ Return(-1)
          \/ \E c \in SwCommands \cup WapiCommands, o \in testmode : Sent(c, o.taken, 0)
      BY <1>3 DEF SwCmd, SetWapiKey
    <2> QED BY <2>1, ReturnKind, SentKind DEF Commands
  <1>4. ASSUME NEW i \in Ifaces, NEW c \in StaCommands, StaBlock(i, c) PROVE LastInv'
    <2>1. Return(-1) \/ \E o \in testmode : Sent(c, o.taken, o.ret)
      BY <1>4 DEF StaBlock
    <2>2. \A o \in testmode : o.ret \in -1..8
      BY DEF testmode, Outcomes
    <2> QED BY <2>1, <2>2, ReturnKind, SentKind DEF Commands
  <1>5. CASE SigmaTest
    <2>1. \/ \E c \in SigmaCommands, o \in testmode : Sent(c, o.taken, 0)
          \/ Return(-1) \/ last' = last
      BY <1>5 DEF SigmaTest
    <2> QED BY <1>1, <2>1, ReturnKind, SentKind DEF Commands
  <1>6. CASE GetStaStatistics
    <2>1. \/ \E ret \in {-1, 0} : Return(ret)
          \/ \E sent \in StatisticsReplies :
               Replied("statistics", sent, print_sta_statistics(Stored(StatisticsIndex, sent)), 1)
      BY <1>6 DEF GetStaStatistics
    <2>2. ASSUME NEW sent \in StatisticsReplies,
                 Replied("statistics", sent, print_sta_statistics(Stored(StatisticsIndex, sent)), 1)
          PROVE  LastInv'
      <3>1. last' = OfQuery(1, "statistics", sent, print_sta_statistics(sta_statistics_handler(sent)))
        BY <2>2, HandlerOfIndex DEF Replied, OfQuery
      <3>2. 1 \in -1..8 OBVIOUS
      <3> QED BY <3>1, <3>2, Zenon DEF LastInv, QueryKinds
    <2>3. CASE \E ret \in {-1, 0} : Return(ret)
      BY <2>3, ReturnKind
    <2> QED BY <2>1, <2>2, <2>3
  <1>7. CASE GetStaLinkDetect
    <2>1. \/ Return(-1)
          \/ \E sent \in LinkReplies, lines \in 0..8 :
               Replied("link_detect", sent, print_link_detect(Stored(LinkDetectIndex, sent), lines), lines)
      BY <1>7 DEF GetStaLinkDetect
    <2>2. ASSUME NEW sent \in LinkReplies, NEW lines \in 0..8,
                 Replied("link_detect", sent, print_link_detect(Stored(LinkDetectIndex, sent), lines), lines)
          PROVE  LastInv'
      <3>1. last' = OfQuery(lines, "link_detect", sent, print_link_detect(link_detect_handler(sent), lines))
        BY <1>7, <2>2, HandlerOfIndex DEF GetStaLinkDetect, Replied, OfQuery
      <3>2. lines \in -1..8 OBVIOUS
      <3> QED BY <3>1, <3>2, Zenon DEF LastInv, QueryKinds
    <2> QED BY <2>1, <2>2, ReturnKind
  <1>8. CASE GoReady
    <2>1. \/ Return(-1)
          \/ \E sent \in GoReadySent : Replied("go_ready", sent, Stored(GoReadyIndex, sent), 0)
      BY <1>8 DEF GoReady
    <2>2. ASSUME NEW sent \in GoReadySent, Replied("go_ready", sent, Stored(GoReadyIndex, sent), 0)
          PROVE  LastInv'
      <3>1. last' = OfQuery(0, "go_ready", sent, sent)
        BY <1>8, <2>2, HandlerOfIndex DEF GoReady, Replied, OfQuery
      <3>2. 0 \in -1..8 OBVIOUS
      <3> QED BY <3>1, <3>2, Zenon DEF LastInv, QueryKinds
    <2> QED BY <2>1, <2>2, ReturnKind
  <1>9. CASE \E ret \in -1..8 : Return(ret)
    BY <1>9, ReturnKind
  <1>10. ASSUME NEW i \in Ifaces,
                NoEffect(i) \/ WapiMsgSend(i) \/ IgnoredCall(i) \/ Start(i) \/ Stop(i)
                \/ StopFlags(i) \/ Restart(i) \/ SetCountryOverflow(i)
                \/ \E c \in Countries : SetCountry(i, c)
         PROVE  last' = last \/ \E ret \in -1..8 : Return(ret)
    <2>1. \A o \in Outcomes : o.ret \in -1..8
      BY DEF Outcomes
    <2>2. -1 \in -1..8 /\ 0 \in -1..8 /\ 1 \in -1..8
      OBVIOUS
    <2> QED BY <1>10, <2>1, <2>2 DEF NoEffect, WapiMsgSend, IgnoredCall, Start, Stop, StopFlags,
                                     Restart, SetCountry, SetCountryOverflow
  <1>11. CASE MacAddr \/ Mcc \/ UndefinedContext
    <2>1. -1 \in -1..8 /\ 0 \in -1..8 /\ 1 \in -1..8
      OBVIOUS
    <2>2. last' = last \/ \E ret \in -1..8 : Return(ret)
      BY <1>11, <2>1 DEF MacAddr, Mcc, UndefinedContext
    <2> QED BY <1>1, <1>9, <2>2
  <1>12. CASE LinkChanges \/ EventArrives \/ P2pInterface \/ UNCHANGED vars
    BY <1>1, <1>12 DEF LinkChanges, EventArrives, P2pInterface, vars
  <1>13. CASE Answer
    BY <1>2, <1>13 DEF Answer
  <1> QED BY <1>1, <1>3, <1>4, <1>5, <1>6, <1>7, <1>8, <1>9, <1>10, <1>11, <1>12, <1>13
          DEF Next, driver_cmd

(* LastInv is an invariant: an answer belongs to one command. *)
LEMMA LastInvariance == Spec => []LastInv
  <1>1. Init => LastInv
    BY DEF Init, LastInv
  <1> QED BY <1>1, LastStep, PTL DEF Spec

(* Which fields an answer has. *)
LEMMA LastKinds ==
    ASSUME LastInv
    PROVE  /\ "message" \in DOMAIN last =>
                \E ret \in -1..8, c \in Commands : last = OfCommand(ret, c)
           /\ "query" \in DOMAIN last => \E ret \in -1..8 : QueryKinds(ret)
           /\ last = NoAnswer \/ last.ret \in -1..8
  <1>1. CASE last = NoAnswer
    <2>1. DOMAIN last = {}
      BY <1>1 DEF NoAnswer
    <2> QED BY <1>1, <2>1
  <1>2. ASSUME NEW ret \in -1..8, last = [ret |-> ret]
        PROVE  DOMAIN last = {"ret"} /\ last.ret = ret
    BY <1>2
  <1>3. ASSUME NEW ret \in -1..8, NEW c, last = OfCommand(ret, c)
        PROVE  DOMAIN last = {"ret", "command", "message"} /\ last.ret = ret
    BY <1>3 DEF OfCommand
  <1>4. ASSUME NEW ret \in -1..8, NEW q, NEW sent, NEW printed, last = OfQuery(ret, q, sent, printed)
        PROVE  DOMAIN last = {"ret", "query", "sent", "printed"} /\ last.ret = ret
    BY <1>4 DEF OfQuery
  <1>5. CASE \E ret \in -1..8 : last = [ret |-> ret]
    BY <1>2, <1>5
  <1>6. CASE \E ret \in -1..8, c \in Commands : last = OfCommand(ret, c)
    BY <1>3, <1>6
  <1>7. CASE \E ret \in -1..8 : QueryKinds(ret)
    <2>1. PICK ret \in -1..8 : QueryKinds(ret)
      BY <1>7
    <2>2. \E q, sent, printed : last = OfQuery(ret, q, sent, printed)
      BY <2>1, Zenon DEF QueryKinds
    <2>3. DOMAIN last = {"ret", "query", "sent", "printed"} /\ last.ret = ret
      BY <1>4, <2>2
    <2> QED BY <1>7, <2>3
  <1> QED BY <1>1, <1>5, <1>6, <1>7 DEF LastInv

(* What a query's answer holds. *)
LEMMA QueryParts ==
    ASSUME NEW ret, NEW q, NEW sent, NEW printed, last = OfQuery(ret, q, sent, printed)
    PROVE  last.ret = ret /\ last.query = q /\ last.sent = sent /\ last.printed = printed
BY DEF OfQuery

(* The type invariant of commands, kernel and answers. *)
THEOREM TypeCorrect == Spec => []TypeOK
  <1>1. StateInv /\ LastInv => TypeOK
    BY LastKinds DEF StateInv, StateTypes, TypeOK
  <1> QED BY <1>1, StateInvariance, LastInvariance, PTL

(* ((int)raw - 220) / 2 in C, within half a unit and never across zero. *)
LEMMA RssiRounding ==
    ASSUME NEW raw \in UInt8
    PROVE  /\ 2 * Rssi(raw) \in (raw - 221)..(raw - 219)
           /\ raw <= 220 => Rssi(raw) <= 0
           /\ raw >= 220 => Rssi(raw) >= 0
BY SMT DEF Rssi, UInt8

(* A count is shown as it is below 2^31, and below zero from there on. *)
LEMMA CountShown ==
    ASSUME NEW w, w \in UInt32
    PROVE  ShowsCount(AsInt(w), w)
  <1>1. PICK t \in {0, 1}, r \in 0..IntMax : w = <<t, r>>
    BY DEF UInt32
  <1>2. w[1] = t /\ w[2] = r
    BY <1>1
  <1>3. IntMax \in Int
    BY DEF IntMax
  <1>4. t = 1 => (r - IntMax) - 1 < 0
    BY <1>3
  <1> QED BY <1>2, <1>3, <1>4 DEF ShowsCount, AsInt

(* Half of the rate, in tenths. *)
LEMMA RateShown ==
    ASSUME NEW raw \in UInt16
    PROVE  10 * (raw \div 2) + 5 * (raw % 2) = 5 * raw /\ 5 * (raw % 2) \in 0..9
BY SMT DEF UInt16

(* From attribute to line: the switch of the handler and the labels of the *)
(* printer agree about every field between them.                           *)
LEMMA LineOfAttribute ==
    /\ DOMAIN StatisticsLines \subseteq DOMAIN Expected
    /\ \A l \in DOMAIN StatisticsLines : /\ StatisticsLines[l] \in DOMAIN StatisticsFields
                                         /\ StatisticsFields[StatisticsLines[l]] = Expected[l]
BY SMT DEF StatisticsLines, StatisticsFields, Expected

(* What the handler of the statistics keeps of an attribute. *)
LEMMA FieldStored ==
    ASSUME NEW sent, NEW f \in DOMAIN StatisticsFields, StatisticsFields[f] \in DOMAIN sent
    PROVE  LET stats == sta_statistics_handler(sent)
               raw == sent[StatisticsFields[f]]
           IN /\ f \in DOMAIN stats
              /\ f = "rssi" => stats[f] = Rssi(raw)
              /\ f = "tx_rate" => stats[f] = <<raw \div 2, 5 * (raw % 2)>>
              /\ f \notin {"rssi", "tx_rate"} => stats[f] = raw
  <1> DEFINE raw == sent[StatisticsFields[f]]
             stats == sta_statistics_handler(sent)
             value == CASE f = "rssi" -> Rssi(raw)
                        [] f = "tx_rate" -> <<raw \div 2, 5 * (raw % 2)>>
                        [] OTHER -> raw
  <1>1. f \in DOMAIN stats /\ stats[f] = value
    BY Zenon DEF sta_statistics_handler
  <1>2. "rssi" # "tx_rate"
    OBVIOUS
  <1> HIDE DEF raw, stats
  <1>3. /\ f = "rssi" => value = Rssi(raw)
        /\ f = "tx_rate" => value = <<raw \div 2, 5 * (raw % 2)>>
        /\ f \notin {"rssi", "tx_rate"} => value = raw
    BY <1>2, Zenon
  <1> QED BY <1>1, <1>3 DEF raw, stats

(* What each kind of line shows of a field that was stored. *)
LEMMA LinePrinted ==
    ASSUME NEW stats, NEW l \in DOMAIN StatisticsLines, StatisticsLines[l] \in DOMAIN stats
    PROVE  LET field == stats[StatisticsLines[l]]
               shown == print_sta_statistics(stats)[l]
           IN /\ l \in CountLines => shown = AsInt(field)
              /\ l \in ClassLines => shown = [tc \in 1..4 |-> AsInt(field[tc])]
              /\ l = "reserved0" => shown = field[1]
              /\ l = "reserved1" => shown = field[2]
              /\ l \notin CountLines \cup ClassLines \cup {"reserved0", "reserved1"} => shown = field
  <1> DEFINE f == StatisticsLines[l]
             In == f \in DOMAIN stats
             C == l \in CountLines
             T == l \in ClassLines
             R0 == l = "reserved0"
             R1 == l = "reserved1"
             value == CASE ~In -> Garbage
                        [] In /\ C -> AsInt(stats[f])
                        [] In /\ T -> [tc \in 1..4 |-> AsInt(stats[f][tc])]
                        [] In /\ R0 -> stats[f][1]
                        [] In /\ R1 -> stats[f][2]
                        [] OTHER -> stats[f]
  <1>1. print_sta_statistics(stats)[l] = value
    BY Zenon DEF print_sta_statistics
  <1>2. (C => ~T /\ ~R0 /\ ~R1) /\ (T => ~R0 /\ ~R1) /\ (R0 => ~R1)
    BY DEF CountLines, ClassLines
  <1>3. In
    OBVIOUS
  <1> HIDE DEF In, C, T, R0, R1, f
  <1>4. /\ C => value = AsInt(stats[f])
        /\ T => value = [tc \in 1..4 |-> AsInt(stats[f][tc])]
        /\ R0 => value = stats[f][1]
        /\ R1 => value = stats[f][2]
        /\ ~C /\ ~T /\ ~R0 /\ ~R1 => value = stats[f]
    BY <1>2, <1>3, Zenon
  <1> HIDE DEF value
  <1> QED BY <1>1, <1>4 DEF C, T, R0, R1, f

(* The kinds of the fields behind the lines. *)
LEMMA LineKinds ==
    ASSUME NEW l \in DOMAIN StatisticsLines
    PROVE  /\ StatisticsLines[l] = "rssi" <=> l = "rssi"
           /\ StatisticsLines[l] = "tx_rate" <=> l = "rate"
           /\ l \in CountLines => Expected[l] \in {"TOTAL_CNT", "THRESHOLD_CNT", "FAIL_CNT",
                                     "TIMEOUT_CNT", "AVG_PROCESS_TIME", "AVG_AIR_TIME"}
           /\ l \in ClassLines => Expected[l] \in {"TC_EMPTY_CNT_ARRAY", "TC_QUE_LEN_ARRAY",
                                     "TC_AVG_QUE_LEN_ARRAY", "TC_CUR_QUE_LEN_ARRAY"}
           /\ Expected["rssi"] = "RSSI" /\ Expected["rate"] = "TX_RATE"
           /\ CountLines \cap (ClassLines \cup {"rssi", "rate", "reserved0", "reserved1"}) = {}
           /\ ClassLines \cap {"rssi", "rate", "reserved0", "reserved1"} = {}
BY SMT DEF StatisticsLines, Expected, CountLines, ClassLines

(* What a line of the statistics owes to its reader. *)
LineFaithful(l, raw, shown) ==
    CASE l \in CountLines -> ShowsCount(shown, raw)
      [] l \in ClassLines -> \A tc \in 1..4 : ShowsCount(shown[tc], raw[tc])
      [] l = "rate" -> 10 * shown[1] + shown[2] = 5 * raw /\ shown[2] \in 0..9
      [] l = "rssi" -> /\ 2 * shown \in (raw - 221)..(raw - 219)
                       /\ (raw <= 220 => shown <= 0) /\ (raw >= 220 => shown >= 0)
      [] l = "reserved0" -> shown = raw[1]
      [] l = "reserved1" -> shown = raw[2]
      [] OTHER -> shown = raw

(* Every line pays it, for any reply the driver may send. *)
LEMMA LinesFaithful ==
    ASSUME NEW sent \in StatisticsReplies, NEW l \in DOMAIN StatisticsLines,
           Expected[l] \in DOMAIN sent
    PROVE  LineFaithful(l, sent[Expected[l]], print_sta_statistics(sta_statistics_handler(sent))[l])
  <1> DEFINE a == Expected[l]
             raw == sent[a]
             stats == sta_statistics_handler(sent)
             field == stats[StatisticsLines[l]]
             shown == print_sta_statistics(stats)[l]
  <1>1. /\ StatisticsLines[l] \in DOMAIN stats
        /\ l = "rssi" => field = Rssi(raw)
        /\ l = "rate" => field = <<raw \div 2, 5 * (raw % 2)>>
        /\ l \notin {"rssi", "rate"} => field = raw
    BY FieldStored, LineOfAttribute, LineKinds
  <1>2. /\ l \in CountLines => shown = AsInt(field)
        /\ l \in ClassLines => shown = [tc \in 1..4 |-> AsInt(field[tc])]
        /\ l = "reserved0" => shown = field[1]
        /\ l = "reserved1" => shown = field[2]
        /\ l \notin CountLines \cup ClassLines \cup {"reserved0", "reserved1"} => shown = field
    BY <1>1, LinePrinted
  <1>3. /\ l \in CountLines => a \in {"TOTAL_CNT", "THRESHOLD_CNT", "FAIL_CNT", "TIMEOUT_CNT",
                                     "AVG_PROCESS_TIME", "AVG_AIR_TIME"}
        /\ l \in ClassLines => a \in {"TC_EMPTY_CNT_ARRAY", "TC_QUE_LEN_ARRAY",
                                     "TC_AVG_QUE_LEN_ARRAY", "TC_CUR_QUE_LEN_ARRAY"}
        /\ l = "rssi" => a = "RSSI"
        /\ l = "rate" => a = "TX_RATE"
    BY LineKinds
  <1>4. /\ l \in CountLines => /\ l \notin ClassLines /\ l # "rate" /\ l # "rssi"
                              /\ l # "reserved0" /\ l # "reserved1"
        /\ l \in ClassLines => l # "rate" /\ l # "rssi" /\ l # "reserved0" /\ l # "reserved1"
    BY LineKinds
  <1> HIDE DEF a
  <1>5. /\ a = "RSSI" => raw \in UInt8
        /\ a = "TX_RATE" => raw \in UInt16
        /\ a \in {"TOTAL_CNT", "THRESHOLD_CNT", "FAIL_CNT", "TIMEOUT_CNT", "AVG_PROCESS_TIME",
                  "AVG_AIR_TIME"} => raw \in UInt32
        /\ a \in {"TC_EMPTY_CNT_ARRAY", "TC_QUE_LEN_ARRAY", "TC_AVG_QUE_LEN_ARRAY",
                  "TC_CUR_QUE_LEN_ARRAY"} => \A tc \in 1..4 : raw[tc] \in UInt32
    <2>1. a \in DOMAIN sent
      BY DEF a
    <2> QED BY <2>1, StatisticsAssumption, Zenon
  <1> HIDE DEF raw, stats, field, shown
  <1>6. CASE l \in CountLines
    <2>1. raw \in UInt32 /\ shown = AsInt(raw)
      BY <1>1, <1>2, <1>3, <1>4, <1>5, <1>6, Zenon
    <2>2. ShowsCount(shown, raw)
      BY <2>1, CountShown
    <2>3. LineFaithful(l, raw, shown)
      BY <1>4, <1>6, <2>2, Zenon DEF LineFaithful
    <2> QED BY <2>3, Zenon DEF a, raw, shown, stats
  <1>7. CASE l \in ClassLines
    <2>1. \A tc \in 1..4 : raw[tc] \in UInt32
      BY <1>3, <1>5, <1>7, Zenon
    <2>2. field = raw /\ shown = [tc \in 1..4 |-> AsInt(field[tc])]
      BY <1>1, <1>2, <1>4, <1>7, Zenon
    <2>3. \A tc \in 1..4 : shown[tc] = AsInt(raw[tc])
      BY <2>2, Zenon
    <2>4. \A tc \in 1..4 : ShowsCount(shown[tc], raw[tc])
      BY <2>1, <2>3, CountShown, Zenon
    <2>5. LineFaithful(l, raw, shown)
      BY <1>4, <1>7, <2>4, Zenon DEF LineFaithful
    <2> QED BY <2>5, Zenon DEF a, raw, shown, stats
  <1>8. CASE l = "rate"
    <2>1. raw \in UInt16
      BY <1>3, <1>5, <1>8, Zenon
    <2>2. l \notin CountLines /\ l \notin ClassLines /\ l # "reserved0" /\ l # "reserved1"
      BY <1>4, <1>8
    <2>3. shown = <<raw \div 2, 5 * (raw % 2)>>
      BY <1>1, <1>2, <1>8, <2>2, Zenon
    <2>4. shown[1] = raw \div 2 /\ shown[2] = 5 * (raw % 2)
      BY <2>3
    <2>5. 10 * shown[1] + shown[2] = 5 * raw /\ shown[2] \in 0..9
      BY <2>1, <2>4, RateShown, Zenon
    <2>6. LineFaithful(l, raw, shown)
      BY <1>8, <2>2, <2>5, Zenon DEF LineFaithful
    <2> QED BY <2>6, Zenon DEF a, raw, shown, stats
  <1>9. CASE l = "rssi"
    <2>1. raw \in UInt8
      BY <1>3, <1>5, <1>9, Zenon
    <2>2. l \notin CountLines /\ l \notin ClassLines /\ l # "reserved0" /\ l # "reserved1"
          /\ l # "rate"
      BY <1>4, <1>9
    <2>3. shown = Rssi(raw)
      BY <1>1, <1>2, <1>9, <2>2, Zenon
    <2>4. /\ 2 * shown \in (raw - 221)..(raw - 219)
          /\ (raw <= 220 => shown <= 0) /\ (raw >= 220 => shown >= 0)
      BY <2>1, <2>3, RssiRounding
    <2>5. LineFaithful(l, raw, shown)
      BY <1>9, <2>2, <2>4, Zenon DEF LineFaithful
    <2> QED BY <2>5, Zenon DEF a, raw, shown, stats
  <1>10. CASE l \notin CountLines \cup ClassLines \cup {"rate", "rssi"}
    <2>1. /\ l = "reserved0" => shown = raw[1]
          /\ l = "reserved1" => shown = raw[2]
          /\ l \notin {"reserved0", "reserved1"} => shown = raw
      BY <1>1, <1>2, <1>10, Zenon
    <2>2. "reserved0" # "reserved1"
      OBVIOUS
    <2>3. LineFaithful(l, raw, shown)
      BY <1>10, <2>1, <2>2, Zenon DEF LineFaithful
    <2> QED BY <2>3, Zenon DEF a, raw, shown, stats
  <1> QED BY <1>6, <1>7, <1>8, <1>9, <1>10, Zenon

(* The printed statistics: whatever the driver sends, each line that has   *)
(* its attribute shows it in the units a reader expects; the labels of the *)
(* printer and the cases of the handler go through the same fields.        *)
THEOREM StatisticsAsSent == Spec => []StatisticsFaithful
  <1>1. LastInv => StatisticsFaithful
    <2> SUFFICES ASSUME LastInv, "query" \in DOMAIN last, last.query = "statistics",
                        NEW l \in DOMAIN StatisticsLines, Expected[l] \in DOMAIN last.sent
                 PROVE  LineFaithful(l, last.sent[Expected[l]], last.printed[l])
      BY Zenon DEF StatisticsFaithful, LineFaithful
    <2>1. PICK ret \in -1..8 : QueryKinds(ret)
      BY LastKinds
    <2>2. "statistics" # "link_detect" /\ "statistics" # "go_ready"
      OBVIOUS
    <2>3. \E sent \in StatisticsReplies :
             last = OfQuery(ret, "statistics", sent, print_sta_statistics(sta_statistics_handler(sent)))
      BY <2>1, <2>2, QueryParts, Zenon DEF QueryKinds
    <2>4. PICK sent \in StatisticsReplies :
             last = OfQuery(ret, "statistics", sent, print_sta_statistics(sta_statistics_handler(sent)))
      BY <2>3
    <2>5. last.sent = sent /\ last.printed = print_sta_statistics(sta_statistics_handler(sent))
      BY <2>4, QueryParts
    <2> QED BY <2>5, LinesFaithful
  <1> QED BY <1>1, LastInvariance, PTL

(* The labels of link detection, the fields behind them and the cases of   *)
(* the handler agree, and no label comes twice.                            *)
LEMMA LinkLineOf ==
    /\ \A j \in 1..8 : /\ LinkLines[j][1] \in DOMAIN Expected
                       /\ LinkLines[j][2] \in DOMAIN LinkFields
                       /\ LinkFields[LinkLines[j][2]] = Expected[LinkLines[j][1]]
                       /\ Expected[LinkLines[j][1]] = "ACK_FAIL_CNT" <=> LinkLines[j][2] = "ack_fail_cnt"
    /\ \A j, k \in 1..8 : LinkLines[j][1] = LinkLines[k][1] => j = k
  <1>1. ASSUME NEW j \in 1..8
        PROVE  /\ LinkLines[j][1] \in DOMAIN Expected
               /\ LinkLines[j][2] \in DOMAIN LinkFields
               /\ LinkFields[LinkLines[j][2]] = Expected[LinkLines[j][1]]
               /\ Expected[LinkLines[j][1]] = "ACK_FAIL_CNT" <=> LinkLines[j][2] = "ack_fail_cnt"
    <2>1. j = 1 \/ j = 2 \/ j = 3 \/ j = 4 \/ j = 5 \/ j = 6 \/ j = 7 \/ j = 8
      OBVIOUS
    <2> QED BY <2>1, SMT DEF LinkLines, LinkFields, Expected
  <1>2. \A j, k \in 1..8 : LinkLines[j][1] = LinkLines[k][1] => j = k
    BY SMT DEF LinkLines
  <1> QED BY <1>1, <1>2

(* What line j of link detection owes to its reader. *)
LinkLineFaithful(sent, lines, ret, j) ==
    LET a == Expected[lines[j].label]
        shown == lines[j].count
    IN /\ a \in DOMAIN sent =>
            IF a # "ACK_FAIL_CNT" THEN shown = sent[a]
            ELSE shown >= 0 /\ shown \in {sent[a], -sent[a]}
       /\ \A k \in 1..ret : lines[k].label = lines[j].label => k = j

(* Every line that fits pays it. *)
LEMMA LinkLinesFaithful ==
    ASSUME NEW sent \in LinkReplies, NEW ret \in 0..8, NEW j \in 1..ret
    PROVE  LinkLineFaithful(sent, print_link_detect(link_detect_handler(sent), ret), ret, j)
  <1> DEFINE counts == link_detect_handler(sent)
             lines == print_link_detect(counts, ret)
             f == LinkLines[j][2]
             a == Expected[LinkLines[j][1]]
  <1>1. j \in 1..8 /\ \A k \in 1..ret : k \in 1..8
    OBVIOUS
  <1>2. /\ lines[j].count = IF f \in DOMAIN counts THEN counts[f] ELSE Garbage
        /\ \A k \in 1..ret : lines[k].label = LinkLines[k][1]
    BY DEF print_link_detect
  <1>3. f \in DOMAIN LinkFields /\ LinkFields[f] = a /\ (a = "ACK_FAIL_CNT" <=> f = "ack_fail_cnt")
    BY <1>1, LinkLineOf
  <1>4. Expected[lines[j].label] = a
    BY <1>2
  <1> HIDE DEF f, a, lines
  <1>5. ASSUME a \in DOMAIN sent
        PROVE  IF a # "ACK_FAIL_CNT" THEN lines[j].count = sent[a]
               ELSE lines[j].count >= 0 /\ lines[j].count \in {sent[a], -sent[a]}
    <2>1. /\ f \in DOMAIN counts
          /\ counts[f] = IF f = "ack_fail_cnt" /\ sent[a] < 0 THEN -sent[a] ELSE sent[a]
      BY <1>3, <1>5, Zenon DEF link_detect_handler
    <2>2. sent[a] \in Int
      BY <1>5, LinkAssumption
    <2>3. lines[j].count = counts[f]
      BY <1>2, <2>1
    <2> HIDE DEF counts
    <2> QED BY <1>3, <2>1, <2>2, <2>3
  <1>6. \A k \in 1..ret : lines[k].label = lines[j].label => k = j
    BY <1>1, <1>2, LinkLineOf
  <1>7. LinkLineFaithful(sent, lines, ret, j)
    BY <1>4, <1>5, <1>6, Zenon DEF LinkLineFaithful
  <1> QED BY <1>7 DEF lines

(* Link detection: however many lines fit, each shows the count it is      *)
(* named for, once, and missing acknowledgements are never below zero.     *)
THEOREM LinkDetectAsSent == Spec => []LinkDetectFaithful
  <1>1. LastInv => LinkDetectFaithful
    <2> SUFFICES ASSUME LastInv, "query" \in DOMAIN last, last.query = "link_detect",
                        NEW j \in 1..last.ret
                 PROVE  LinkLineFaithful(last.sent, last.printed, last.ret, j)
      BY Zenon DEF LinkDetectFaithful, LinkLineFaithful
    <2>1. PICK ret \in -1..8 : QueryKinds(ret)
      BY LastKinds
    <2>2. "link_detect" # "statistics" /\ "link_detect" # "go_ready"
      OBVIOUS
    <2>3. ret \in 0..8 /\ \E sent \in LinkReplies :
             last = OfQuery(ret, "link_detect", sent, print_link_detect(link_detect_handler(sent), ret))
      BY <2>1, <2>2, QueryParts, Zenon DEF QueryKinds
    <2>4. PICK sent \in LinkReplies :
             last = OfQuery(ret, "link_detect", sent, print_link_detect(link_detect_handler(sent), ret))
      BY <2>3
    <2>5. /\ last.sent = sent /\ last.ret = ret
          /\ last.printed = print_link_detect(link_detect_handler(sent), ret)
      BY <2>4, QueryParts
    <2>6. LinkLineFaithful(sent, print_link_detect(link_detect_handler(sent), ret), ret, j)
      BY <2>3, <2>5, LinkLinesFaithful
    <2> QED BY <2>5, <2>6, Zenon
  <1> QED BY <1>1, LastInvariance, PTL

-----------------------------------------------------------------------------
(* The messages tell the commands apart *)

(* Two messages are the same only if their indices and bodies are. *)
LEMMA MsgParts ==
    ASSUME NEW i \in Int, NEW j \in Int, NEW b, NEW d, Msg(i, b) = Msg(j, d)
    PROVE  i = j /\ b = d
  <1>1. Msg(i, b).index = Msg(j, d).index /\ Msg(i, b).body = Msg(j, d).body
    OBVIOUS
  <1>2. i + 2^24 = j + 2^24 /\ b = d
    BY <1>1 DEF Msg
  <1> QED BY <1>2

(* A command is its name and its arguments. *)
LEMMA CommandParts ==
    ASSUME NEW c \in Commands, NEW d \in Commands, c.cmd = d.cmd, c.args = d.args
    PROVE  c = d
BY DEF Commands, SwCommands, StaCommands, WapiCommands, SigmaCommands, Built

(* Which branch of the message builders a command takes. *)
LEMMA MessageBranch ==
    ASSUME NEW c
    PROVE  /\ c.cmd \in PlainCommands => Message(c) = Msg(1, PlainWord(c.cmd))
           /\ c.cmd \in NumberCommands => Message(c) = Msg(1, NumberWord(c.cmd, c.args[1]))
           /\ c.cmd \in {"p2p_set_sleep", "p2p_set_opps", "p2p_set_power_save"} =>
                 Message(c) = Msg(1, <<SigmaIdx[c.cmd], c.args[1]>>)
           /\ c.cmd = "set-wapi-key" =>
                 Message(c) = Msg(2, WapiBody(c.args[1], c.args[2], c.args[3]))
           /\ c.cmd = "STA-BLOCK" => Message(c) = Msg(3, <<1, c.args[1]>>)
           /\ c.cmd = "STA-UNBLOCK" => Message(c) = Msg(3, <<0, c.args[1]>>)
  <1>1. DOMAIN SigmaIdx = {"p2p_set_sleep", "p2p_set_opps", "p2p_set_power_save"}
    BY DEF SigmaIdx
  <1> DEFINE P == c.cmd \in PlainCommands
             N == c.cmd \in NumberCommands
             S == c.cmd \in DOMAIN SigmaIdx
             W == c.cmd = "set-wapi-key"
             B == c.cmd = "STA-BLOCK"
             U == c.cmd = "STA-UNBLOCK"
  <1>2. /\ P => ~N /\ ~S /\ ~W /\ ~B /\ ~U
        /\ N => ~S /\ ~W /\ ~B /\ ~U
        /\ S => ~W /\ ~B /\ ~U
        /\ W => ~B /\ ~U
        /\ B => ~U
    BY <1>1 DEF PlainCommands, NumberCommands
  <1>3. Message(c) =
            CASE P -> Msg(1, PlainWord(c.cmd))
              [] N -> Msg(1, NumberWord(c.cmd, c.args[1]))
              [] S -> Msg(1, <<SigmaIdx[c.cmd], c.args[1]>>)
              [] W -> Msg(2, WapiBody(c.args[1], c.args[2], c.args[3]))
              [] B -> Msg(3, <<1, c.args[1]>>)
              [] U -> Msg(3, <<0, c.args[1]>>)
    BY Zenon DEF Message
  <1>4. P => Message(c) = Msg(1, PlainWord(c.cmd))
    BY <1>2, <1>3, Zenon
  <1>5. N => Message(c) = Msg(1, NumberWord(c.cmd, c.args[1]))
    BY <1>2, <1>3, Zenon
  <1>6. S => Message(c) = Msg(1, <<SigmaIdx[c.cmd], c.args[1]>>)
    BY <1>2, <1>3, Zenon
  <1>7. W => Message(c) = Msg(2, WapiBody(c.args[1], c.args[2], c.args[3]))
    BY <1>2, <1>3, Zenon
  <1>8. B => Message(c) = Msg(3, <<1, c.args[1]>>)
    BY <1>2, <1>3, Zenon
  <1>9. U => Message(c) = Msg(3, <<0, c.args[1]>>)
    BY <1>2, <1>3, Zenon
  <1> QED BY <1>1, <1>4, <1>5, <1>6, <1>7, <1>8, <1>9

(* The words of the software commands: hi and lo are the halves of adr. *)
SwWord(c, hi, lo, data) ==
    \/ /\ c.args = <<>>
       /\ \/ c.cmd = "rxfilter-stop" /\ hi = \h9F00 /\ lo = 0 /\ data = \h00900000
          \/ c.cmd = "rxfilter-start" /\ hi = \h9F00 /\ lo = 0 /\ data = \h00900100
          \/ c.cmd = "smt-test-on" /\ hi = \hFFFF /\ lo = \h1234 /\ data = 0
          \/ c.cmd = "smt-test-off" /\ hi = \hFFFF /\ lo = \h1235 /\ data = 0
    \/ \E n \in Numbers :
         /\ c.args = <<n>>
         /\ \/ c.cmd = "rxfilter-add" /\ hi = \h9F00 /\ lo = 0 /\ data = \h00900200 + n
            \/ c.cmd = "rxfilter-remove" /\ hi = \h9F00 /\ lo = 0 /\ data = \h00900300 + n
            \/ c.cmd = "smt-rate" /\ hi = \hFFFF /\ lo = \h0123 /\ data = n

(* The words of the software commands without a number. *)
LEMMA PlainWords ==
    /\ PlainWord("rxfilter-stop") = <<1, <<\h9F00, 0>>, \h00900000>>
    /\ PlainWord("rxfilter-start") = <<1, <<\h9F00, 0>>, \h00900100>>
    /\ PlainWord("smt-test-on") = <<1, <<\hFFFF, \h1234>>, 0>>
    /\ PlainWord("smt-test-off") = <<1, <<\hFFFF, \h1235>>, 0>>
BY DEF PlainWord, RxFilter

(* The words of the software commands with a number. *)
LEMMA NumberWords ==
    ASSUME NEW n
    PROVE  /\ NumberWord("rxfilter-add", n) = <<1, <<\h9F00, 0>>, \h00900200 + n>>
           /\ NumberWord("rxfilter-remove", n) = <<1, <<\h9F00, 0>>, \h00900300 + n>>
           /\ NumberWord("smt-rate", n) = <<1, <<\hFFFF, \h0123>>, n>>
BY DEF NumberWord, RxFilter

(* Numbers are not negative. *)
LEMMA NumbersNat == \A n \in Numbers : n \in Int /\ 0 <= n
BY NumbersAssumption

(* The word of a software command. *)
Word(c) == IF c.cmd \in PlainCommands THEN PlainWord(c.cmd) ELSE NumberWord(c.cmd, c.args[1])

(* A software command has no argument or one number. *)
LEMMA SwKinds ==
    ASSUME NEW c \in SwCommands
    PROVE  \/ c.cmd \in PlainCommands /\ c.args = <<>>
           \/ c.cmd \in NumberCommands /\ \E n \in Numbers : c.args = <<n>> /\ c.args[1] = n
BY DEF SwCommands

(* All software commands send a message of the same index. *)
LEMMA SwMessage ==
    ASSUME NEW c \in SwCommands
    PROVE  Message(c) = Msg(1, Word(c))
  <1>1. c.cmd \in NumberCommands => c.cmd \notin PlainCommands
    BY DEF NumberCommands, PlainCommands
  <1> QED BY <1>1, SwKinds, MessageBranch DEF Word

(* Its words are the action, the address in two halves, and the data. *)
LEMMA SwWords ==
    ASSUME NEW c \in SwCommands
    PROVE  /\ Len(Word(c)) = 3
           /\ Word(c)[1] = 1
           /\ Word(c)[2][1] \in Int /\ Word(c)[2][2] \in Int /\ Word(c)[3] \in Int
           /\ SwWord(c, Word(c)[2][1], Word(c)[2][2], Word(c)[3])
  <1>1. \A hi, lo, data : LET w == <<1, <<hi, lo>>, data>>
                          IN Len(w) = 3 /\ w[1] = 1 /\ w[2][1] = hi /\ w[2][2] = lo /\ w[3] = data
    OBVIOUS
  <1>2. CASE c.cmd \in PlainCommands /\ c.args = <<>>
    <2>1. Word(c) = PlainWord(c.cmd)
      BY <1>2 DEF Word
    <2>2. CASE c.cmd = "rxfilter-stop"
      BY <1>1, <1>2, <2>1, <2>2, PlainWords, SMT DEF SwWord
    <2>3. CASE c.cmd = "rxfilter-start"
      BY <1>1, <1>2, <2>1, <2>3, PlainWords, SMT DEF SwWord
    <2>4. CASE c.cmd = "smt-test-on"
      BY <1>1, <1>2, <2>1, <2>4, PlainWords, SMT DEF SwWord
    <2>5. CASE c.cmd = "smt-test-off"
      BY <1>1, <1>2, <2>1, <2>5, PlainWords, SMT DEF SwWord
    <2> QED BY <1>2, <2>2, <2>3, <2>4, <2>5, SMT DEF PlainCommands
  <1>3. CASE c.cmd \in NumberCommands /\ \E n \in Numbers : c.args = <<n>> /\ c.args[1] = n
    <2>1. PICK n \in Numbers : c.args = <<n>> /\ c.args[1] = n
      BY <1>3
    <2>2. n \in Int
      BY NumbersNat
    <2>3. Word(c) = NumberWord(c.cmd, n)
      BY <1>3, <2>1 DEF Word, NumberCommands, PlainCommands
    <2>4. CASE c.cmd = "rxfilter-add"
      BY <1>1, <2>1, <2>2, <2>3, <2>4, NumberWords, SMT DEF SwWord
    <2>5. CASE c.cmd = "rxfilter-remove"
      BY <1>1, <2>1, <2>2, <2>3, <2>5, NumberWords, SMT DEF SwWord
    <2>6. CASE c.cmd = "smt-rate"
      BY <1>1, <2>1, <2>2, <2>3, <2>6, NumberWords, SMT DEF SwWord
    <2> QED BY <1>3, <2>4, <2>5, <2>6, SMT DEF NumberCommands
  <1> QED BY <1>2, <1>3, SwKinds, SMT

(* The number of a command that is not too large for the filter words. *)
Fits(c) == c \in SwCommands /\ c.args # <<>> => c.args[1] < 256

(* Address and data give back command and number, as long as numbers stay *)
(* below 256 and cannot reach the next command.                           *)
LEMMA SwWordTells ==
    ASSUME NEW c \in SwCommands, NEW d \in SwCommands, Fits(c), Fits(d),
           NEW hi \in Int, NEW lo \in Int, NEW data \in Int,
           SwWord(c, hi, lo, data), SwWord(d, hi, lo, data)
    PROVE  c.cmd = d.cmd /\ c.args = d.args
  <1>1. \A n : <<n>> # <<>> /\ <<n>>[1] = n
    OBVIOUS
  <1>2. \A n \in Numbers : n \in Int /\ 0 <= n
    BY NumbersNat
  <1>3. /\ \A n \in Numbers : c.args = <<n>> => n < 256
        /\ \A n \in Numbers : d.args = <<n>> => n < 256
    BY <1>1 DEF Fits
  <1>4. CASE c.args = <<>> /\ d.args = <<>>
    BY <1>1, <1>4 DEF SwWord
  <1>5. ASSUME NEW n \in Numbers, c.args = <<n>>, d.args = <<>> PROVE FALSE
    BY <1>1, <1>2, <1>3, <1>5 DEF SwWord
  <1>6. ASSUME NEW n \in Numbers, d.args = <<n>>, c.args = <<>> PROVE FALSE
    BY <1>1, <1>2, <1>3, <1>6 DEF SwWord
  <1>7. ASSUME NEW n \in Numbers, NEW m \in Numbers, c.args = <<n>>, d.args = <<m>>
        PROVE  c.cmd = d.cmd /\ n = m
    BY <1>1, <1>2, <1>3, <1>7 DEF SwWord
  <1>8. /\ c.args = <<>> \/ \E n \in Numbers : c.args = <<n>>
        /\ d.args = <<>> \/ \E n \in Numbers : d.args = <<n>>
    BY DEF SwWord
  <1> QED BY <1>4, <1>5, <1>6, <1>7, <1>8

(* Software commands with the same message. *)
LEMMA SwTells ==
    ASSUME NEW c \in SwCommands, NEW d \in SwCommands, Fits(c), Fits(d), Message(c) = Message(d)
    PROVE  c.cmd = d.cmd /\ c.args = d.args
  <1>1. Word(c) = Word(d)
    <2>1. Msg(1, Word(c)) = Msg(1, Word(d))
      BY SwMessage
    <2> QED BY <2>1, MsgParts
  <1>2. /\ SwWord(c, Word(c)[2][1], Word(c)[2][2], Word(c)[3])
        /\ SwWord(d, Word(c)[2][1], Word(c)[2][2], Word(c)[3])
    BY <1>1, SwWords
  <1>3. Word(c)[2][1] \in Int /\ Word(c)[2][2] \in Int /\ Word(c)[3] \in Int
    BY SwWords
  <1> QED BY <1>2, <1>3, SwWordTells

(* What a command asks for: a WAPI key without an address is for everyone. *)
Meaning(c) == IF c.cmd = "set-wapi-key" THEN [c EXCEPT !.args[1] = WapiAddr(@)] ELSE c

(* The commands by the index of their message, and what follows it. *)
LEMMA Kinds ==
    ASSUME NEW c \in Commands
    PROVE  \/ c \in SwCommands /\ c.cmd # "set-wapi-key"
           \/ /\ c.cmd \in {"STA-BLOCK", "STA-UNBLOCK"}
              /\ \E s : c.args = <<s>> /\ c.args[1] = s
           \/ /\ c.cmd = "set-wapi-key"
              /\ \E a, k, t : k \in 0..1 /\ c = [cmd |-> "set-wapi-key", args |-> <<a, k, t>>]
           \/ /\ c.cmd \in {"p2p_set_sleep", "p2p_set_opps", "p2p_set_power_save"}
              /\ \E n : c.args = <<n>> /\ c.args[1] = n
  <1>1. CASE c \in SwCommands
    BY <1>1 DEF SwCommands, PlainCommands, NumberCommands
  <1>2. CASE c \in StaCommands
    BY <1>2 DEF StaCommands
  <1>3. CASE c \in WapiCommands
    <2>1. c \in [cmd : {"set-wapi-key"}, args : WapiKeys]
      BY <1>3 DEF WapiCommands, Built
    <2>2. c.cmd = "set-wapi-key" /\ c.args \in WapiKeys /\ c = [cmd |-> c.cmd, args |-> c.args]
      BY <2>1
    <2>3. \E a, k, t : k \in 0..1 /\ c.args = <<a, k, t>>
      BY <2>2 DEF WapiKeys
    <2> QED BY <2>2, <2>3
  <1>4. CASE c \in SigmaCommands
    BY <1>4 DEF SigmaCommands, Built
  <1> QED BY <1>1, <1>2, <1>3, <1>4 DEF Commands

(* Messages with the same index and body come from commands of one meaning.*)
LEMMA MessageInjective ==
    ASSUME NEW c \in Commands, NEW d \in Commands, Fits(c), Fits(d), Message(c) = Message(d)
    PROVE  Meaning(c) = Meaning(d)
  <1> DEFINE Sta == {"STA-BLOCK", "STA-UNBLOCK"}
             P2p == {"p2p_set_sleep", "p2p_set_opps", "p2p_set_power_save"}
             Wapi(x) == /\ x.cmd = "set-wapi-key"
                        /\ \E a, k, t : k \in 0..1 /\ x = [cmd |-> "set-wapi-key", args |-> <<a, k, t>>]
             One(x) == \E s : x.args = <<s>> /\ x.args[1] = s
             Kind(x) == \/ x \in SwCommands /\ x.cmd # "set-wapi-key"
                        \/ x.cmd \in Sta /\ One(x)
                        \/ Wapi(x)
                        \/ x.cmd \in P2p /\ One(x)
  <1>1. Kind(c) /\ Kind(d)
    BY Kinds
  <1>2. ASSUME NEW x, x \in SwCommands
        PROVE  \E w : Message(x) = Msg(1, w) /\ Len(w) = 3
    BY <1>2, SwMessage, SwWords
  <1>3. ASSUME NEW x, x.cmd \in P2p
        PROVE  Message(x) = Msg(1, <<SigmaIdx[x.cmd], x.args[1]>>)
    BY <1>3, MessageBranch
  <1>4. ASSUME NEW x, Wapi(x)
        PROVE  Message(x) = Msg(2, WapiBody(x.args[1], x.args[2], x.args[3]))
    BY <1>4, MessageBranch
  <1>5. ASSUME NEW x, x.cmd \in Sta
        PROVE  Message(x) = Msg(3, <<IF x.cmd = "STA-BLOCK" THEN 1 ELSE 0, x.args[1]>>)
    BY <1>5, MessageBranch
  <1> HIDE DEF Sta, P2p, Wapi, One
  <1>6. CASE c \in SwCommands /\ d \in SwCommands
    BY <1>6, SwTells, CommandParts
  <1>7. ASSUME NEW x, NEW y, x \in SwCommands, y.cmd \in P2p, Message(x) = Message(y)
        PROVE  FALSE
    <2>1. PICK w : Message(x) = Msg(1, w) /\ Len(w) = 3
      BY <1>2, <1>7
    <2>2. w = <<SigmaIdx[y.cmd], y.args[1]>>
      <3>1. Msg(1, w) = Msg(1, <<SigmaIdx[y.cmd], y.args[1]>>)
        BY <1>3, <1>7, <2>1
      <3> QED BY <3>1, MsgParts
    <2> QED BY <2>1, <2>2
  <1>8. CASE c.cmd \in P2p /\ One(c) /\ d.cmd \in P2p /\ One(d)
    <2>1. <<SigmaIdx[c.cmd], c.args[1]>> = <<SigmaIdx[d.cmd], d.args[1]>>
      <3>1. Msg(1, <<SigmaIdx[c.cmd], c.args[1]>>) = Msg(1, <<SigmaIdx[d.cmd], d.args[1]>>)
        BY <1>3, <1>8
      <3> QED BY <3>1, MsgParts
    <2>2. SigmaIdx[c.cmd] = SigmaIdx[d.cmd] /\ c.args = d.args
      BY <1>8, <2>1 DEF One
    <2>3. c.cmd = d.cmd
      BY <1>8, <2>2 DEF P2p, SigmaIdx
    <2> QED BY <2>2, <2>3, CommandParts
  <1>9. CASE Wapi(c) /\ Wapi(d)
    <2>1. PICK a, k, t : k \in 0..1 /\ c = [cmd |-> "set-wapi-key", args |-> <<a, k, t>>]
      BY <1>9 DEF Wapi
    <2>2. PICK b, l, u : l \in 0..1 /\ d = [cmd |-> "set-wapi-key", args |-> <<b, l, u>>]
      BY <1>9 DEF Wapi
    <2>3. WapiBody(a, k, t) = WapiBody(b, l, u)
      <3>1. c.args[1] = a /\ c.args[2] = k /\ c.args[3] = t
        BY <2>1
      <3>2. d.args[1] = b /\ d.args[2] = l /\ d.args[3] = u
        BY <2>2
      <3>3. Msg(2, WapiBody(a, k, t)) = Msg(2, WapiBody(b, l, u))
        BY <1>4, <1>9, <3>1, <3>2
      <3> QED BY <3>3, MsgParts
    <2>4. k = l /\ WapiAddr(a) = WapiAddr(b) /\ t = u
      BY <2>1, <2>2, <2>3 DEF WapiBody
    <2>5. /\ Meaning(c) = [cmd |-> "set-wapi-key", args |-> <<WapiAddr(a), k, t>>]
          /\ Meaning(d) = [cmd |-> "set-wapi-key", args |-> <<WapiAddr(b), l, u>>]
      BY <2>1, <2>2 DEF Meaning
    <2> QED BY <2>4, <2>5
  <1>10. CASE c.cmd \in Sta /\ One(c) /\ d.cmd \in Sta /\ One(d)
    <2>1. <<IF c.cmd = "STA-BLOCK" THEN 1 ELSE 0, c.args[1]>>
            = <<IF d.cmd = "STA-BLOCK" THEN 1 ELSE 0, d.args[1]>>
      <3>1. Msg(3, <<IF c.cmd = "STA-BLOCK" THEN 1 ELSE 0, c.args[1]>>)
              = Msg(3, <<IF d.cmd = "STA-BLOCK" THEN 1 ELSE 0, d.args[1]>>)
        BY <1>5, <1>10
      <3> QED BY <3>1, MsgParts
    <2>2. c.cmd = d.cmd /\ c.args = d.args
      BY <1>10, <2>1 DEF Sta, One
    <2> QED BY <2>2, CommandParts
  <1>11. ASSUME NEW x, NEW y, Wapi(x), y \in SwCommands \/ y.cmd \in P2p \/ y.cmd \in Sta,
                Message(x) = Message(y)
         PROVE  FALSE
    <2>1. \E i \in {1, 3} : \E w : Message(y) = Msg(i, w)
      <3>1. CASE y \in SwCommands
        BY <1>2, <3>1
      <3>2. CASE y.cmd \in P2p
        BY <1>3, <3>2
      <3>3. CASE y.cmd \in Sta
        BY <1>5, <3>3
      <3> QED BY <1>11, <3>1, <3>2, <3>3
    <2>2. PICK i \in {1, 3} : \E w : Message(y) = Msg(i, w)
      BY <2>1
    <2>3. PICK w : Message(y) = Msg(i, w)
      BY <2>2
    <2>4. Msg(2, WapiBody(x.args[1], x.args[2], x.args[3])) = Msg(i, w)
      BY <1>4, <1>11, <2>3
    <2> QED BY <2>4, MsgParts
  <1>12. ASSUME NEW x, NEW y, x.cmd \in Sta, y \in SwCommands \/ y.cmd \in P2p,
                Message(x) = Message(y)
         PROVE  FALSE
    <2>1. \E w : Message(y) = Msg(1, w)
      <3>1. CASE y \in SwCommands
        BY <1>2, <3>1
      <3>2. CASE y.cmd \in P2p
        BY <1>3, <3>2
      <3> QED BY <1>12, <3>1, <3>2
    <2>2. PICK w : Message(y) = Msg(1, w)
      BY <2>1
    <2>3. Msg(3, <<IF x.cmd = "STA-BLOCK" THEN 1 ELSE 0, x.args[1]>>) = Msg(1, w)
      BY <1>5, <1>12, <2>2
    <2> QED BY <2>3, MsgParts
  <1> QED BY <1>1, <1>6, <1>7, <1>8, <1>9, <1>10, <1>11, <1>12

(* The driver can tell from the message it took which command was given,   *)
(* for every set of numbers, stations and features.                        *)
THEOREM MessagesTell == Spec => []MessageTellsCommand
  <1>1. LastInv => MessageTellsCommand
    <2> SUFFICES ASSUME LastInv, "message" \in DOMAIN last, Fits(last.command),
                        NEW c \in Commands, Message(c) = last.message, Fits(c)
                 PROVE  Meaning(c) = Meaning(last.command)
      BY DEF MessageTellsCommand, Fits, Meaning
    <2>1. last.command \in Commands /\ last.message = Message(last.command)
      BY LastKinds DEF OfCommand
    <2> QED BY <2>1, MessageInjective
  <1> QED BY <1>1, LastInvariance, PTL

=============================================================================
