----------------------------- MODULE MediaTekRIL -----------------------------
(***************************************************************************)
(* MediaTekRIL.java: the telephony framework's end of the link to the      *)
(* MediaTek radio daemon, for one SIM instance.                            *)
(*                                                                         *)
(* Phone threads call methods with a result message; requests go through   *)
(* a sender queue to the modem and wait in mRequestList; the receiver      *)
(* thread runs processSolicited and processUnsolicited on what the modem   *)
(* sends, and may itself send requests.  The sender thread, the handling   *)
(* of a lost socket and AOSP's processUnsolicited belong to the parent     *)
(* class RIL, the modem to the vendor: both external.  A result message    *)
(* is identified with the call that brought it; serial numbers are taken   *)
(* to be unique.  Payloads are abstracted to whether a decoder accepts     *)
(* them.                                                                   *)
(***************************************************************************)
EXTENDS Integers, Sequences, FiniteSets

CONSTANTS
    Calls,       \* method calls of the framework, each made at most once
    NoResult,    \* the null result message of requests RIL makes by itself
    mInstanceId, \* 0 or 1: which SIM
    RilEnable,   \* the values persist.ril.enable takes
    E73Device,   \* whether ro.cm.device starts with "e73"
    ModemCodes,  \* the unsolicited codes the modem sends
    MaxUnsol,    \* BOUND: unsolicited messages the modem sends
    MaxDrops     \* BOUND: how often the socket is lost

ASSUME CallsAssumption == NoResult \notin Calls
ASSUME InstanceAssumption == mInstanceId \in {0, 1}
ASSUME SwitchAssumption == RilEnable \subseteq BOOLEAN /\ E73Device \in BOOLEAN
ASSUME BoundAssumption == MaxUnsol \in Nat /\ MaxDrops \in Nat

-----------------------------------------------------------------------------
(* Requests: one stands for all that have a `case' in processSolicited and *)
(* are built by the parent; the others are named in MediaTekRIL.java.      *)
AospRequests == {"AOSP_REQUEST", "SETUP_DATA_CALL", "BASEBAND_VERSION"}
GET_MODEM_VERSION == "220"
MtkRequests == {"DUAL_SIM_MODE_SWITCH", "SET_CALL_INDICATION",
                "SET_GPRS_TRANSFER_TYPE", "SET_GPRS_CONNECT_TYPE"}
Requests == AospRequests \cup MtkRequests \cup {GET_MODEM_VERSION}

(* Unsolicited codes that are handed to the parent under an AOSP code. *)
RewrittenTo ==
    [CALL_PROGRESS_INFO |-> "CALL_STATE_CHANGED",
     INCOMING_CALL_INDICATION |-> "CALL_STATE_CHANGED",
     PS_NETWORK_STATE_CHANGED |-> "VOICE_NETWORK_STATE_CHANGED",
     SIM_INSERTED_STATUS |-> "SIM_STATUS_CHANGED",
     SIM_MISSING |-> "SIM_STATUS_CHANGED",
     SIM_PLUG_OUT |-> "SIM_STATUS_CHANGED",
     SIM_PLUG_IN |-> "SIM_STATUS_CHANGED",
     RADIO_STATE_CHANGED |-> "RADIO_STATE_CHANGED"]

(* The other known MTK codes, decoded and dropped. *)
Swallowed == {"SMS_READY_NOTIFICATION", "other known MTK code"}
(* Codes left to the parent as they are. *)
Forwarded == {"other code"}
UnsolCodes == DOMAIN RewrittenTo \cup Swallowed \cup Forwarded

ASSUME CodesAssumption == ModemCodes \subseteq UnsolCodes

(* Radio states below 2 mean that the radio is off or unavailable. *)
RadioStates == 0..2

-----------------------------------------------------------------------------
VARIABLES
    call,         \* each call: "new", "ignored", "pending" or its outcome
    answers,      \* how many answers each call's result message carried
    nextSerial,   \* serial of the next RILRequest
    sendQ,        \* requests handed to the sender thread
    mRequestList, \* requests waiting for a response
    connected,    \* whether the socket is open
    modem,        \* requests the modem has received and not answered
    socket,       \* what the modem has sent and nobody has read
    leftover,     \* how many at the head of sendQ a lost connection left behind
    gprs,         \* modem's GPRS set-up: "unset", "transfer", "ready", "misordered"
    ring,         \* incoming calls announced and not yet let through
    radio,        \* radio-on messages sent and not yet followed by a set-up
    todo,         \* requests the receiver thread has still to send by itself
    handing,      \* code it then hands to the parent
    registrants,  \* AOSP notifications given to registrants, that of calls
                  \* since the modem last announced one
    unsols,       \* unsolicited messages sent so far
    drops         \* times the socket was lost, or is about to be

callers == <<call, answers>>
receiver == <<todo, handing>>
link == <<connected, leftover, modem, socket>>
world == <<gprs, ring, radio, unsols, drops>>
vars == <<callers, nextSerial, sendQ, mRequestList, receiver, link, world, registrants>>

Init ==
    /\ call = [c \in Calls |-> "new"]
    /\ answers = [c \in Calls |-> 0]
    /\ nextSerial = 0 /\ sendQ = <<>> /\ mRequestList = {}
    /\ connected = TRUE /\ leftover = 0 /\ modem = {} /\ socket = <<>>
    /\ todo = <<>> /\ handing = "none"
    /\ gprs = "unset" /\ ring = 0 /\ radio = 0
    /\ registrants = {}
    /\ unsols = 0 /\ drops = 0

(* RILRequest.obtain *)
Obtain(request, result) == [serial |-> nextSerial, request |-> request, result |-> result]

(* Filling in and sending the result messages of the requests in rrs. *)
Answer(rrs, outcome) ==
    LET answered == {rr.result : rr \in rrs} \cap Calls
    IN /\ call' = [c \in Calls |-> IF c \in answered THEN outcome ELSE call[c]]
       /\ answers' = [c \in Calls |-> IF c \in answered THEN answers[c] + 1 ELSE answers[c]]

-----------------------------------------------------------------------------
(* Methods the framework calls *)

Issue(c, request) ==
    /\ call[c] = "new"
    /\ sendQ' = Append(sendQ, Obtain(request, c))
    /\ nextSerial' = nextSerial + 1
    /\ call' = [call EXCEPT ![c] = "pending"]
    /\ UNCHANGED <<answers, mRequestList, receiver, link, world, registrants>>

(* setRadioPower returns without touching the result message when the RIL  *)
(* is disabled and on the second SIM.                                      *)
setRadioPower(c, allow) ==
    \/ /\ ~allow \/ mInstanceId = 1
       /\ call[c] = "new"
       /\ call' = [call EXCEPT ![c] = "ignored"]
       /\ UNCHANGED <<answers, nextSerial, sendQ, mRequestList, receiver, link, world, registrants>>
    \/ /\ allow /\ mInstanceId # 1
       /\ Issue(c, "DUAL_SIM_MODE_SWITCH")

setupDataCall(c) == Issue(c, "SETUP_DATA_CALL")

(* Every other request, built by the parent class. *)
OtherRequest(c) == \E r \in {"AOSP_REQUEST", GET_MODEM_VERSION} : Issue(c, r)

(* Answered at once with 0; the registrants hear of an activation or a     *)
(* deactivation.                                                           *)
setUiccSubscription(c, subStatus) ==
    /\ call[c] = "new"
    /\ Answer({[result |-> c]}, "ok")
    /\ registrants' = registrants \cup (IF subStatus \in {0, 1} THEN {"SUBSCRIPTION_STATUS"} ELSE {})
    /\ UNCHANGED <<nextSerial, sendQ, mRequestList, receiver, link, world>>

(* setDataSubscription and setDefaultVoiceSub only answer. *)
setSubscriptionPreference(c) ==
    /\ call[c] = "new"
    /\ Answer({[result |-> c]}, "ok")
    /\ UNCHANGED <<nextSerial, sendQ, mRequestList, receiver, link, world, registrants>>

-----------------------------------------------------------------------------
(* The receiver thread *)

Responses == [kind : {"solicited"}, serial : Int, error : BOOLEAN,
              data : BOOLEAN, wellFormed : BOOLEAN]
Unsolicited == [kind : {"unsolicited"}, code : UnsolCodes,
                state : RadioStates, wellFormed : BOOLEAN]

(* The requests the switch of processSolicited has a decoder for; request  *)
(* 220 is turned into BASEBAND_VERSION on one device only.                 *)
Recognised(request) ==
    request \in AospRequests \/ (request = GET_MODEM_VERSION /\ E73Device)

(* Mutant: the message is sent without being filled in. *)
Outcome_Unfilled(rr, m) == IF m.wellFormed THEN "ok" ELSE "unfilled"

(* What the caller of rr gets for response m: the decoder runs on success  *)
(* and on errors that carry data, and whatever it throws is the answer.    *)
Outcome(rr, m) ==
    IF (~m.error \/ m.data) /\ ~(Recognised(rr.request) /\ m.wellFormed) THEN "exception"
    ELSE IF m.error THEN "error" ELSE "ok"

(* Mutants: the request is found but not removed; an exception in the      *)
(* decoder is logged and nothing else.                                     *)
processSolicited_Keeps ==
    /\ handing = "none" /\ socket # <<>> /\ Head(socket).kind = "solicited"
    /\ LET m == Head(socket)
       IN Answer({rr \in mRequestList : rr.serial = m.serial}, "ok")
    /\ socket' = Tail(socket)
    /\ UNCHANGED <<nextSerial, sendQ, mRequestList, connected, leftover, modem, receiver, world,
                   registrants>>

processSolicited_LogsOnly ==
    /\ handing = "none" /\ socket # <<>> /\ Head(socket).kind = "solicited"
    /\ LET m == Head(socket)
           found == {rr \in mRequestList : rr.serial = m.serial}
       IN /\ mRequestList' = mRequestList \ found
          /\ Answer({rr \in found : Outcome(rr, m) # "exception"}, "ok")
    /\ socket' = Tail(socket)
    /\ UNCHANGED <<nextSerial, sendQ, connected, leftover, modem, receiver, world, registrants>>

(* findAndRemoveRequestFromList finds at most one request; a response to   *)
(* none is dropped ("Unexpected solicited response").                      *)
processSolicited ==
    /\ handing = "none" /\ socket # <<>> /\ Head(socket).kind = "solicited"
    /\ LET m == Head(socket)
           found == {rr \in mRequestList : rr.serial = m.serial}
       IN /\ mRequestList' = mRequestList \ found
          /\ \/ found = {} /\ UNCHANGED callers
             \/ \E rr \in found : Answer({rr}, Outcome(rr, m))
    /\ socket' = Tail(socket)
    /\ UNCHANGED <<nextSerial, sendQ, connected, leftover, modem, receiver, world, registrants>>

(* The parent's reaction to a lost socket, or to an exception that leaves  *)
(* its receive loop: pending requests are answered with an error, those in *)
(* the sender queue stay.                                                  *)
LoseSocket ==
    /\ connected' = FALSE /\ leftover' = Len(sendQ) /\ modem' = {} /\ socket' = <<>>
    /\ todo' = <<>> /\ handing' = "none"
    /\ Answer(mRequestList, "error") /\ mRequestList' = {}
    /\ gprs' = "unset" /\ ring' = 0 /\ radio' = 0
    /\ UNCHANGED <<sendQ, unsols, registrants>>

(* The codes whose decoder reads the parcel; responseVoid does not.        *)
Decoded ==
    {"CALL_PROGRESS_INFO", "INCOMING_CALL_INDICATION", "SIM_INSERTED_STATUS", "SIM_MISSING",
     "SIM_PLUG_OUT", "SIM_PLUG_IN", "other known MTK code"}

(* A decoder that throws ends processUnsolicited, and nobody in it catches *)
(* the exception.  So does setCallIndication for a string that is no       *)
(* number; it has then obtained its request.                               *)
UnsolicitedFails ==
    /\ handing = "none" /\ socket # <<>> /\ Head(socket).kind = "unsolicited"
    /\ ~Head(socket).wellFormed
    /\ \/ nextSerial' = nextSerial
       \/ Head(socket).code = "INCOMING_CALL_INDICATION" /\ nextSerial' = nextSerial + 1
    /\ LoseSocket
    /\ UNCHANGED drops

(* Mutants: the two GPRS requests in the other order; the second one is    *)
(* left out; an incoming call is only reported.                            *)
OwnRequests_Swapped(m) ==
    IF m.code = "RADIO_STATE_CHANGED" /\ m.state \notin {0, 1}
    THEN <<"SET_GPRS_CONNECT_TYPE", "SET_GPRS_TRANSFER_TYPE">>
    ELSE <<>>
OwnRequests_NoConnect(m) ==
    IF m.code = "RADIO_STATE_CHANGED" /\ m.state \notin {0, 1}
    THEN <<"SET_GPRS_TRANSFER_TYPE">>
    ELSE <<>>
OwnRequests_NoIndication(m) == <<>>

(* What the receiver thread sends by itself before it hands the message on *)
(* (setCallIndication, setRadioStateFromRILInt).                           *)
OwnRequests(m) ==
    CASE m.code = "INCOMING_CALL_INDICATION" -> <<"SET_CALL_INDICATION">>
      [] m.code = "RADIO_STATE_CHANGED" /\ m.state \notin {0, 1} ->
            <<"SET_GPRS_TRANSFER_TYPE", "SET_GPRS_CONNECT_TYPE">>
      [] OTHER -> <<>>

(* processUnsolicited up to its own requests. *)
processUnsolicited ==
    /\ handing = "none" /\ socket # <<>> /\ Head(socket).kind = "unsolicited"
    /\ LET m == Head(socket) IN
         /\ m.wellFormed
         /\ todo' = OwnRequests(m)
         /\ handing' = IF m.code \in DOMAIN RewrittenTo THEN RewrittenTo[m.code]
                       ELSE IF m.code \in Swallowed THEN "none" ELSE m.code
    /\ socket' = Tail(socket)
    /\ UNCHANGED <<callers, nextSerial, sendQ, mRequestList, connected, leftover, modem, world,
                   registrants>>

(* One send() of the receiver thread; phone threads may send in between.   *)
SendOwn ==
    /\ todo # <<>>
    /\ sendQ' = Append(sendQ, Obtain(Head(todo), NoResult))
    /\ nextSerial' = nextSerial + 1
    /\ todo' = Tail(todo)
    /\ UNCHANGED <<callers, mRequestList, handing, link, world, registrants>>

(* super.processUnsolicited notifies the registrants of the code. *)
SuperProcessUnsolicited ==
    /\ handing # "none" /\ todo = <<>>
    /\ registrants' = registrants \cup {handing}
    /\ handing' = "none"
    /\ UNCHANGED <<callers, nextSerial, sendQ, mRequestList, todo, link, world>>

-----------------------------------------------------------------------------
(* External: the sender thread, the socket and the modem *)

(* What the modem makes of a request: SET_GPRS_CONNECT_TYPE completes the  *)
(* set-up that SET_GPRS_TRANSFER_TYPE began.  One that is left over from   *)
(* an earlier connection has no effect without it.                         *)
ModemReceives(rr) ==
    LET fresh == leftover = 0 IN
    /\ modem' = modem \cup {rr}
    /\ gprs' = CASE rr.request = "SET_GPRS_TRANSFER_TYPE" -> "transfer"
                 [] rr.request = "SET_GPRS_CONNECT_TYPE" /\ gprs = "transfer" -> "ready"
                 [] rr.request = "SET_GPRS_CONNECT_TYPE" /\ gprs # "transfer" /\ fresh -> "misordered"
                 [] OTHER -> gprs
    /\ radio' = IF rr.request = "SET_GPRS_CONNECT_TYPE" /\ gprs = "transfer" /\ fresh /\ radio > 0
                THEN radio - 1 ELSE radio
    /\ ring' = IF rr.request = "SET_CALL_INDICATION" /\ fresh /\ ring > 0 THEN ring - 1 ELSE ring

Sender ==
    /\ sendQ # <<>>
    /\ sendQ' = Tail(sendQ)
    /\ leftover' = IF leftover > 0 THEN leftover - 1 ELSE 0
    /\ LET rr == Head(sendQ) IN
       \/ /\ ~connected
          /\ Answer({rr}, "error")
          /\ UNCHANGED <<mRequestList, modem, gprs, radio, ring>>
       \/ /\ connected
          /\ mRequestList' = mRequestList \cup {rr}
          /\ ModemReceives(rr)
          /\ UNCHANGED callers
    /\ UNCHANGED <<nextSerial, connected, socket, receiver, unsols, drops, registrants>>

ModemAnswers ==
    /\ \E rr \in modem, error, data, wellFormed \in BOOLEAN :
         /\ error \/ data  \* without an error the decoder runs anyway
         /\ data \/ wellFormed  \* no data, nothing to be ill-formed
         /\ rr.result = NoResult => ~error /\ wellFormed  \* nobody looks at it
         /\ modem' = modem \ {rr}
         /\ socket' = Append(socket, [kind |-> "solicited", serial |-> rr.serial,
                              error |-> error, data |-> data, wellFormed |-> wellFormed])
    /\ UNCHANGED <<callers, nextSerial, sendQ, mRequestList, connected, leftover, receiver, world,
                   registrants>>

(* A response that comes twice, or one that nobody asked for: -1 stands    *)
(* for every serial that is not, or not any more, on the list.             *)
ModemRepeats ==
    /\ connected /\ unsols < MaxUnsol
    /\ \E serial \in {rr.serial : rr \in mRequestList} \cup {-1} :
         socket' = Append(socket, [kind |-> "solicited", serial |-> serial,
                          error |-> FALSE, data |-> TRUE, wellFormed |-> TRUE])
    /\ unsols' = unsols + 1
    /\ UNCHANGED <<callers, nextSerial, sendQ, mRequestList, connected, leftover, modem, receiver,
                   gprs, ring, radio, drops, registrants>>

ModemIndicates ==
    /\ connected /\ unsols < MaxUnsol
    /\ \E code \in ModemCodes, state \in RadioStates, wellFormed \in BOOLEAN :
         /\ code # "RADIO_STATE_CHANGED" => state = 0
         /\ ~wellFormed => code \in Decoded /\ drops < MaxDrops  \* it will cost the socket
         /\ socket' = Append(socket, [kind |-> "unsolicited", code |-> code,
                              state |-> state, wellFormed |-> wellFormed])
         /\ drops' = IF wellFormed THEN drops ELSE drops + 1
         /\ IF code = "INCOMING_CALL_INDICATION"
            THEN ring' = ring + 1 /\ registrants' = registrants \ {"CALL_STATE_CHANGED"}
            ELSE UNCHANGED <<ring, registrants>>
         /\ radio' = IF code = "RADIO_STATE_CHANGED" /\ state \notin {0, 1} THEN radio + 1 ELSE radio
    /\ unsols' = unsols + 1
    /\ UNCHANGED <<callers, nextSerial, sendQ, mRequestList, connected, leftover, modem, receiver,
                   gprs>>

SocketLost ==
    /\ connected /\ handing = "none" /\ drops < MaxDrops
    /\ LoseSocket
    /\ drops' = drops + 1
    /\ UNCHANGED nextSerial

Reconnect ==
    /\ ~connected
    /\ connected' = TRUE
    /\ UNCHANGED <<callers, nextSerial, sendQ, mRequestList, leftover, modem, socket, receiver, world,
                   registrants>>

-----------------------------------------------------------------------------
Framework ==
    \E c \in Calls :
        \/ \E allow \in RilEnable : setRadioPower(c, allow)
        \/ setupDataCall(c) \/ OtherRequest(c)
        \/ \E subStatus \in 0..2 : setUiccSubscription(c, subStatus)
        \/ setSubscriptionPreference(c)

Receiver ==
    \/ processSolicited
    \/ UnsolicitedFails \/ processUnsolicited \/ SendOwn \/ SuperProcessUnsolicited

Next ==
    \/ Framework \/ Receiver \/ Sender
    \/ ModemAnswers \/ ModemRepeats \/ ModemIndicates \/ SocketLost \/ Reconnect

Spec == Init /\ [][Next]_vars

(* The receiver and the sender are threads of the framework that keep      *)
(* running, the parent reconnects for ever, and the modem answers every    *)
(* request it has received as long as the socket is open.                  *)
FairSpec ==
    /\ Spec
    /\ WF_vars(Receiver) /\ WF_vars(Sender) /\ WF_vars(ModemAnswers) /\ WF_vars(Reconnect)

-----------------------------------------------------------------------------
(* Properties *)

Outcomes == {"ok", "error", "exception"}
RilRequests == [serial : Nat, request : Requests, result : Calls \cup {NoResult}]

(* Type invariant of the link's state. *)
TypeOK ==
    /\ call \in [Calls -> {"new", "ignored", "pending"} \cup Outcomes]
    /\ answers \in [Calls -> Nat]
    /\ nextSerial \in Nat
    /\ sendQ \in Seq(RilRequests)
    /\ mRequestList \subseteq RilRequests
    /\ connected \in BOOLEAN /\ leftover \in Nat /\ modem \subseteq RilRequests
    /\ socket \in Seq(Responses \cup Unsolicited)
    /\ gprs \in {"unset", "transfer", "ready", "misordered"}
    /\ ring \in Nat /\ radio \in Nat
    /\ todo \in Seq(MtkRequests)
    /\ unsols \in 0..MaxUnsol /\ drops \in 0..MaxDrops

(* Every result message is sent at most once, and exactly when the call    *)
(* has an outcome: whatever the order of responses, repeated responses,    *)
(* exceptions in a decoder, and the error answers of a lost socket.        *)
AnsweredOnce ==
    \A c \in Calls : answers[c] = IF call[c] \in Outcomes THEN 1 ELSE 0

(* A call that still waits is held by exactly one of the sender queue and  *)
(* mRequestList, so that somebody can answer it.                           *)
Queued == {sendQ[i] : i \in DOMAIN sendQ}
NoLostCall ==
    \A c \in Calls :
        call[c] = "pending" <=>
            Cardinality({rr \in Queued \cup mRequestList : rr.result = c}) = 1

(* Of the requests of one connection, SET_GPRS_CONNECT_TYPE reaches the    *)
(* modem only after a SET_GPRS_TRANSFER_TYPE that no other has used up:    *)
(* whatever phone threads send between the two, and whatever a lost socket *)
(* left in the sender queue.                                               *)
GprsInOrder == gprs # "misordered"

(* Every call that reached the sender is answered: by a response, an       *)
(* error, an exception or the loss of the socket.                          *)
PendingAnswered == \A c \in Calls : call[c] = "pending" ~> call[c] \in Outcomes

(* Every incoming call that the modem announces is let through, and the    *)
(* framework is told of it after the announcement, unless the link breaks. *)
IncomingCallHandled ==
    ring > 0 ~> ~connected \/ (ring = 0 /\ "CALL_STATE_CHANGED" \in registrants)

(* Every time the radio comes on the modem is set up for GPRS anew, unless *)
(* the link breaks: also after a loss of the socket that cut a pair of     *)
(* requests in two.                                                        *)
GprsSetUp == radio > 0 ~> radio = 0

(* A well-formed response without an error reaches the caller as a result: *)
(* the comment at the catch says exceptions there "usually mean invalid    *)
(* RIL responses".                                                         *)
ValidResponseDelivered ==
    [][socket # <<>> /\ socket' = Tail(socket) /\ Head(socket).kind = "solicited"
       /\ ~Head(socket).error /\ Head(socket).wellFormed =>
         \A rr \in mRequestList :
            rr.serial = Head(socket).serial /\ rr.result \in Calls /\ rr.request # GET_MODEM_VERSION
               => call'[rr.result] = "ok"]_vars
=============================================================================
