-------------------------- MODULE MediaTekRILProofs --------------------------
(***************************************************************************)
(* Proofs about the framework's end of the radio link, for any set of      *)
(* calls, either SIM, any modem codes and any number of messages and       *)
(* losses of the socket.                                                   *)
(*                                                                         *)
(* That a call is answered once and never lost is not inductive: it rests  *)
(* on the serials (Serials), without which processSolicited could take two *)
(* requests out of mRequestList and answer one, and on each waiting call   *)
(* having one request in sendQ or mRequestList (Held).  The order of the   *)
(* two GPRS requests rests on what precedes the second in the sender queue *)
(* (Paired), among requests of other threads and after losses.             *)
(***************************************************************************)
EXTENDS MediaTekRIL, FiniteSetTheorems, SequenceTheorems, TLAPS

-----------------------------------------------------------------------------
(* The inductive invariant *)

(* Serials grow along the sender queue, and every request on the list is   *)
(* older than every queued one and told from the others by its serial.     *)
Serials ==
    /\ \A i, j \in 1..Len(sendQ) : i < j => sendQ[i].serial < sendQ[j].serial
    /\ \A i \in 1..Len(sendQ) : sendQ[i].serial < nextSerial
    /\ \A rr \in mRequestList :
          /\ rr.serial < nextSerial
          /\ \A i \in 1..Len(sendQ) : rr.serial < sendQ[i].serial
    /\ \A r1, r2 \in mRequestList : r1.serial = r2.serial => r1 = r2

(* A call has at most one request, a call with a request waits, and a call *)
(* that waits has a request.                                               *)
HeldOnce ==
    /\ \A i, j \in 1..Len(sendQ) :
          sendQ[i].result \in Calls /\ sendQ[i].result = sendQ[j].result => i = j
    /\ \A i \in 1..Len(sendQ) : \A rr \in mRequestList :
          sendQ[i].result \in Calls => sendQ[i].result # rr.result
    /\ \A r1, r2 \in mRequestList :
          r1.result \in Calls /\ r1.result = r2.result => r1 = r2
HeldWaits ==
    /\ \A i \in 1..Len(sendQ) : sendQ[i].result \in Calls => call[sendQ[i].result] = "pending"
    /\ \A rr \in mRequestList : rr.result \in Calls => call[rr.result] = "pending"
WaitsHeld ==
    \A c \in Calls : call[c] = "pending" =>
        \/ \E i \in 1..Len(sendQ) : sendQ[i].result = c
        \/ \E rr \in mRequestList : rr.result = c
Held == HeldOnce /\ HeldWaits /\ WaitsHeld

CallInv == TypeOK /\ Serials /\ Held /\ AnsweredOnce

(* Of the requests about GPRS, the last of the first n in the sender queue *)
(* is a SET_GPRS_TRANSFER_TYPE; if there is none, the modem has had one.   *)
GprsRequests == {"SET_GPRS_TRANSFER_TYPE", "SET_GPRS_CONNECT_TYPE"}
Paired(n) ==
    \E j \in 0..n :
        /\ IF j = 0 THEN gprs = "transfer" ELSE sendQ[j].request = "SET_GPRS_TRANSFER_TYPE"
        /\ \A k \in (j + 1)..n : sendQ[k].request \notin GprsRequests

(* So it is before every SET_GPRS_CONNECT_TYPE of this connection, in the  *)
(* queue or about to be sent; without a connection there is none.          *)
OwnShapes == {<<>>, <<"SET_CALL_INDICATION">>, <<"SET_GPRS_CONNECT_TYPE">>,
              <<"SET_GPRS_TRANSFER_TYPE", "SET_GPRS_CONNECT_TYPE">>}
GprsInv ==
    /\ gprs # "misordered"
    /\ todo \in OwnShapes /\ (todo # <<>> => handing # "none")
    /\ ~connected => socket = <<>> /\ modem = {} /\ todo = <<>>
    /\ \A i \in 1..Len(sendQ) :
          sendQ[i].request = "SET_GPRS_CONNECT_TYPE" /\ i > leftover => connected /\ Paired(i - 1)
    /\ todo = <<"SET_GPRS_CONNECT_TYPE">> => Paired(Len(sendQ))

-----------------------------------------------------------------------------
(* Facts about the operators *)

(* RILRequest.obtain makes a request under the next serial. *)
LEMMA ObtainType ==
    ASSUME nextSerial \in Nat, NEW request \in Requests, NEW result \in Calls \cup {NoResult}
    PROVE  /\ Obtain(request, result) \in RilRequests
           /\ Obtain(request, result).serial = nextSerial
           /\ Obtain(request, result).request = request
           /\ Obtain(request, result).result = result
BY DEF Obtain, RilRequests

(* Answer gives the calls of rrs the outcome, counts the answer, and       *)
(* leaves every other call alone.                                          *)
LEMMA AnswerEffect ==
    ASSUME NEW rrs, NEW outcome, Answer(rrs, outcome)
    PROVE  \A c \in Calls :
             /\ (\E rr \in rrs : rr.result = c) =>
                   call'[c] = outcome /\ answers'[c] = answers[c] + 1
             /\ (\A rr \in rrs : rr.result # c) =>
                   call'[c] = call[c] /\ answers'[c] = answers[c]
  <1> DEFINE answered == {rr.result : rr \in rrs} \cap Calls
  <1>1. /\ call' = [c \in Calls |-> IF c \in answered THEN outcome ELSE call[c]]
        /\ answers' = [c \in Calls |-> IF c \in answered THEN answers[c] + 1 ELSE answers[c]]
    BY DEF Answer
  <1>2. \A c \in Calls : c \in answered <=> \E rr \in rrs : rr.result = c
    OBVIOUS
  <1> QED BY <1>1, <1>2

(* Answering keeps the types of calls and counts. *)
LEMMA AnswerType ==
    ASSUME NEW rrs, NEW outcome \in Outcomes, Answer(rrs, outcome),
           call \in [Calls -> {"new", "ignored", "pending"} \cup Outcomes],
           answers \in [Calls -> Nat]
    PROVE  /\ call' \in [Calls -> {"new", "ignored", "pending"} \cup Outcomes]
           /\ answers' \in [Calls -> Nat]
BY DEF Answer

(* What processSolicited gives a caller is one of the three outcomes. *)
LEMMA OutcomeType == \A rr, m : Outcome(rr, m) \in Outcomes
BY DEF Outcome, Outcomes

(* What the receiver thread has to send by itself. *)
LEMMA OwnRequestsShape ==
    ASSUME NEW m
    PROVE  OwnRequests(m) \in Seq(MtkRequests) /\ OwnRequests(m) \in OwnShapes
                                               /\ OwnRequests(m) # <<"SET_GPRS_CONNECT_TYPE">>
  <1>1. CASE m.code = "INCOMING_CALL_INDICATION"
    <2>1. OwnRequests(m) = <<"SET_CALL_INDICATION">> BY <1>1 DEF OwnRequests
    <2> QED BY <2>1 DEF MtkRequests, OwnShapes
  <1>2. CASE m.code = "RADIO_STATE_CHANGED" /\ m.state \notin {0, 1}
    <2>1. OwnRequests(m) = <<"SET_GPRS_TRANSFER_TYPE", "SET_GPRS_CONNECT_TYPE">>
      BY <1>2 DEF OwnRequests
    <2> QED BY <2>1 DEF MtkRequests, OwnShapes
  <1>3. CASE m.code # "INCOMING_CALL_INDICATION"
             /\ ~(m.code = "RADIO_STATE_CHANGED" /\ m.state \notin {0, 1})
    <2>1. OwnRequests(m) = <<>> BY <1>3 DEF OwnRequests
    <2> QED BY <2>1 DEF OwnShapes
  <1> QED BY <1>1, <1>2, <1>3

(* The fields of the requests in the queue and on the list. *)
LEMMA RequestTypes ==
    ASSUME TypeOK
    PROVE  /\ Len(sendQ) \in Nat
           /\ \A i \in 1..Len(sendQ) : sendQ[i] \in RilRequests /\ sendQ[i].serial \in Nat
           /\ \A rr \in mRequestList : rr \in RilRequests /\ rr.serial \in Nat
           /\ nextSerial \in Nat
  <1>1. Len(sendQ) \in Nat /\ \A i \in 1..Len(sendQ) : sendQ[i] \in RilRequests
    BY ElementOfSeq, LenProperties DEF TypeOK
  <1> QED BY <1>1 DEF TypeOK, RilRequests

-----------------------------------------------------------------------------
(* The call invariant, action by action *)

LEMMA CallInit == Init => CallInv
BY BoundAssumption DEF Init, CallInv, TypeOK, Serials, Held, HeldOnce, HeldWaits, WaitsHeld,
                       AnsweredOnce, Outcomes

(* A request joins the end of the queue under a fresh serial, and its call *)
(* was new: nothing else carries it.                                       *)
LEMMA IssueStep ==
    ASSUME CallInv, NEW c \in Calls, NEW request \in Requests, Issue(c, request)
    PROVE  CallInv'
  <1> USE DEF CallInv, Held
  <1> DEFINE rr == Obtain(request, c)
  <1>1. /\ call[c] = "new" /\ sendQ' = Append(sendQ, rr) /\ nextSerial' = nextSerial + 1
        /\ call' = [call EXCEPT ![c] = "pending"]
        /\ UNCHANGED <<answers, mRequestList>>
    BY DEF Issue
  <1>2. rr \in RilRequests /\ rr.serial = nextSerial /\ rr.result = c
    BY ObtainType, SMTT(40) DEF TypeOK
  <1> HIDE DEF rr
  <1>3. /\ sendQ' \in Seq(RilRequests) /\ Len(sendQ) \in Nat /\ Len(sendQ') = Len(sendQ) + 1
        /\ \A i \in 1..Len(sendQ) : sendQ'[i] = sendQ[i]
        /\ sendQ'[Len(sendQ) + 1] = rr
        /\ \A i \in 1..Len(sendQ) : sendQ[i] \in RilRequests
    BY <1>1, <1>2, AppendProperties DEF TypeOK
  <1>4. \A i \in 1..Len(sendQ') : i \in 1..Len(sendQ) \/ i = Len(sendQ) + 1
    BY <1>3
  <1>5. TypeOK'
    BY <1>1, <1>3 DEF TypeOK, Issue, receiver, link, world, Outcomes
  <1>6. Serials'
    BY <1>1, <1>2, <1>3, <1>4, SMTT(40) DEF Serials, TypeOK, RilRequests
  <1>7. /\ \A i \in 1..Len(sendQ) : sendQ[i].result # c
        /\ \A r \in mRequestList : r.result # c
    BY <1>1 DEF HeldWaits
  <1>8. HeldOnce'
    BY <1>1, <1>2, <1>3, <1>4, <1>7 DEF HeldOnce
  <1>9. HeldWaits'
    BY <1>1, <1>2, <1>3, <1>4, <1>7 DEF HeldWaits, TypeOK
  <1>10. WaitsHeld'
    <2>1. ASSUME NEW d \in Calls, call'[d] = "pending", d # c
          PROVE  \/ \E i \in 1..Len(sendQ') : sendQ'[i].result = d
                 \/ \E r \in mRequestList' : r.result = d
      <3>1. call[d] = "pending" BY <1>1, <2>1 DEF TypeOK
      <3>2. \A i \in 1..Len(sendQ) : i \in 1..Len(sendQ') /\ sendQ'[i].result = sendQ[i].result
        BY <1>3
      <3> QED BY <1>1, <3>1, <3>2 DEF WaitsHeld
    <2>2. \E i \in 1..Len(sendQ') : sendQ'[i].result = c
      BY <1>2, <1>3
    <2> QED BY <2>1, <2>2 DEF WaitsHeld
  <1>11. AnsweredOnce'
    BY <1>1 DEF AnsweredOnce, TypeOK, Outcomes
  <1> QED BY <1>5, <1>6, <1>8, <1>9, <1>10, <1>11

(* A call that no request carries changes to anything but "pending". *)
LEMMA NotPendingStep ==
    ASSUME CallInv, NEW c \in Calls, call[c] = "new",
           UNCHANGED <<sendQ, nextSerial, mRequestList>>,
           \A d \in Calls \ {c} : call'[d] = call[d],
           call'[c] # "pending"
    PROVE  Serials' /\ Held'
  <1> USE DEF CallInv, Held
  <1>1. /\ \A i \in 1..Len(sendQ) : sendQ[i].result # c
        /\ \A r \in mRequestList : r.result # c
    BY DEF HeldWaits
  <1>2. Serials'
    BY DEF Serials
  <1>3. HeldOnce'
    BY DEF HeldOnce
  <1>4. HeldWaits'
    BY <1>1 DEF HeldWaits
  <1>5. WaitsHeld'
    BY DEF WaitsHeld
  <1> QED BY <1>2, <1>3, <1>4, <1>5

(* setRadioPower keeps CallInv: it either sends one request with a new *)
(* serial or leaves the call unanswered for good.                      *)
LEMMA RadioPowerStep ==
    ASSUME CallInv, NEW c \in Calls, NEW allow \in RilEnable, setRadioPower(c, allow)
    PROVE  CallInv'
  <1>1. CASE Issue(c, "DUAL_SIM_MODE_SWITCH")
    BY <1>1, IssueStep DEF Requests, MtkRequests
  <1>2. CASE ~Issue(c, "DUAL_SIM_MODE_SWITCH")
    <2>1. /\ call[c] = "new" /\ call' = [call EXCEPT ![c] = "ignored"]
          /\ UNCHANGED <<answers, nextSerial, sendQ, mRequestList, receiver, link, world>>
      BY <1>2 DEF setRadioPower
    <2>2. Serials' /\ Held'
      BY <2>1, NotPendingStep DEF CallInv, TypeOK
    <2>3. TypeOK'
      BY <2>1 DEF CallInv, TypeOK, receiver, link, world
    <2>4. AnsweredOnce'
      BY <2>1 DEF CallInv, AnsweredOnce, TypeOK, Outcomes
    <2> QED BY <2>2, <2>3, <2>4 DEF CallInv
  <1> QED BY <1>1, <1>2

(* setUiccSubscription and the two preferences answer a new call on the    *)
(* spot.                                                                   *)
LEMMA AtOnceStep ==
    ASSUME CallInv, NEW c \in Calls, call[c] = "new", Answer({[result |-> c]}, "ok"),
           UNCHANGED <<nextSerial, sendQ, mRequestList, receiver, link, world>>
    PROVE  CallInv'
  <1> DEFINE rr == [result |-> c]
  <1>1. /\ call'[c] = "ok" /\ answers'[c] = answers[c] + 1
        /\ \A d \in Calls \ {c} : call'[d] = call[d] /\ answers'[d] = answers[d]
    <2>1. rr.result = c /\ Answer({rr}, "ok") OBVIOUS
    <2> HIDE DEF rr
    <2> QED BY <2>1, AnswerEffect
  <1>2. /\ call' \in [Calls -> {"new", "ignored", "pending"} \cup Outcomes]
        /\ answers' \in [Calls -> Nat]
    <2>1. "ok" \in Outcomes BY DEF Outcomes
    <2> QED BY <2>1, AnswerType DEF CallInv, TypeOK
  <1>3. TypeOK'
    BY <1>2 DEF CallInv, TypeOK, receiver, link, world
  <1>4. Serials' /\ Held'
    BY <1>1, NotPendingStep
  <1>5. AnsweredOnce'
    BY <1>1, SMTT(40) DEF CallInv, AnsweredOnce, TypeOK, Outcomes
  <1> QED BY <1>3, <1>4, <1>5 DEF CallInv

(* A method called by the framework keeps the call invariant. *)
LEMMA FrameworkStep == CallInv /\ Framework => CallInv'
  <1> SUFFICES ASSUME CallInv, NEW c \in Calls,
                      \/ \E allow \in RilEnable : setRadioPower(c, allow)
                      \/ setupDataCall(c) \/ OtherRequest(c)
                      \/ \E subStatus \in 0..2 : setUiccSubscription(c, subStatus)
                      \/ setSubscriptionPreference(c)
               PROVE  CallInv'
    BY DEF Framework
  <1>1. CASE \E allow \in RilEnable : setRadioPower(c, allow)
    BY <1>1, RadioPowerStep
  <1>2. CASE setupDataCall(c)
    BY <1>2, IssueStep DEF setupDataCall, Requests, AospRequests
  <1>3. CASE OtherRequest(c)
    BY <1>3, IssueStep DEF OtherRequest, Requests, AospRequests
  <1>4. CASE \E subStatus \in 0..2 : setUiccSubscription(c, subStatus)
    BY <1>4, AtOnceStep DEF setUiccSubscription
  <1>5. CASE setSubscriptionPreference(c)
    BY <1>5, AtOnceStep DEF setSubscriptionPreference
  <1> QED BY <1>1, <1>2, <1>3, <1>4, <1>5

(* Answering the requests of a set that leaves the queue or the list keeps *)
(* the counts right: their calls were waiting.                             *)
LEMMA AnsweredOnceStep ==
    ASSUME CallInv, NEW rrs, NEW outcome \in Outcomes, Answer(rrs, outcome),
           \A rr \in rrs : rr.result \in Calls => call[rr.result] = "pending"
    PROVE  AnsweredOnce'
  <1> SUFFICES ASSUME NEW c \in Calls
               PROVE  answers'[c] = IF call'[c] \in Outcomes THEN 1 ELSE 0
    BY DEF AnsweredOnce
  <1>1. answers[c] = IF call[c] \in Outcomes THEN 1 ELSE 0
    BY DEF CallInv, AnsweredOnce
  <1>2. CASE \E rr \in rrs : rr.result = c
    <2>1. call[c] = "pending" /\ answers[c] = 0
      BY <1>1, <1>2 DEF Outcomes
    <2>2. call'[c] = outcome /\ answers'[c] = answers[c] + 1
      BY <1>2, AnswerEffect
    <2> QED BY <2>1, <2>2
  <1>3. CASE \A rr \in rrs : rr.result # c
    BY <1>1, <1>3, AnswerEffect
  <1> QED BY <1>2, <1>3

(* The serial finds at most one request, so that what leaves mRequestList  *)
(* is what is answered.                                                    *)
LEMMA SolicitedStep == CallInv /\ processSolicited => CallInv'
  <1> SUFFICES ASSUME CallInv, processSolicited PROVE CallInv'
    OBVIOUS
  <1> USE DEF CallInv, Held
  <1> DEFINE m == Head(socket)
             found == {rr \in mRequestList : rr.serial = m.serial}
  <1>1. /\ socket # <<>> /\ socket' = Tail(socket)
        /\ mRequestList' = mRequestList \ found
        /\ \/ found = {} /\ UNCHANGED callers
           \/ \E rr \in found : Answer({rr}, Outcome(rr, m))
        /\ UNCHANGED <<nextSerial, sendQ, connected, leftover, modem, receiver, world>>
    BY DEF processSolicited
  <1>2. socket' \in Seq(Responses \cup Unsolicited)
    BY <1>1, HeadTailProperties DEF TypeOK
  <1>3. Serials'
    BY <1>1 DEF Serials
  <1>4. HeldOnce'
    BY <1>1 DEF HeldOnce
  <1>5. CASE found = {} /\ UNCHANGED callers
    <2>1. mRequestList' = mRequestList /\ UNCHANGED <<call, answers>>
      BY <1>1, <1>5 DEF callers
    <2>2. TypeOK'
      BY <1>1, <1>2, <2>1 DEF TypeOK, receiver, world
    <2>3. HeldWaits' /\ WaitsHeld' /\ AnsweredOnce'
      BY <1>1, <2>1 DEF HeldWaits, WaitsHeld, AnsweredOnce
    <2> QED BY <1>3, <1>4, <2>2, <2>3
  <1>6. CASE \E rr \in found : Answer({rr}, Outcome(rr, m))
    <2>1. PICK rr \in found : Answer({rr}, Outcome(rr, m))
      BY <1>6
    <2>2. rr \in mRequestList /\ found = {rr}
      BY DEF Serials
    <2>3. Outcome(rr, m) \in Outcomes
      BY OutcomeType
    <2> DEFINE out == Outcome(rr, m)
    <2>4. /\ \A c \in Calls : rr.result = c => call'[c] = out
          /\ \A c \in Calls : rr.result # c => call'[c] = call[c]
      BY <2>1, AnswerEffect
    <2>5. TypeOK'
      <3>1. /\ call' \in [Calls -> {"new", "ignored", "pending"} \cup Outcomes]
            /\ answers' \in [Calls -> Nat]
        BY <2>1, <2>3, AnswerType DEF TypeOK
      <3> QED BY <1>1, <1>2, <3>1 DEF TypeOK, receiver, world
    <2> HIDE DEF found
    <2>6. HeldWaits'
      BY <1>1, <2>2, <2>4 DEF HeldWaits, HeldOnce
    <2>7. WaitsHeld'
      <3>1. out # "pending"
        BY <2>3 DEF Outcomes
      <3> HIDE DEF out
      <3> SUFFICES ASSUME NEW c \in Calls, call'[c] = "pending"
                   PROVE  \/ \E i \in 1..Len(sendQ') : sendQ'[i].result = c
                          \/ \E r \in mRequestList' : r.result = c
        BY DEF WaitsHeld
      <3>2. rr.result # c /\ call[c] = "pending"
        BY <2>4, <3>1
      <3> QED BY <1>1, <2>2, <3>2 DEF WaitsHeld
    <2>8. AnsweredOnce'
      <3>1. \A r \in {rr} : r.result \in Calls => call[r.result] = "pending"
        BY <2>2 DEF HeldWaits
      <3> QED BY <2>1, <2>3, <3>1, AnsweredOnceStep
    <2> QED BY <1>3, <1>4, <2>5, <2>6, <2>7, <2>8
  <1> QED BY <1>1, <1>5, <1>6

(* The loss of the socket empties mRequestList and answers all of it; what *)
(* is still in the sender queue goes on waiting there.                     *)
LEMMA LoseSocketStep ==
    ASSUME CallInv, LoseSocket, nextSerial' \in Nat, nextSerial' >= nextSerial,
           drops' \in 0..MaxDrops
    PROVE  CallInv'
  <1> USE DEF CallInv, Held
  <1>1. /\ connected' = FALSE /\ leftover' = Len(sendQ) /\ modem' = {} /\ socket' = <<>>
        /\ todo' = <<>> /\ ring' = 0 /\ radio' = 0
        /\ Answer(mRequestList, "error") /\ mRequestList' = {}
        /\ gprs' = "unset" /\ UNCHANGED <<sendQ, unsols>>
    BY DEF LoseSocket
  <1>2. "error" \in Outcomes BY DEF Outcomes
  <1>3. \A c \in Calls :
           /\ (\E rr \in mRequestList : rr.result = c) => call'[c] = "error"
           /\ (\A rr \in mRequestList : rr.result # c) => call'[c] = call[c]
    BY <1>1, AnswerEffect
  <1>4. TypeOK'
    <2>1. /\ call' \in [Calls -> {"new", "ignored", "pending"} \cup Outcomes]
          /\ answers' \in [Calls -> Nat]
      BY <1>1, <1>2, AnswerType DEF TypeOK
    <2>2. /\ socket' \in Seq(Responses \cup Unsolicited) /\ mRequestList' \subseteq RilRequests
          /\ leftover' \in Nat /\ todo' \in Seq(MtkRequests)
      BY <1>1, RequestTypes
    <2> QED BY <1>1, <2>1, <2>2 DEF TypeOK
  <1>5. Serials'
    BY <1>1, RequestTypes DEF Serials
  <1>6. HeldOnce'
    BY <1>1 DEF HeldOnce
  <1>7. HeldWaits'
    BY <1>1, <1>3 DEF HeldWaits, HeldOnce
  <1>8. WaitsHeld'
    BY <1>1, <1>3 DEF WaitsHeld
  <1>9. AnsweredOnce'
    <2>1. \A rr \in mRequestList : rr.result \in Calls => call[rr.result] = "pending"
      BY DEF HeldWaits
    <2> QED BY <1>1, <1>2, <2>1, AnsweredOnceStep
  <1> QED BY <1>4, <1>5, <1>6, <1>7, <1>8, <1>9

(* What the receiver thread reads touches neither calls nor requests.      *)
LEMMA UnsolicitedStep == CallInv /\ processUnsolicited => CallInv'
  <1> SUFFICES ASSUME CallInv, processUnsolicited PROVE CallInv'
    OBVIOUS
  <1>1. /\ socket # <<>> /\ socket' = Tail(socket) /\ todo' = OwnRequests(Head(socket))
        /\ UNCHANGED <<call, answers, nextSerial, sendQ, mRequestList, connected, leftover, modem,
                       world>>
    BY DEF processUnsolicited, callers
  <1>2. socket' \in Seq(Responses \cup Unsolicited) /\ todo' \in Seq(MtkRequests)
    BY <1>1, OwnRequestsShape, HeadTailProperties DEF CallInv, TypeOK
  <1>3. TypeOK' BY <1>1, <1>2 DEF CallInv, TypeOK, world
  <1> QED BY <1>1, <1>3 DEF CallInv, Serials, Held, HeldOnce, HeldWaits, WaitsHeld, AnsweredOnce

(* The receiver thread's own requests carry no call, so that they lengthen *)
(* the queue and change nothing about who waits.                           *)
LEMMA OwnStep == CallInv /\ SendOwn => CallInv'
  <1> SUFFICES ASSUME CallInv, SendOwn PROVE CallInv'
    OBVIOUS
  <1> USE DEF CallInv, Held
  <1> DEFINE rr == Obtain(Head(todo), NoResult)
  <1>1. /\ todo # <<>> /\ todo' = Tail(todo) /\ sendQ' = Append(sendQ, rr)
        /\ nextSerial' = nextSerial + 1
        /\ UNCHANGED <<call, answers, mRequestList, link, world>>
    BY DEF SendOwn, callers
  <1>2. Head(todo) \in Requests /\ todo' \in Seq(MtkRequests)
    BY <1>1, HeadTailProperties DEF TypeOK, Requests
  <1>3. rr \in RilRequests /\ rr.serial = nextSerial /\ rr.result = NoResult
    BY <1>2, ObtainType, SMTT(40) DEF TypeOK
  <1> HIDE DEF rr
  <1>4. /\ sendQ' \in Seq(RilRequests) /\ Len(sendQ) \in Nat /\ Len(sendQ') = Len(sendQ) + 1
        /\ \A i \in 1..Len(sendQ) : sendQ'[i] = sendQ[i]
        /\ sendQ'[Len(sendQ) + 1] = rr
        /\ \A i \in 1..Len(sendQ) : sendQ[i] \in RilRequests
    BY <1>1, <1>3, AppendProperties DEF TypeOK
  <1>5. \A i \in 1..Len(sendQ') : i \in 1..Len(sendQ) \/ i = Len(sendQ) + 1
    BY <1>4
  <1>6. TypeOK'
    BY <1>1, <1>2, <1>4 DEF TypeOK, link, world
  <1>7. Serials'
    BY <1>1, <1>3, <1>4, <1>5, SMTT(40) DEF Serials, TypeOK, RilRequests
  <1>8. HeldOnce'
    BY <1>1, <1>3, <1>4, <1>5, CallsAssumption DEF HeldOnce
  <1>9. HeldWaits'
    BY <1>1, <1>3, <1>4, <1>5, CallsAssumption DEF HeldWaits
  <1>10. WaitsHeld'
    <2>1. \A i \in 1..Len(sendQ) : i \in 1..Len(sendQ') /\ sendQ'[i].result = sendQ[i].result
      BY <1>4
    <2> QED BY <1>1, <2>1 DEF WaitsHeld
  <1>11. AnsweredOnce'
    BY <1>1 DEF AnsweredOnce
  <1> QED BY <1>6, <1>7, <1>8, <1>9, <1>10, <1>11

(* The sender takes the oldest request: it moves to mRequestList, or is    *)
(* answered with an error when there is no socket.                         *)
LEMMA SenderStep == CallInv /\ Sender => CallInv'
  <1> SUFFICES ASSUME CallInv, Sender PROVE CallInv'
    OBVIOUS
  <1> USE DEF CallInv, Held
  <1> DEFINE rr == Head(sendQ)
  <1>1. /\ sendQ # <<>> /\ sendQ' = Tail(sendQ)
        /\ UNCHANGED <<nextSerial, connected, socket, receiver, unsols, drops>>
        /\ leftover' \in Nat
    BY DEF Sender, TypeOK
  <1>2. /\ sendQ' \in Seq(RilRequests) /\ Len(sendQ) \in Nat /\ Len(sendQ') = Len(sendQ) - 1
        /\ rr \in RilRequests /\ rr = sendQ[1] /\ 1 \in 1..Len(sendQ)
        /\ \A i \in 1..Len(sendQ') : i + 1 \in 1..Len(sendQ) /\ sendQ'[i] = sendQ[i + 1]
    <2>1. sendQ \in Seq(RilRequests) BY DEF TypeOK
    <2> QED BY <1>1, <2>1, HeadTailProperties
  <1>3. \A i \in 1..Len(sendQ) : i = 1 \/ (i - 1 \in 1..Len(sendQ') /\ sendQ'[i - 1] = sendQ[i])
    BY <1>2
  <1> HIDE DEF rr
  <1>4. \A i, j \in 1..Len(sendQ') : i < j => sendQ'[i].serial < sendQ'[j].serial
    <2> SUFFICES ASSUME NEW i \in 1..Len(sendQ'), NEW j \in 1..Len(sendQ'), i < j
                 PROVE  sendQ'[i].serial < sendQ'[j].serial
      OBVIOUS
    <2>1. i + 1 \in 1..Len(sendQ) /\ j + 1 \in 1..Len(sendQ) /\ i + 1 < j + 1
      BY <1>2
    <2>2. sendQ[i + 1].serial < sendQ[j + 1].serial
      BY <2>1 DEF Serials
    <2> QED BY <1>2, <2>2
  <1>5. \A i, j \in 1..Len(sendQ') :
            sendQ'[i].result \in Calls /\ sendQ'[i].result = sendQ'[j].result => i = j
    <2> SUFFICES ASSUME NEW i \in 1..Len(sendQ'), NEW j \in 1..Len(sendQ'),
                        sendQ'[i].result \in Calls, sendQ'[i].result = sendQ'[j].result
                 PROVE  i = j
      OBVIOUS
    <2>1. i + 1 = j + 1
      BY <1>2, ZenonT(40) DEF HeldOnce
    <2> QED BY <2>1
  <1>6. CASE Answer({rr}, "error") /\ UNCHANGED <<mRequestList, modem, gprs, radio, ring>>
    <2>1. "error" \in Outcomes BY DEF Outcomes
    <2>2. /\ \A c \in Calls : rr.result = c => call'[c] = "error"
          /\ \A c \in Calls : rr.result # c => call'[c] = call[c]
      BY <1>6, AnswerEffect
    <2>3. TypeOK'
      <3>1. /\ call' \in [Calls -> {"new", "ignored", "pending"} \cup Outcomes]
            /\ answers' \in [Calls -> Nat]
        BY <1>6, <2>1, AnswerType DEF TypeOK
      <3> QED BY <1>1, <1>2, <1>6, <3>1 DEF TypeOK, receiver
    <2>4. Serials'
      BY <1>1, <1>2, <1>6, <1>4 DEF Serials
    <2>5. HeldOnce'
      BY <1>2, <1>6, <1>5 DEF HeldOnce
    <2>6. HeldWaits'
      <3>1. \A i \in 1..Len(sendQ') : sendQ'[i].result \in Calls => sendQ'[i].result # rr.result
        BY <1>2 DEF HeldOnce
      <3>2. \A r \in mRequestList : r.result \in Calls => r.result # rr.result
        BY <1>2 DEF HeldOnce
      <3> QED BY <1>2, <1>6, <2>2, <3>1, <3>2 DEF HeldWaits
    <2>7. WaitsHeld'
      <3> SUFFICES ASSUME NEW c \in Calls, call'[c] = "pending"
                   PROVE  \/ \E i \in 1..Len(sendQ') : sendQ'[i].result = c
                          \/ \E r \in mRequestList' : r.result = c
        BY DEF WaitsHeld
      <3>1. rr.result # c /\ call[c] = "pending"
        BY <2>2
      <3>2. CASE \E r \in mRequestList : r.result = c
        BY <1>6, <3>2
      <3>3. CASE \E i \in 1..Len(sendQ) : sendQ[i].result = c
        BY <1>2, <1>3, <3>1, <3>3
      <3> QED BY <3>1, <3>2, <3>3 DEF WaitsHeld
    <2>8. AnsweredOnce'
      <3>1. \A r \in {rr} : r.result \in Calls => call[r.result] = "pending"
        BY <1>2 DEF HeldWaits
      <3> QED BY <1>6, <2>1, <3>1, AnsweredOnceStep
    <2> QED BY <2>3, <2>4, <2>5, <2>6, <2>7, <2>8
  <1>7. CASE /\ mRequestList' = mRequestList \cup {rr} /\ modem' = modem \cup {rr}
             /\ gprs' \in {"unset", "transfer", "ready", "misordered"}
             /\ ring' \in Nat /\ radio' \in Nat
             /\ UNCHANGED callers
    <2>1. UNCHANGED <<call, answers>> BY <1>7 DEF callers
    <2>2. TypeOK'
      BY <1>1, <1>2, <1>7, <2>1 DEF TypeOK, receiver
    <2>3. Serials'
      <3>1. \A i \in 1..Len(sendQ') : rr.serial < sendQ'[i].serial
        BY <1>2 DEF Serials
      <3>2. \A r \in mRequestList : r.serial < rr.serial
        BY <1>2 DEF Serials
      <3>3. rr.serial < nextSerial /\ rr.serial \in Nat
        BY <1>2, RequestTypes DEF Serials
      <3>4. \A r1, r2 \in mRequestList' : r1.serial = r2.serial => r1 = r2
        BY <1>7, <3>2, <3>3, RequestTypes DEF Serials
      <3>6. \A i \in 1..Len(sendQ') : sendQ'[i].serial < nextSerial
        BY <1>2 DEF Serials
      <3>7. \A r \in mRequestList : r.serial < nextSerial
                                    /\ \A i \in 1..Len(sendQ') : r.serial < sendQ'[i].serial
        BY <1>2 DEF Serials
      <3> QED BY <1>1, <1>7, <1>4, <3>1, <3>3, <3>4, <3>6, <3>7 DEF Serials
    <2>4. HeldOnce'
      <3>1. \A i \in 1..Len(sendQ') : sendQ'[i].result \in Calls => sendQ'[i].result # rr.result
        BY <1>2 DEF HeldOnce
      <3>2. \A r \in mRequestList : r.result \in Calls => r.result # rr.result
        BY <1>2 DEF HeldOnce
      <3>3. \A r1, r2 \in mRequestList' : r1.result \in Calls /\ r1.result = r2.result => r1 = r2
        BY <1>7, <3>2 DEF HeldOnce
      <3>4. \A i \in 1..Len(sendQ') : \A r \in mRequestList :
                sendQ'[i].result \in Calls => sendQ'[i].result # r.result
        BY <1>2 DEF HeldOnce
      <3> QED BY <1>5, <1>7, <3>1, <3>3, <3>4 DEF HeldOnce
    <2>5. HeldWaits'
      BY <1>2, <1>7, <2>1 DEF HeldWaits
    <2>6. WaitsHeld'
      <3> SUFFICES ASSUME NEW c \in Calls, call[c] = "pending"
                   PROVE  \/ \E i \in 1..Len(sendQ') : sendQ'[i].result = c
                          \/ \E r \in mRequestList' : r.result = c
        BY <2>1 DEF WaitsHeld
      <3>1. CASE \E r \in mRequestList : r.result = c
        BY <1>7, <3>1
      <3>2. CASE \E i \in 1..Len(sendQ) : sendQ[i].result = c
        BY <1>2, <1>3, <1>7, <3>2
      <3> QED BY <3>1, <3>2 DEF WaitsHeld
    <2>7. AnsweredOnce'
      BY <2>1 DEF AnsweredOnce
    <2> QED BY <2>2, <2>3, <2>4, <2>5, <2>6, <2>7
  <1>8. \/ Answer({rr}, "error") /\ UNCHANGED <<mRequestList, modem, gprs, radio, ring>>
        \/ /\ mRequestList' = mRequestList \cup {rr} /\ modem' = modem \cup {rr}
           /\ gprs' \in {"unset", "transfer", "ready", "misordered"}
           /\ ring' \in Nat /\ radio' \in Nat
           /\ UNCHANGED callers
    BY DEF Sender, ModemReceives, rr, TypeOK
  <1> QED BY <1>6, <1>7, <1>8

(* The modem and the socket append to the socket and touch neither calls   *)
(* nor requests.                                                           *)
LEMMA ModemStep ==
    CallInv /\ (ModemAnswers \/ ModemRepeats \/ ModemIndicates) => CallInv'
  <1> SUFFICES ASSUME CallInv, ModemAnswers \/ ModemRepeats \/ ModemIndicates
               PROVE  CallInv'
    OBVIOUS
  <1> USE DEF CallInv
  <1>1. UNCHANGED <<call, answers, nextSerial, sendQ, mRequestList>>
    BY DEF ModemAnswers, ModemRepeats, ModemIndicates, callers
  <1>2. Serials' /\ Held' /\ AnsweredOnce'
    BY <1>1 DEF Serials, Held, HeldOnce, HeldWaits, WaitsHeld, AnsweredOnce
  <1>3. TypeOK'
    <2>1. CASE ModemAnswers
      <3>1. PICK rr \in modem, error \in BOOLEAN, data \in BOOLEAN, wellFormed \in BOOLEAN :
              /\ modem' = modem \ {rr}
              /\ socket' = Append(socket, [kind |-> "solicited", serial |-> rr.serial,
                              error |-> error, data |-> data, wellFormed |-> wellFormed])
        BY <2>1 DEF ModemAnswers
      <3>2. [kind |-> "solicited", serial |-> rr.serial, error |-> error, data |-> data,
             wellFormed |-> wellFormed] \in Responses \cup Unsolicited
        BY DEF TypeOK, RilRequests, Responses
      <3>3. socket' \in Seq(Responses \cup Unsolicited)
        BY <3>1, <3>2, AppendProperties DEF TypeOK
      <3> QED BY <1>1, <2>1, <3>1, <3>3 DEF TypeOK, ModemAnswers, receiver, world
    <2>2. CASE ModemRepeats
      <3>1. PICK serial \in {rr.serial : rr \in mRequestList} \cup {-1} :
              socket' = Append(socket, [kind |-> "solicited", serial |-> serial,
                          error |-> FALSE, data |-> TRUE, wellFormed |-> TRUE])
        BY <2>2 DEF ModemRepeats
      <3>2. [kind |-> "solicited", serial |-> serial, error |-> FALSE, data |-> TRUE,
             wellFormed |-> TRUE] \in Responses \cup Unsolicited
        BY RequestTypes DEF Responses
      <3>3. socket' \in Seq(Responses \cup Unsolicited)
        BY <3>1, <3>2, AppendProperties DEF TypeOK
      <3> QED BY <1>1, <2>2, <3>3, BoundAssumption DEF TypeOK, ModemRepeats, receiver
    <2>3. CASE ModemIndicates
      <3>1. PICK code \in ModemCodes, state \in RadioStates, wellFormed \in BOOLEAN :
              /\ ~wellFormed => drops < MaxDrops
              /\ socket' = Append(socket, [kind |-> "unsolicited", code |-> code,
                              state |-> state, wellFormed |-> wellFormed])
              /\ drops' = IF wellFormed THEN drops ELSE drops + 1
        BY <2>3 DEF ModemIndicates
      <3>2. [kind |-> "unsolicited", code |-> code, state |-> state,
             wellFormed |-> wellFormed] \in Responses \cup Unsolicited
        BY CodesAssumption DEF Unsolicited
      <3>3. socket' \in Seq(Responses \cup Unsolicited)
        BY <3>1, <3>2, AppendProperties DEF TypeOK
      <3>4. drops' \in 0..MaxDrops
        BY <3>1, BoundAssumption DEF TypeOK
      <3>5. ring' \in Nat /\ radio' \in Nat BY <2>3 DEF ModemIndicates, TypeOK
      <3> QED BY <1>1, <2>3, <3>3, <3>4, <3>5, BoundAssumption DEF TypeOK, ModemIndicates, receiver
    <2> QED BY <2>1, <2>2, <2>3
  <1> QED BY <1>2, <1>3

(* Every step keeps the call invariant. *)
LEMMA CallStep == CallInv /\ [Next]_vars => CallInv'
  <1> SUFFICES ASSUME CallInv, [Next]_vars PROVE CallInv'
    OBVIOUS
  <1> USE DEF CallInv
  <1>1. CASE Framework
    BY <1>1, FrameworkStep
  <1>2. CASE processSolicited
    BY <1>2, SolicitedStep
  <1>3. CASE UnsolicitedFails
    <2>1. LoseSocket /\ drops' = drops /\ (nextSerial' = nextSerial \/ nextSerial' = nextSerial + 1)
      BY <1>3 DEF UnsolicitedFails
    <2>2. nextSerial \in Nat /\ drops \in 0..MaxDrops BY DEF TypeOK
    <2> QED BY <2>1, <2>2, LoseSocketStep
  <1>4. CASE processUnsolicited \/ SendOwn
    BY <1>4, UnsolicitedStep, OwnStep
  <1>5. CASE Sender
    BY <1>5, SenderStep
  <1>6. CASE ModemAnswers \/ ModemRepeats \/ ModemIndicates
    BY <1>6, ModemStep
  <1>7. CASE SocketLost
    <2>1. drops' \in 0..MaxDrops /\ nextSerial' = nextSerial /\ nextSerial \in Nat
      BY <1>7, BoundAssumption DEF SocketLost, TypeOK
    <2> QED BY <1>7, <2>1, LoseSocketStep DEF SocketLost
  <1>8. CASE SuperProcessUnsolicited \/ Reconnect \/ UNCHANGED vars
    <2>1. /\ UNCHANGED <<call, answers, nextSerial, sendQ, mRequestList, todo, leftover, modem,
                         socket, world>>
          /\ connected' \in BOOLEAN
      BY <1>8 DEF SuperProcessUnsolicited, Reconnect, vars, callers, receiver, link, TypeOK
    <2> QED BY <2>1 DEF TypeOK, Serials, Held, HeldOnce, HeldWaits, WaitsHeld, AnsweredOnce, world
  <1> QED BY <1>1, <1>2, <1>3, <1>4, <1>5, <1>6, <1>7, <1>8 DEF Next, Receiver

(* CallInv is an invariant, for any number of calls, messages and losses. *)
LEMMA CallInvariance == Spec => []CallInv
BY CallInit, CallStep, PTL DEF Spec

(* The type invariant, for every number of calls, messages and losses. *)
THEOREM TypeCorrect == Spec => []TypeOK
BY CallInvariance, PTL DEF CallInv

(* Every result message of processSolicited, of the at-once answers and of *)
(* the error paths is sent at most once, and exactly when the call is over.*)
THEOREM EveryCallAnsweredOnce == Spec => []AnsweredOnce
BY CallInvariance, PTL DEF CallInv

(* A call waits exactly while one request of sendQ or mRequestList carries *)
(* its result message.                                                     *)
THEOREM NoCallLost == Spec => []NoLostCall
  <1>1. CallInv => NoLostCall
    <2> SUFFICES ASSUME CallInv, NEW c \in Calls
                 PROVE  call[c] = "pending" <=>
                          Cardinality({rr \in Queued \cup mRequestList : rr.result = c}) = 1
      BY DEF NoLostCall
    <2> DEFINE H == {rr \in Queued \cup mRequestList : rr.result = c}
    <2>1. \A rr : rr \in Queued <=> \E i \in 1..Len(sendQ) : rr = sendQ[i]
      BY DEF Queued, CallInv, TypeOK
    <2>2. \A r1, r2 \in H : r1 = r2
      BY <2>1 DEF CallInv, Held, HeldOnce
    <2>3. CASE H = {}
      <3>1. Cardinality(H) = 0
        BY <2>3, FS_EmptySet
      <3>2. call[c] # "pending"
        BY <2>1, <2>3 DEF CallInv, Held, WaitsHeld
      <3> QED BY <3>1, <3>2
    <2>4. CASE H # {}
      <3>1. PICK rr \in H : H = {rr}
        BY <2>2, <2>4
      <3>2. Cardinality(H) = 1
        BY <3>1, FS_Singleton
      <3>3. call[c] = "pending"
        BY <2>1, <3>1 DEF CallInv, Held, HeldWaits
      <3> QED BY <3>2, <3>3
    <2> QED BY <2>3, <2>4
  <1> QED BY <1>1, CallInvariance, PTL

-----------------------------------------------------------------------------
(* The order of the two GPRS requests *)

(* A request that joins the end of the queue leaves a pair before it open. *)
LEMMA PairedKept ==
    ASSUME NEW n \in Nat, NEW len \in Nat, n <= len, Paired(n), gprs' = gprs,
           \A i \in 1..len : sendQ'[i] = sendQ[i]
    PROVE  Paired(n)'
  <1>1. PICK j \in 0..n :
          /\ IF j = 0 THEN gprs = "transfer" ELSE sendQ[j].request = "SET_GPRS_TRANSFER_TYPE"
          /\ \A k \in (j + 1)..n : sendQ[k].request \notin GprsRequests
    BY DEF Paired
  <1>2. IF j = 0 THEN gprs' = "transfer" ELSE sendQ'[j].request = "SET_GPRS_TRANSFER_TYPE"
    BY <1>1
  <1>3. \A k \in (j + 1)..n : sendQ'[k].request \notin GprsRequests
    BY <1>1
  <1> QED BY <1>2, <1>3 DEF Paired

(* If it is about something else, it leaves the pair open behind it too. *)
LEMMA PairedLengthened ==
    ASSUME NEW n \in Nat, Paired(n), gprs' = gprs, \A i \in 1..n : sendQ'[i] = sendQ[i],
           sendQ'[n + 1].request \notin GprsRequests
    PROVE  Paired(n + 1)'
  <1>1. PICK j \in 0..n :
          /\ IF j = 0 THEN gprs = "transfer" ELSE sendQ[j].request = "SET_GPRS_TRANSFER_TYPE"
          /\ \A k \in (j + 1)..n : sendQ[k].request \notin GprsRequests
    BY DEF Paired
  <1>2. IF j = 0 THEN gprs' = "transfer" ELSE sendQ'[j].request = "SET_GPRS_TRANSFER_TYPE"
    BY <1>1
  <1>3. \A k \in (j + 1)..(n + 1) : sendQ'[k].request \notin GprsRequests
    BY <1>1
  <1>4. j \in 0..(n + 1) OBVIOUS
  <1> QED BY <1>2, <1>3, <1>4 DEF Paired

(* Whichever request the modem receives: what was paired in the queue      *)
(* stays paired with what is left of it.                                   *)
LEMMA PairedSent ==
    ASSUME NEW n \in Nat, n >= 1, Paired(n), ModemReceives(sendQ[1]),
           \A i \in 1..(n - 1) : sendQ'[i] = sendQ[i + 1]
    PROVE  Paired(n - 1)'
  <1>1. PICK j \in 0..n :
          /\ IF j = 0 THEN gprs = "transfer" ELSE sendQ[j].request = "SET_GPRS_TRANSFER_TYPE"
          /\ \A k \in (j + 1)..n : sendQ[k].request \notin GprsRequests
    BY DEF Paired
  <1>2. CASE j = 0
    <2>1. sendQ[1].request \notin GprsRequests BY <1>1, <1>2
    <2>2. gprs' = "transfer" BY <1>1, <1>2, <2>1 DEF ModemReceives, GprsRequests
    <2>3. \A k \in 1..(n - 1) : sendQ'[k].request \notin GprsRequests
      BY <1>1, <1>2
    <2> QED BY <2>2, <2>3 DEF Paired
  <1>3. CASE j = 1
    <2>1. gprs' = "transfer" BY <1>1, <1>3 DEF ModemReceives
    <2>2. \A k \in 1..(n - 1) : sendQ'[k].request \notin GprsRequests
      BY <1>1, <1>3
    <2> QED BY <2>1, <2>2 DEF Paired
  <1>4. CASE j > 1
    <2>1. j - 1 \in 0..(n - 1) /\ j - 1 # 0 BY <1>4
    <2>2. sendQ'[j - 1].request = "SET_GPRS_TRANSFER_TYPE"
      BY <1>1, <1>4
    <2>3. \A k \in ((j - 1) + 1)..(n - 1) : sendQ'[k].request \notin GprsRequests
      BY <1>1, <1>4
    <2> QED BY <2>1, <2>2, <2>3 DEF Paired
  <1> QED BY <1>2, <1>3, <1>4

LEMMA GprsInit == Init => GprsInv
BY DEF Init, GprsInv, OwnShapes

(* A phone thread's request, at any place between the receiver thread's    *)
(* own two, is not about GPRS.                                             *)
LEMMA GprsIssue ==
    ASSUME TypeOK, GprsInv, NEW c, NEW request, Issue(c, request), request \notin GprsRequests
    PROVE  GprsInv'
  <1> DEFINE rr == Obtain(request, c)
             len == Len(sendQ)
  <1>1. rr.request = request BY DEF Obtain
  <1>2. /\ sendQ' = Append(sendQ, rr)
        /\ UNCHANGED <<todo, handing, connected, leftover, modem, socket, gprs>>
    BY DEF Issue, receiver, link, world
  <1>3. /\ len \in Nat /\ Len(sendQ') = len + 1
        /\ \A i \in 1..len : sendQ'[i] = sendQ[i]
        /\ sendQ'[len + 1] = rr
    BY <1>2, RequestTypes, AppendProperties DEF TypeOK
  <1> HIDE DEF rr
  <1>4. ASSUME NEW i \in 1..Len(sendQ'), sendQ'[i].request = "SET_GPRS_CONNECT_TYPE",
               i > leftover'
        PROVE  connected' /\ Paired(i - 1)'
    <2>1. i \in 1..len BY <1>1, <1>3, <1>4 DEF GprsRequests
    <2>2. connected /\ Paired(i - 1) BY <1>2, <1>3, <1>4, <2>1 DEF GprsInv
    <2>3. i - 1 \in Nat /\ i - 1 <= len BY <1>3, <2>1
    <2> HIDE DEF len
    <2>4. Paired(i - 1)' BY <1>2, <1>3, <2>2, <2>3, PairedKept
    <2> QED BY <1>2, <2>2, <2>4
  <1>5. ASSUME todo' = <<"SET_GPRS_CONNECT_TYPE">> PROVE Paired(Len(sendQ))'
    <2>1. Paired(len) BY <1>2, <1>5 DEF GprsInv
    <2>2. ASSUME NEW n \in Nat, n = len PROVE Paired(n + 1)'
      <3>1. Paired(n) BY <2>1, <2>2
      <3>2. sendQ'[n + 1].request \notin GprsRequests BY <1>1, <1>3, <2>2
      <3> QED BY <1>2, <1>3, <2>2, <3>1, <3>2, PairedLengthened
    <2> QED BY <1>3, <2>2
  <1> QED BY <1>2, <1>4, <1>5 DEF GprsInv

(* The receiver thread's own requests: the first of the pair makes ready   *)
(* for the second.                                                         *)
LEMMA GprsOwn == TypeOK /\ GprsInv /\ SendOwn => GprsInv'
  <1> SUFFICES ASSUME TypeOK, GprsInv, SendOwn PROVE GprsInv'
    OBVIOUS
  <1> DEFINE rr == Obtain(Head(todo), NoResult)
             len == Len(sendQ)
  <1>1. rr.request = Head(todo) BY DEF Obtain
  <1>2. /\ todo # <<>> /\ todo' = Tail(todo) /\ sendQ' = Append(sendQ, rr)
        /\ UNCHANGED <<handing, connected, leftover, modem, socket, gprs>>
    BY DEF SendOwn, link, world
  <1>3. /\ len \in Nat /\ Len(sendQ') = len + 1
        /\ \A i \in 1..len : sendQ'[i] = sendQ[i]
        /\ sendQ'[len + 1] = rr
    BY <1>2, RequestTypes, AppendProperties DEF TypeOK
  <1> HIDE DEF rr
  <1>4. connected /\ handing # "none" BY <1>2 DEF GprsInv
  <1>5. \/ /\ todo = <<"SET_CALL_INDICATION">>
           /\ Head(todo) = "SET_CALL_INDICATION" /\ todo' = <<>>
        \/ /\ todo = <<"SET_GPRS_CONNECT_TYPE">>
           /\ Head(todo) = "SET_GPRS_CONNECT_TYPE" /\ todo' = <<>>
        \/ /\ Head(todo) = "SET_GPRS_TRANSFER_TYPE"
           /\ todo' = <<"SET_GPRS_CONNECT_TYPE">>
    <2>1. CASE todo = <<"SET_CALL_INDICATION">> BY <1>2, <2>1
    <2>2. CASE todo = <<"SET_GPRS_CONNECT_TYPE">> BY <1>2, <2>2
    <2>3. CASE todo = <<"SET_GPRS_TRANSFER_TYPE", "SET_GPRS_CONNECT_TYPE">> BY <1>2, <2>3
    <2> QED BY <1>2, <2>1, <2>2, <2>3 DEF GprsInv, OwnShapes
  <1>6. ASSUME NEW i \in 1..Len(sendQ'), sendQ'[i].request = "SET_GPRS_CONNECT_TYPE",
               i > leftover'
        PROVE  connected' /\ Paired(i - 1)'
    <2>1. i - 1 \in Nat /\ i - 1 <= len /\ (i \in 1..len \/ i = len + 1) BY <1>3
    <2>4. Paired(i - 1)
      <3>1. CASE i \in 1..len
        <4>1. sendQ[i].request = "SET_GPRS_CONNECT_TYPE" /\ i > leftover
          BY <1>2, <1>3, <1>6, <3>1
        <4> QED BY <3>1, <4>1 DEF GprsInv
      <3>2. CASE i = len + 1
        <4>1. todo = <<"SET_GPRS_CONNECT_TYPE">> BY <1>1, <1>3, <1>5, <1>6, <3>2
        <4>2. Paired(len) BY <4>1 DEF GprsInv
        <4>3. i - 1 = len BY <1>3, <3>2
        <4> HIDE DEF len
        <4> QED BY <4>2, <4>3
      <3> QED BY <2>1, <3>1, <3>2
    <2> HIDE DEF len
    <2>5. Paired(i - 1)' BY <1>2, <1>3, <2>1, <2>4, PairedKept
    <2> QED BY <1>2, <1>4, <2>5
  <1>7. ASSUME todo' = <<"SET_GPRS_CONNECT_TYPE">> PROVE Paired(Len(sendQ))'
    <2>1. Head(todo) = "SET_GPRS_TRANSFER_TYPE" BY <1>5, <1>7
    <2>2. ASSUME NEW n \in Nat, n = Len(sendQ') PROVE Paired(n)'
      <3>1. n \in 0..n /\ n # 0 /\ sendQ'[n].request = "SET_GPRS_TRANSFER_TYPE"
        BY <1>1, <1>3, <2>1, <2>2
      <3>2. \A k \in (n + 1)..n : sendQ'[k].request \notin GprsRequests OBVIOUS
      <3> QED BY <3>1, <3>2 DEF Paired
    <2> QED BY <1>3, <2>2
  <1>8. todo' \in OwnShapes BY <1>5 DEF OwnShapes
  <1> QED BY <1>2, <1>4, <1>6, <1>7, <1>8 DEF GprsInv

(* What the receiver thread reads decides what it has to send: no request  *)
(* of the pair alone, and none without a connection.                       *)
LEMMA GprsUnsolicited == GprsInv /\ processUnsolicited => GprsInv'
  <1> SUFFICES ASSUME GprsInv, processUnsolicited PROVE GprsInv'
    OBVIOUS
  <1> DEFINE m == Head(socket)
  <1>1. /\ handing = "none" /\ socket # <<>> /\ todo' = OwnRequests(m)
        /\ handing' = IF m.code \in DOMAIN RewrittenTo THEN RewrittenTo[m.code]
                      ELSE IF m.code \in Swallowed THEN "none" ELSE m.code
        /\ UNCHANGED <<sendQ, connected, leftover, modem, gprs>>
    BY DEF processUnsolicited, world
  <1>2. connected BY <1>1 DEF GprsInv
  <1>3. todo' \in OwnShapes /\ todo' # <<"SET_GPRS_CONNECT_TYPE">>
    BY <1>1, OwnRequestsShape
  <1>4. todo' # <<>> => handing' # "none"
    <2>1. CASE m.code = "INCOMING_CALL_INDICATION"
      BY <1>1, <2>1 DEF RewrittenTo
    <2>2. CASE m.code = "RADIO_STATE_CHANGED"
      BY <1>1, <2>2 DEF RewrittenTo
    <2>3. CASE m.code \notin {"INCOMING_CALL_INDICATION", "RADIO_STATE_CHANGED"}
      BY <1>1, <2>3 DEF OwnRequests
    <2> QED BY <2>1, <2>2, <2>3
  <1>5. \A i \in Nat : Paired(i) => Paired(i)'
    BY <1>1 DEF Paired
  <1>6. ASSUME NEW i \in 1..Len(sendQ'), sendQ'[i].request = "SET_GPRS_CONNECT_TYPE",
               i > leftover'
        PROVE  connected' /\ Paired(i - 1)'
    <2>1. Paired(i - 1) /\ i - 1 \in Nat BY <1>1, <1>6 DEF GprsInv
    <2> QED BY <1>1, <1>2, <1>5, <2>1
  <1> QED BY <1>1, <1>2, <1>3, <1>4, <1>6 DEF GprsInv

(* The sender's step: a SET_GPRS_CONNECT_TYPE of this connection finds the *)
(* modem with a transfer type.                                             *)
LEMMA GprsSender == TypeOK /\ GprsInv /\ Sender => GprsInv'
  <1> SUFFICES ASSUME TypeOK, GprsInv, Sender PROVE GprsInv'
    OBVIOUS
  <1>1. /\ sendQ # <<>> /\ sendQ' = Tail(sendQ)
        /\ leftover' = IF leftover > 0 THEN leftover - 1 ELSE 0
        /\ UNCHANGED <<connected, socket, todo, handing>>
    BY DEF Sender, receiver
  <1>2. leftover \in Nat BY DEF TypeOK
  <1>3. /\ Len(sendQ) \in Nat /\ Len(sendQ) >= 1 /\ Len(sendQ') = Len(sendQ) - 1
        /\ Head(sendQ) = sendQ[1]
        /\ \A i \in 1..Len(sendQ') : sendQ'[i] = sendQ[i + 1]
    <2>1. sendQ \in Seq(RilRequests) BY DEF TypeOK
    <2> QED BY <1>1, <2>1, HeadTailProperties
  <1>4. ASSUME NEW i \in 1..Len(sendQ'), sendQ'[i].request = "SET_GPRS_CONNECT_TYPE",
               i > leftover'
        PROVE  connected /\ Paired(i)
    <2>1. i + 1 \in 1..Len(sendQ) /\ i + 1 > leftover BY <1>1, <1>2, <1>3, <1>4
    <2>2. sendQ[i + 1].request = "SET_GPRS_CONNECT_TYPE" BY <1>3, <1>4
    <2>3. connected /\ Paired((i + 1) - 1) BY <2>1, <2>2 DEF GprsInv
    <2>4. (i + 1) - 1 = i BY <1>3
    <2> QED BY <2>3, <2>4
  <1>5. CASE ~connected
    <2>1. UNCHANGED <<modem, gprs>> BY <1>5 DEF Sender
    <2>2. todo # <<"SET_GPRS_CONNECT_TYPE">> BY <1>5 DEF GprsInv
    <2> QED BY <1>1, <1>4, <1>5, <2>1, <2>2 DEF GprsInv
  <1>6. CASE connected
    <2>1. ModemReceives(sendQ[1]) BY <1>3, <1>6 DEF Sender
    <2>2. ASSUME NEW n \in Nat, n >= 1, n <= Len(sendQ), Paired(n) PROVE Paired(n - 1)'
      <3>1. \A i \in 1..(n - 1) : sendQ'[i] = sendQ[i + 1] BY <1>3, <2>2
      <3> QED BY <2>1, <2>2, <3>1, PairedSent
    <2>3. gprs' # "misordered"
      <3>1. CASE sendQ[1].request = "SET_GPRS_CONNECT_TYPE" /\ leftover = 0
        <4>1. 1 \in 1..Len(sendQ) /\ 1 > leftover BY <1>3, <3>1
        <4>2. Paired(1 - 1) BY <3>1, <4>1 DEF GprsInv
        <4>3. gprs = "transfer" BY <4>2 DEF Paired
        <4> QED BY <2>1, <3>1, <4>3 DEF ModemReceives
      <3>2. CASE ~(sendQ[1].request = "SET_GPRS_CONNECT_TYPE" /\ leftover = 0)
        BY <2>1, <3>2 DEF ModemReceives, GprsInv
      <3> QED BY <3>1, <3>2
    <2>4. ASSUME NEW i \in 1..Len(sendQ'), sendQ'[i].request = "SET_GPRS_CONNECT_TYPE",
                 i > leftover'
          PROVE  connected' /\ Paired(i - 1)'
      <3>1. i \in Nat /\ i >= 1 /\ i <= Len(sendQ) BY <1>3
      <3> QED BY <1>1, <1>4, <1>6, <2>2, <2>4, <3>1
    <2>5. ASSUME todo' = <<"SET_GPRS_CONNECT_TYPE">> PROVE Paired(Len(sendQ))'
      <3>1. ASSUME NEW n \in Nat, n = Len(sendQ) PROVE Paired(n - 1)'
        <4>1. Paired(n) BY <1>1, <2>5, <3>1 DEF GprsInv
        <4> QED BY <1>3, <2>2, <3>1, <4>1
      <3> QED BY <1>3, <3>1
    <2>6. connected' BY <1>1, <1>6
    <2> QED BY <1>1, <2>3, <2>4, <2>5, <2>6 DEF GprsInv
  <1> QED BY <1>5, <1>6

(* Every step keeps the order of the two requests. *)
LEMMA GprsStep == TypeOK /\ GprsInv /\ [Next]_vars => GprsInv'
  <1> SUFFICES ASSUME TypeOK, GprsInv, [Next]_vars PROVE GprsInv'
    OBVIOUS
  <1>1. CASE Framework
    <2>1. ASSUME NEW c \in Calls, NEW request, Issue(c, request), request \notin GprsRequests
          PROVE  GprsInv'
      BY <2>1, GprsIssue
    <2>2. CASE UNCHANGED <<sendQ, receiver, link, world>>
      BY <2>2 DEF GprsInv, Paired, receiver, link, world
    <2>3. \/ \E c \in Calls : \E request : Issue(c, request) /\ request \notin GprsRequests
          \/ UNCHANGED <<sendQ, receiver, link, world>>
      BY <1>1 DEF Framework, setRadioPower, setupDataCall, OtherRequest, setUiccSubscription,
                  setSubscriptionPreference, GprsRequests, GET_MODEM_VERSION
    <2> QED BY <2>1, <2>2, <2>3
  <1>2. CASE processSolicited
    <2>1. /\ socket # <<>>
          /\ UNCHANGED <<sendQ, connected, leftover, modem, todo, handing, gprs>>
      BY <1>2 DEF processSolicited, receiver, world
    <2> QED BY <2>1 DEF GprsInv, Paired
  <1>3. CASE LoseSocket
    <2>1. /\ connected' = FALSE /\ leftover' = Len(sendQ) /\ modem' = {} /\ socket' = <<>>
          /\ todo' = <<>> /\ gprs' = "unset" /\ sendQ' = sendQ
      BY <1>3 DEF LoseSocket
    <2>2. Len(sendQ) \in Nat BY RequestTypes
    <2>3. todo' \in OwnShapes /\ todo' # <<"SET_GPRS_CONNECT_TYPE">> BY <2>1 DEF OwnShapes
    <2> QED BY <2>1, <2>2, <2>3 DEF GprsInv
  <1>4. CASE processUnsolicited
    BY <1>4, GprsUnsolicited
  <1>5. CASE SendOwn
    BY <1>5, GprsOwn
  <1>6. CASE Sender
    BY <1>6, GprsSender
  <1>7. CASE ModemAnswers \/ ModemRepeats \/ ModemIndicates
    <2>1. /\ connected
          /\ UNCHANGED <<sendQ, connected, leftover, todo, handing, gprs>>
      BY <1>7 DEF ModemAnswers, ModemRepeats, ModemIndicates, receiver, world, GprsInv
    <2> QED BY <2>1 DEF GprsInv, Paired
  <1>8. CASE SuperProcessUnsolicited
    <2>1. /\ todo = <<>>
          /\ UNCHANGED <<sendQ, connected, leftover, modem, socket, todo, gprs>>
      BY <1>8 DEF SuperProcessUnsolicited, link, world
    <2> QED BY <2>1 DEF GprsInv, Paired
  <1>9. CASE Reconnect
    <2>1. /\ ~connected /\ connected'
          /\ UNCHANGED <<sendQ, leftover, modem, socket, todo, handing, gprs>>
      BY <1>9 DEF Reconnect, receiver, world
    <2> QED BY <2>1 DEF GprsInv
  <1>10. CASE UNCHANGED vars
    BY <1>10 DEF vars, receiver, link, world, GprsInv, Paired
  <1> QED BY <1>1, <1>2, <1>3, <1>4, <1>5, <1>6, <1>7, <1>8, <1>9, <1>10
          DEF Next, Receiver, UnsolicitedFails, SocketLost

(* The two send() calls of setRadioStateFromRILInt are not atomic, the     *)
(* sender queue outlives the socket, and still SET_GPRS_CONNECT_TYPE of a  *)
(* connection never reaches the modem before its SET_GPRS_TRANSFER_TYPE:   *)
(* for any number of calls, messages and losses.                           *)
THEOREM GprsOrder == Spec => []GprsInOrder
  <1>1. Init => CallInv /\ GprsInv BY CallInit, GprsInit
  <1>2. CallInv /\ GprsInv /\ [Next]_vars => (CallInv /\ GprsInv)'
    BY CallStep, GprsStep DEF CallInv
  <1>3. GprsInv => GprsInOrder BY DEF GprsInv, GprsInOrder
  <1> QED BY <1>1, <1>2, <1>3, PTL DEF Spec
=============================================================================
