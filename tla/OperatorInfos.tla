--------------------------- MODULE OperatorInfos ---------------------------
(***************************************************************************)
(* The operator lists and names of MediaTekRIL.java: responseOperatorInfos *)
(* decodes the answer to a network scan operator by operator on the        *)
(* receiver thread, between system properties that the modem's daemon and  *)
(* the framework change at any time; responseOperator decodes the answer   *)
(* to "which operator am I on".  What processSolicited does with a result  *)
(* or an exception is modelled in MediaTekRIL.                             *)
(*                                                                         *)
(* A Java string is a sequence of UTF-16 code units, because properties    *)
(* are about the conversion of names.  The five strings of one operator    *)
(* are one record.  The daemon gives names that are not Latin as "uCs2"    *)
(* followed by the code units in hexadecimal.                              *)
(***************************************************************************)
EXTENDS Integers, Sequences, FiniteSets, SequencesExt

CONSTANTS
    Scans,         \* answers to a scan: the operators, and stray strings after them
    Answers,       \* answers to the operator request, as string arrays
    Texts,         \* the operator names there are
    Table,         \* the names that class Operators knows, by numeric code
    LacLengths,    \* lengths of the area code string the daemon may leave
    Capabilities,  \* values of this SIM's gsm.baseband.capability
    MaxLacs        \* BOUND: area code strings the daemon leaves

LastUnit == 65535
CodeUnits == 0..LastUnit
null == <<-1>>        \* the Java null, no string
thrown == <<-2>>      \* an exception in place of a string
Strings == Seq(CodeUnits) \cup {null}

(* What the daemon sends for an operator; the code and the technology are  *)
(* always there.                                                           *)
OperatorStrings == [long : Strings, short : Strings, numeric : Seq(CodeUnits),
                    state : STRING, rat : Seq(CodeUnits)]

uCs2 == <<117, 67, 115, 50>>
ByteOrderMarks == {65279, 65534}

(* Names are texts: none begins with a byte-order mark, or looks encoded.  *)
ASSUME TextsAssumption ==
    \A text \in Texts : /\ text \in Seq(CodeUnits) /\ ~IsPrefix(uCs2, text)
                        /\ text # <<>> => text[1] \notin ByteOrderMarks
ASSUME TableAssumption ==
    DOMAIN Table \subseteq Texts /\ \A numeric \in DOMAIN Table : Table[numeric] \in Seq(CodeUnits)
ASSUME LacAssumption == LacLengths \subseteq Nat /\ MaxLacs \in Nat
ASSUME CapabilityAssumption == Capabilities \subseteq Nat
ASSUME ScansAssumption == Scans \subseteq [ops : Seq(OperatorStrings), stray : Nat]
ASSUME AnswersAssumption == Answers \subseteq Seq(Strings)

-----------------------------------------------------------------------------
(* hexCharToInt and hexStringToBytes: a character that is no digit, or a   *)
(* last digit without its second, is an exception.                         *)
IsHexChar(c) == c \in 48..57 \cup 65..70 \cup 97..102

hexCharToInt(c) ==
    CASE c \in 48..57 -> c - 48 [] c \in 65..70 -> c - 55 [] OTHER -> c - 87

(* Mutant: whatever is no digit is taken for a small letter. *)
HexThrows_OddOnly(s) == Len(s) % 2 = 1

HexThrows(s) == Len(s) % 2 = 1 \/ \E k \in 1..Len(s) : ~IsHexChar(s[k])

hexStringToBytes(s) ==
    [k \in 1..(Len(s) \div 2) |-> 16 * hexCharToInt(s[2 * k - 1]) + hexCharToInt(s[2 * k])]

(* new String(bytes, "UTF-16"): a byte-order mark is taken off, big-endian *)
(* is the default, an odd byte at the end is one replacement character.    *)
Utf16(bytes) ==
    LET mark == IF Len(bytes) > 1 THEN SubSeq(bytes, 1, 2) ELSE <<>>
        body == IF mark \in {<<254, 255>>, <<255, 254>>} THEN SubSeq(bytes, 3, Len(bytes)) ELSE bytes
        high == IF mark = <<255, 254>> THEN 0 ELSE 1
    IN [k \in 1..(Len(body) \div 2) |-> 256 * body[2 * k - high] + body[2 * k - 1 + high]]
       \o (IF Len(body) % 2 = 1 THEN <<65533>> ELSE <<>>)

(* The first name of an operator, decoded if it is marked as encoded. *)
Decoded(name) ==
    IF ~IsPrefix(uCs2, name) THEN name
    ELSE LET hex == SubSeq(name, 5, Len(name))
         IN IF HexThrows(hex) THEN thrown ELSE Utf16(hexStringToBytes(hex))

(* class Operators: the name of a numeric code, or the code itself. *)
unOptimizedOperatorReplace(numeric) ==
    IF numeric \in DOMAIN Table THEN Table[numeric] ELSE numeric

(* The long and the short name: an empty name, and one that only repeats   *)
(* the numeric code, give way to the table's; null stays null.             *)
Names(name, short, numeric) ==
    LET long == Decoded(name)
    IN IF long # null /\ long \in {<<>>, numeric}
         THEN <<unOptimizedOperatorReplace(numeric), unOptimizedOperatorReplace(numeric)>>
         ELSE <<long, short>>

(* Mutant: appended with +, which makes "null" of null. *)
WithRat_Plus(name, rat, cap) ==
    IF cap <= 3 THEN name
    ELSE (IF name = null THEN <<110, 117, 108, 108>> ELSE name) \o <<32>> \o rat

(* The radio technology is appended for a 3G-capable baseband; null has no *)
(* concat.                                                                 *)
WithRat(name, rat, cap) ==
    IF cap <= 3 THEN name ELSE IF name = null THEN thrown ELSE name \o <<32>> \o rat

-----------------------------------------------------------------------------
VARIABLES
    lac,         \* gsm.cops.lac: its length, whether it is hexadecimal, and which one
    capability,  \* this SIM's gsm.baseband.capability
    lacs,        \* area code strings left so far
    pc,          \* where the receiver thread is
    sent,        \* the answer being decoded
    lacStr,      \* the area codes read for this scan
    lacIndex,    \* where the next area code starts
    ret,         \* the operators converted so far, or the result
    applied      \* the area code strings that scans found valid, in order

props == <<lac, capability, lacs>>
vars == <<props, pc, sent, lacStr, lacIndex, ret, applied>>

NoLac == [len |-> 0, hex |-> TRUE, id |-> 0]
NoAnswer == [ops |-> <<>>, stray |-> 0]

Init ==
    /\ lac = NoLac /\ lacs = 0
    /\ capability \in Capabilities
    /\ pc = "idle"
    /\ sent = NoAnswer
    /\ lacStr = NoLac /\ lacIndex = 0
    /\ ret = <<>>
    /\ applied = <<>>

(* A scan answer arrives: strings.length is checked before anything is     *)
(* touched, then the area codes are read.                                  *)
responseOperatorInfos(scan) ==
    /\ pc = "idle"
    /\ sent' = scan
    /\ IF (5 * Len(scan.ops) + scan.stray) % 5 # 0
         THEN pc' = "threw" /\ UNCHANGED lacStr
         ELSE pc' = "clear" /\ lacStr' = lac
    /\ UNCHANGED <<props, lacIndex, ret, applied>>

(* Mutant: the number of area codes is not compared with the operators. *)
lacValid_AnyCount == lacStr.len > 0 /\ lacStr.len % 4 = 0

lacValid ==
    lacStr.len > 0 /\ lacStr.len % 4 = 0 /\ lacStr.len \div 4 = Len(sent.ops)

(* Mutant: the area codes are not cleared. *)
ClearLac_Not ==
    /\ pc = "clear"
    /\ pc' = "operators"
    /\ applied' = IF lacValid THEN Append(applied, lacStr.id) ELSE applied
    /\ UNCHANGED <<props, sent, lacStr, lacIndex, ret>>

(* The property is cleared in a step of its own after it was read. *)
ClearLac ==
    /\ pc = "clear"
    /\ lac' = NoLac
    /\ pc' = "operators"
    /\ applied' = IF lacValid THEN Append(applied, lacStr.id) ELSE applied
    /\ UNCHANGED <<capability, lacs, sent, lacStr, lacIndex, ret>>

(* lacStr.substring(lacIndex, lacIndex + 4), then Integer.parseInt; what   *)
(* it gives is not used further.                                           *)
LacThrows == lacIndex + 4 > lacStr.len \/ ~lacStr.hex

(* One iteration of the loop; the capability is read anew in each.         *)
Operator ==
    LET op == sent.ops[Len(ret) + 1]
        names == Names(op.long, op.short, op.numeric)
        shown == [n \in 1..2 |-> WithRat(names[n], op.rat, capability)]
        readsLac == lacValid /\ op.long # null
        throws == thrown \in {names[1], shown[1], shown[2]} \/ (readsLac /\ LacThrows)
    IN
    /\ pc = "operators" /\ Len(ret) < Len(sent.ops)
    /\ \/ /\ throws
          /\ pc' = "threw"
          /\ UNCHANGED <<ret, lacIndex>>
       \/ /\ ~throws
          /\ ret' = Append(ret, [long |-> shown[1], short |-> shown[2],
                                 numeric |-> op.numeric, state |-> op.state])
          /\ lacIndex' = IF readsLac THEN lacIndex + 4 ELSE lacIndex
          /\ UNCHANGED pc
    /\ UNCHANGED <<props, sent, lacStr, applied>>

(* The loop has reached the last operator. *)
Return ==
    /\ pc = "operators" /\ Len(ret) = Len(sent.ops)
    /\ pc' = "answer"
    /\ UNCHANGED <<props, sent, lacStr, lacIndex, ret, applied>>

(* Mutant: an encoded name is not decoded. *)
Response_Encoded(r) ==
    IF r[1] # null /\ (r[1] = <<>> \/ r[1] = r[3])
      THEN <<unOptimizedOperatorReplace(r[3]), unOptimizedOperatorReplace(r[3])>> \o SubSeq(r, 3, Len(r))
      ELSE r

(* responseOperator works in the array it was given: none without a name   *)
(* is looked at further, and one that is too short is an exception.        *)
Response(r) ==
    IF r[1] = null THEN r ELSE Names(r[1], r[2], r[3]) \o SubSeq(r, 3, Len(r))

ResponseThrows(r) ==
    IF r = <<>> THEN TRUE
    ELSE r[1] # null /\ (Decoded(r[1]) = thrown \/ Len(r) < 3)

responseOperator(r) ==
    /\ pc = "idle"
    /\ sent' = [response |-> r]
    /\ IF ResponseThrows(r) THEN pc' = "threw" /\ UNCHANGED ret
                            ELSE pc' = "answer" /\ ret' = Response(r)
    /\ UNCHANGED <<props, lacStr, lacIndex, applied>>

(* processSolicited hands the result or the exception on. *)
Answered ==
    /\ pc \in {"answer", "threw"}
    /\ pc' = "idle"
    /\ sent' = NoAnswer /\ ret' = <<>>
    /\ lacStr' = NoLac /\ lacIndex' = 0
    /\ UNCHANGED <<props, applied>>

-----------------------------------------------------------------------------
(* The daemon leaves the area codes of the scan it is about to answer. *)
LacLeft(len, hex) ==
    /\ lacs < MaxLacs
    /\ lacs' = lacs + 1
    /\ lac' = [len |-> len, hex |-> hex, id |-> lacs + 1]
    /\ UNCHANGED <<capability, pc, sent, lacStr, lacIndex, ret, applied>>

(* The framework changes the radio technology this SIM may use. *)
CapabilityChanges(c) ==
    /\ capability' = c
    /\ UNCHANGED <<lac, lacs, pc, sent, lacStr, lacIndex, ret, applied>>

Next ==
    \/ \E scan \in Scans : responseOperatorInfos(scan)
    \/ \E r \in Answers : responseOperator(r)
    \/ ClearLac \/ Operator \/ Return \/ Answered
    \/ \E len \in LacLengths, hex \in BOOLEAN : LacLeft(len, hex)
    \/ \E c \in Capabilities : CapabilityChanges(c)

Spec == Init /\ [][Next]_vars

-----------------------------------------------------------------------------
(* Properties *)

(* What a daemon means by a name: the reference that decoding is checked   *)
(* against.  A text may be sent as it is or in hexadecimal of either case, *)
(* with or without a byte-order mark.                                      *)
HexDigit(d, letter) == IF d < 10 THEN 48 + d ELSE letter + d - 10
Nibble(unit, k) == (unit \div (<<4096, 256, 16, 1>>[1 + ((k - 1) % 4)])) % 16
Digits(text, letter) ==
    [k \in 1..(4 * Len(text)) |-> HexDigit(Nibble(text[(k + 3) \div 4], k), letter)]
Encode(text, letter) == uCs2 \o Digits(text, letter)
Encodings(text) ==
    {text} \cup {Encode(mark \o text, letter) : mark \in {<<>>, <<65279>>}, letter \in {65, 97}}

(* Marked as encoded, but not in pairs of hexadecimal digits. *)
Garbled(name) ==
    IsPrefix(uCs2, name) /\ (Len(name) % 2 = 1 \/ \E k \in 5..Len(name) : ~IsHexChar(name[k]))

(* A first name is none, a text in one of its encodings, or garbled. *)
Meant(name) == name = null \/ Garbled(name) \/ \E text \in Texts : name \in Encodings(text)
ASSUME NamesAssumption ==
    /\ \A scan \in Scans : \A k \in 1..Len(scan.ops) : Meant(scan.ops[k].long)
    /\ \A r \in Answers : r # <<>> => Meant(r[1])

Malformed(name) == name # null /\ \A text \in Texts : name \notin Encodings(text)
Scanning == "ops" \in DOMAIN sent

(* The names an operator is shown under are right, up to `rat' after each: *)
(* null is kept, a text is decoded, and the empty text and the bare code   *)
(* become what the table has for the code.                                 *)
Named(name, short, numeric, rat, shown) ==
    \/ name = null /\ rat = <<>> /\ shown = <<null, short>>
    \/ \E text \in Texts :
          /\ name \in Encodings(text)
          /\ LET found == unOptimizedOperatorReplace(numeric)
                 bare == text \in {<<>>, numeric}
             IN shown = <<(IF bare THEN found ELSE text) \o rat,
                          (IF bare THEN found ELSE short) \o rat>>

(* Type invariant: the operators that leave the decoder are made of Java   *)
(* strings, and the area codes are read four characters at a time.         *)
TypeOK ==
    /\ pc \in {"idle", "clear", "operators", "answer", "threw"}
    /\ lac \in [len : LacLengths \cup {0}, hex : BOOLEAN, id : 0..MaxLacs]
    /\ lacStr \in [len : LacLengths \cup {0}, hex : BOOLEAN, id : 0..MaxLacs]
    /\ capability \in Capabilities /\ lacs \in 0..MaxLacs
    /\ lacIndex % 4 = 0 /\ lacIndex <= lacStr.len
    /\ applied \in Seq(1..MaxLacs)
    /\ \A k \in 1..Len(ret) :
         IF Scanning THEN {ret[k].long, ret[k].short, ret[k].numeric} \subseteq Strings
         ELSE ret[k] \in Strings

(* A scan that is answered has every operator the modem found, in order,   *)
(* under its own code and state and under readable names, both followed by *)
(* the radio technology or neither (responseOperatorInfos, 253-315).       *)
ScanFaithful ==
    Scanning /\ pc = "answer" =>
        /\ Len(ret) = Len(sent.ops)
        /\ \A k \in 1..Len(ret) :
             LET op == sent.ops[k] IN
             /\ ret[k].numeric = op.numeric /\ ret[k].state = op.state
             /\ \E rat \in {<<>>, <<32>> \o op.rat} :
                  Named(op.long, op.short, op.numeric, rat, <<ret[k].long, ret[k].short>>)

(* An operator costs the scan if its name cannot be decoded, or if there   *)
(* is no long or short name where the technology must follow one.          *)
Nameless(op) ==
    \/ op.long = null
    \/ op.short = null /\ \E text \in Texts \ {<<>>, op.numeric} : op.long \in Encodings(text)
Unreadable(op, cap) == Malformed(op.long) \/ (cap > 3 /\ Nameless(op))

(* A scan is lost to an exception only for what is wrong with the scan:    *)
(* strings left over, or the operator the loop has come to.  The area      *)
(* codes of gsm.cops.lac, whichever scan they belong to, whenever they are *)
(* left, and however operators with and without a name alternate, cost no  *)
(* operator as long as they are hexadecimal (239-285).                     *)
LacHarmless ==
    [][pc # "threw" /\ pc' = "threw" /\ Scanning' /\ lacStr'.hex =>
         \/ sent'.stray % 5 # 0
         \/ pc = "operators" /\ Unreadable(sent.ops[Len(ret) + 1], capability)]_vars

(* No area codes are taken for valid by two scans: they are cleared before *)
(* the next scan can read them (239-249).                                  *)
LacUsedOnce == IsInjective(applied)

(* The current operator is named by the same rules as a scanned one, and   *)
(* whatever else came in the array is passed on (responseOperator).        *)
OperatorNamed ==
    ~Scanning /\ pc = "answer" =>
        LET r == sent.response IN
        \/ r[1] = null /\ ret = r
        \/ /\ Len(ret) = Len(r) /\ SubSeq(ret, 3, Len(r)) = SubSeq(r, 3, Len(r))
           /\ Named(r[1], r[2], r[3], <<>>, SubSeq(ret, 1, 2))
=============================================================================
