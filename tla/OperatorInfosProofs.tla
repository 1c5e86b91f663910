------------------------- MODULE OperatorInfosProofs -------------------------
(***************************************************************************)
(* Proofs about the operator lists and names of MediaTekRIL.java, for any  *)
(* scans, texts, operator table, area codes and capabilities.              *)
(***************************************************************************)
EXTENDS OperatorInfos, SequenceTheorems, TLAPS

-----------------------------------------------------------------------------
(* The area codes *)

(* Area codes are numbered in the order they are left, and those that are  *)
(* in the property or just read from it have not been applied.             *)
LacInv ==
    /\ lacs \in 0..MaxLacs
    /\ lac.id \in 0..lacs /\ (lac.len > 0 => lac.id > 0)
    /\ lacStr.id \in 0..lacs /\ (lacStr.len > 0 => lacStr.id > 0)
    /\ applied \in Seq(1..MaxLacs)
    /\ \A k \in 1..Len(applied) : applied[k] <= lacs /\ applied[k] # lac.id
    /\ pc = "clear" => \A k \in 1..Len(applied) : applied[k] # lacStr.id
    /\ IsInjective(applied)

(* No area codes are there at the start. *)
LEMMA LacInit == Init => LacInv
BY LacAssumption DEF Init, LacInv, NoLac, IsInjective

(* Every step keeps the numbering: leaving codes takes a new number, *)
(* clearing the property ends the old one.                           *)
LEMMA LacNext == LacInv /\ [Next]_vars => LacInv'
  <1> SUFFICES ASSUME LacInv, [Next]_vars PROVE LacInv'
    OBVIOUS
  <1>1. /\ lacs \in Nat /\ Len(applied) \in Nat /\ applied \in Seq(1..MaxLacs)
        /\ DOMAIN applied = 1..Len(applied) /\ MaxLacs \in Nat
    BY LacAssumption, LenProperties DEF LacInv
  <1>2. ASSUME UNCHANGED <<lac, lacs, lacStr, applied>>, pc' = "clear" => pc = "clear"
        PROVE  LacInv'
    BY <1>2 DEF LacInv, IsInjective
  <1>3. ASSUME NEW scan \in Scans, responseOperatorInfos(scan) PROVE LacInv'
    <2>1. /\ UNCHANGED <<lac, lacs, applied>>
          /\ lacStr' = lac \/ (pc' # "clear" /\ lacStr' = lacStr)
      BY <1>3 DEF responseOperatorInfos, props
    <2> QED BY <2>1 DEF LacInv, IsInjective
  <1>4. ASSUME NEW r \in Answers, responseOperator(r) PROVE LacInv'
    <2>1. UNCHANGED <<lac, lacs, lacStr, applied>> /\ pc' # "clear"
      BY <1>4 DEF responseOperator, props
    <2> QED BY <1>2, <2>1
  <1>5. CASE ClearLac
    <2>1. /\ pc = "clear" /\ pc' = "operators" /\ lac' = NoLac /\ UNCHANGED <<lacs, lacStr>>
          /\ applied' = IF lacValid THEN Append(applied, lacStr.id) ELSE applied
      BY <1>5 DEF ClearLac
    <2>2. lac'.id = 0 /\ lac'.len = 0
      BY <2>1 DEF NoLac
    <2>3. CASE ~lacValid
      <3>1. applied' = applied
        BY <2>1, <2>3
      <3>2. \A k \in 1..Len(applied) : applied[k] # 0
        BY <1>1, ElementOfSeq
      <3>3. IsInjective(applied')
        BY <3>1 DEF LacInv
      <3>4. /\ lacs' \in 0..MaxLacs /\ 0 \in 0..lacs' /\ applied' \in Seq(1..MaxLacs)
            /\ lacStr'.id \in 0..lacs' /\ (lacStr'.len > 0 => lacStr'.id > 0)
        <4>1. lacs' = lacs /\ lacStr' = lacStr
          BY <2>1
        <4> QED BY <1>1, <3>1, <4>1 DEF LacInv
      <3>5. \A k \in 1..Len(applied') : applied'[k] <= lacs' /\ applied'[k] # lac'.id
        BY <2>1, <2>2, <3>1, <3>2 DEF LacInv
      <3>6. pc' # "clear" /\ ~(lac'.len > 0) /\ lac'.id \in 0..lacs'
        BY <2>1, <2>2, <3>4
      <3> QED BY <3>3, <3>4, <3>5, <3>6 DEF LacInv
    <2>4. CASE lacValid
      <3> DEFINE n == Len(applied)
      <3>1. lacStr.id \in 1..MaxLacs /\ lacStr.id <= lacs
        BY <1>1, <2>4 DEF LacInv, lacValid
      <3>2. /\ applied' \in Seq(1..MaxLacs) /\ Len(applied') = n + 1 /\ DOMAIN applied' = 1..(n + 1)
            /\ applied'[n + 1] = lacStr.id
            /\ \A k \in 1..n : applied'[k] = applied[k]
        BY <1>1, <2>1, <2>4, <3>1, AppendProperties, LenProperties
      <3>3. n \in Nat /\ \A k \in 1..(n + 1) : k \in 1..n \/ k = n + 1
        BY <1>1
      <3>4. \A k \in 1..n : applied[k] \in 1..MaxLacs /\ applied[k] <= lacs /\ applied[k] # lacStr.id
        BY <1>1, <2>1, ElementOfSeq DEF LacInv
      <3> HIDE DEF n
      <3>5. \A k \in 1..(n + 1) : applied'[k] <= lacs /\ applied'[k] # 0
        BY <3>1, <3>2, <3>3, <3>4
      <3>6. IsInjective(applied')
        <4> SUFFICES ASSUME NEW a \in 1..(n + 1), NEW b \in 1..(n + 1), applied'[a] = applied'[b]
                     PROVE  a = b
          BY <3>2 DEF IsInjective
        <4>1. a \in 1..n /\ b \in 1..n => a = b
          BY <1>1, <3>2 DEF LacInv, IsInjective, n
        <4>2. a \in 1..n <=> b \in 1..n
          BY <3>2, <3>3, <3>4
        <4> QED BY <3>3, <4>1, <4>2
      <3> QED BY <2>1, <2>2, <3>2, <3>5, <3>6 DEF LacInv
    <2> QED BY <2>3, <2>4
  <1>6. CASE Operator
    <2>1. UNCHANGED <<lac, lacs, lacStr, applied>> /\ pc' # "clear"
      BY <1>6 DEF Operator, props
    <2> QED BY <1>2, <2>1
  <1>7. CASE Return
    <2>1. UNCHANGED <<lac, lacs, lacStr, applied>> /\ pc' # "clear"
      BY <1>7 DEF Return, props
    <2> QED BY <1>2, <2>1
  <1>8. CASE Answered
    <2>1. UNCHANGED <<lac, lacs, applied>> /\ lacStr' = NoLac /\ pc' = "idle"
      BY <1>8 DEF Answered, props
    <2> QED BY <1>1, <2>1 DEF LacInv, NoLac, IsInjective
  <1>9. ASSUME NEW len \in LacLengths, NEW hex \in BOOLEAN, LacLeft(len, hex) PROVE LacInv'
    <2>1. /\ lacs < MaxLacs /\ lacs' = lacs + 1 /\ lac' = [len |-> len, hex |-> hex, id |-> lacs + 1]
          /\ UNCHANGED <<pc, lacStr, applied>>
      BY <1>9 DEF LacLeft
    <2>2. \A k \in 1..Len(applied) : applied[k] \in Nat /\ applied[k] <= lacs
      BY <1>1, ElementOfSeq DEF LacInv
    <2>3. \A k \in 1..Len(applied) : applied[k] <= lacs + 1 /\ applied[k] # lacs + 1
      BY <1>1, <2>2
    <2>4. lacs' \in 0..MaxLacs /\ lac'.id = lacs + 1 /\ lac'.id \in 0..lacs' /\ lac'.id > 0
      BY <1>1, <2>1 DEF LacInv
    <2>5. lacStr'.id \in 0..lacs' /\ (lacStr'.len > 0 => lacStr'.id > 0)
      BY <1>1, <2>1 DEF LacInv
    <2> QED BY <1>1, <2>1, <2>3, <2>4, <2>5 DEF LacInv
  <1>10. ASSUME NEW c \in Capabilities, CapabilityChanges(c) PROVE LacInv'
    <2>1. UNCHANGED <<lac, lacs, lacStr, applied, pc>>
      BY <1>10 DEF CapabilityChanges
    <2> QED BY <1>2, <2>1
  <1>11. CASE UNCHANGED vars
    <2>1. UNCHANGED <<lac, lacs, lacStr, applied, pc>>
      BY <1>11 DEF vars, props
    <2> QED BY <1>2, <2>1
  <1> QED BY <1>3, <1>4, <1>5, <1>6, <1>7, <1>8, <1>9, <1>10, <1>11 DEF Next

(* LacInv is an invariant of the receiver and the daemon. *)
LEMMA LacInvariance == Spec => []LacInv
BY LacInit, LacNext, PTL DEF Spec

(* No area codes are taken for valid by two scans, however many are left   *)
(* and whenever the daemon leaves them.                                    *)
THEOREM AreaCodesOnce == Spec => []LacUsedOnce
BY LacInvariance, PTL DEF LacInv, LacUsedOnce

-----------------------------------------------------------------------------
(* Names: decoding undoes every encoding *)

LEMMA UnitRange == \A n : n \in CodeUnits <=> n \in Int /\ 0 <= n /\ n < 65536
  <1>1. LastUnit \in Int /\ \A n \in Int : n <= LastUnit <=> n < 65536
    BY DEF LastUnit
  <1>2. \A n : n \in CodeUnits <=> n \in Int /\ 0 <= n /\ n <= LastUnit
    BY <1>1 DEF CodeUnits
  <1> QED BY <1>1, <1>2

(* hexCharToInt gives back the digit that was written, in either case. *)
LEMMA DigitDecodes ==
    ASSUME NEW d \in 0..15, NEW letter \in {65, 97}
    PROVE  IsHexChar(HexDigit(d, letter)) /\ hexCharToInt(HexDigit(d, letter)) = d
  <1> DEFINE c == HexDigit(d, letter)
  <1>1. CASE d < 10
    <2>1. c = 48 + d /\ c \in 48..57 /\ c - 48 = d
      BY <1>1 DEF HexDigit
    <2> HIDE DEF c
    <2> QED BY <2>1 DEF IsHexChar, hexCharToInt, c
  <1>2. CASE d >= 10 /\ letter = 65
    <2>1. c \in 65..70 /\ c \notin 48..57 /\ c - 55 = d
      BY <1>2 DEF HexDigit
    <2> HIDE DEF c
    <2>2. hexCharToInt(c) = c - 55
      BY <2>1 DEF hexCharToInt
    <2> QED BY <2>1, <2>2 DEF IsHexChar, c
  <1>3. CASE d >= 10 /\ letter = 97
    <2>1. c \in 97..102 /\ c \notin 48..57 /\ c \notin 65..70 /\ c - 87 = d
      BY <1>3 DEF HexDigit
    <2> HIDE DEF c
    <2>2. hexCharToInt(c) = c - 87
      BY <2>1 DEF hexCharToInt
    <2> QED BY <2>1, <2>2 DEF IsHexChar, c
  <1> QED BY <1>1, <1>2, <1>3

(* The hexadecimal digits of a code unit. *)
Quarter(u, i) == CASE i = 0 -> (u \div 4096) % 16 [] i = 1 -> (u \div 256) % 16
                   [] i = 2 -> (u \div 16) % 16 [] i = 3 -> u % 16

(* The k-th digit of a text is one of the four of its code unit, chosen by *)
(* k modulo 4.                                                             *)
LEMMA Nibbles ==
    ASSUME NEW u \in CodeUnits, NEW k \in Nat, NEW i \in {0, 1, 2, 3}, (k - 1) % 4 = i
    PROVE  Nibble(u, k) = Quarter(u, i)
  <1>1. u \in Int /\ u \div 1 = u
    BY UnitRange
  <1>2. Nibble(u, k) = (u \div (<<4096, 256, 16, 1>>[1 + i])) % 16
    BY DEF Nibble
  <1>3. CASE i = 0
    BY <1>2, <1>3 DEF Quarter
  <1>4. CASE i = 1
    BY <1>2, <1>4 DEF Quarter
  <1>5. CASE i = 2
    BY <1>2, <1>5 DEF Quarter
  <1>6. CASE i = 3
    BY <1>1, <1>2, <1>6 DEF Quarter
  <1> QED BY <1>3, <1>4, <1>5, <1>6

(* Each of the four is a hexadecimal digit. *)
LEMMA QuarterRange ==
    ASSUME NEW u \in CodeUnits, NEW i \in {0, 1, 2, 3}
    PROVE  Quarter(u, i) \in 0..15
  <1>1. u \in Int /\ 0 <= u
    BY UnitRange
  <1>2. /\ (u \div 4096) % 16 \in 0..15 /\ (u \div 256) % 16 \in 0..15
        /\ (u \div 16) % 16 \in 0..15 /\ u % 16 \in 0..15
    BY <1>1
  <1>3. Quarter(u, i) \in {(u \div 4096) % 16, (u \div 256) % 16, (u \div 16) % 16, u % 16}
    BY DEF Quarter
  <1> QED BY <1>2, <1>3

(* Two digits make a byte, and the two bytes, high byte first, make the *)
(* code unit again.                                                     *)
LEMMA Quarters ==
    ASSUME NEW u \in CodeUnits
    PROVE  /\ 16 * Quarter(u, 0) + Quarter(u, 1) = u \div 256
           /\ 16 * Quarter(u, 2) + Quarter(u, 3) = u % 256
           /\ (256 * (u \div 256)) + (u % 256) = u
           /\ u \div 256 \in Nat /\ u % 256 \in Nat
  <1>1. u \in Int /\ 0 <= u /\ u < 65536
    BY UnitRange
  <1>2. /\ Quarter(u, 0) = (u \div 4096) % 16 /\ Quarter(u, 1) = (u \div 256) % 16
        /\ Quarter(u, 2) = (u \div 16) % 16 /\ Quarter(u, 3) = u % 16
    BY DEF Quarter
  <1>4. (16 * ((u \div 4096) % 16)) + ((u \div 256) % 16) = u \div 256
    BY <1>1
  <1>5. (16 * ((u \div 16) % 16)) + (u % 16) = u % 256
    BY <1>1
  <1>6. (256 * (u \div 256)) + (u % 256) = u
    BY <1>1
  <1>7. u \div 256 \in Nat /\ u % 256 \in Nat
    BY <1>1
  <1> QED BY <1>2, <1>4, <1>5, <1>6, <1>7

Letters == {65, 97}
Four == {0, 1, 2, 3}

(* The digits of a text: each is one, and two of them are half a unit. *)
LEMMA DigitsRead ==
    ASSUME NEW text \in Seq(CodeUnits), NEW letter \in Letters, NEW hex, hex = Digits(text, letter),
           NEW bytes, bytes = hexStringToBytes(hex)
    PROVE  /\ hex \in Seq(Nat) /\ Len(hex) = 4 * Len(text) /\ ~HexThrows(hex)
           /\ bytes \in Seq(Nat) /\ Len(bytes) = 2 * Len(text)
           /\ \A j \in 1..Len(text) : /\ bytes[2 * j - 1] = text[j] \div 256
                                      /\ bytes[2 * j] = text[j] % 256
  <1> DEFINE n == Len(text)
  <1>1. n \in Nat /\ \A j \in 1..n : text[j] \in CodeUnits
    BY LenProperties, ElementOfSeq
  <1>2. hex = [k \in 1..(4 * n) |-> HexDigit(Nibble(text[(k + 3) \div 4], k), letter)]
    BY DEF Digits
  <1>3. ASSUME NEW j \in 1..n, NEW i \in Four, NEW k, k = 4 * j - 3 + i
         PROVE  IsHexChar(hex[k]) /\ hexCharToInt(hex[k]) = Quarter(text[j], i)
    <2>1. k \in 1..(4 * n) /\ (k + 3) \div 4 = j /\ (k - 1) % 4 = i /\ k \in Nat
      BY <1>1, <1>3 DEF Four
    <2>2. hex[k] = HexDigit(Nibble(text[j], k), letter)
      BY <1>2, <2>1
    <2> DEFINE u == text[j]
               d == Quarter(u, i)
    <2>3. u \in CodeUnits /\ k \in Nat /\ (k - 1) % 4 = i
      BY <1>1, <2>1
    <2> HIDE DEF u
    <2>4. Nibble(u, k) = d
      BY <2>3, Nibbles DEF Four
    <2>5. d \in 0..15
      BY <2>3, QuarterRange DEF Four
    <2>6. hex[k] = HexDigit(d, letter)
      BY <2>2, <2>4 DEF u
    <2> HIDE DEF d
    <2>7. IsHexChar(HexDigit(d, letter)) /\ hexCharToInt(HexDigit(d, letter)) = d
      BY <2>5, DigitDecodes, ZenonT(40) DEF Letters
    <2> QED BY <2>6, <2>7 DEF u, d
  <1>4. ASSUME NEW k \in 1..(4 * n) PROVE IsHexChar(hex[k])
    <2> DEFINE j == (k + 3) \div 4
    <2>1. j \in 1..n /\ k \in {4 * j - 3, 4 * j - 2, 4 * j - 1, 4 * j}
      BY <1>1
    <2> HIDE DEF j
    <2>2. \E i \in Four : k = 4 * j - 3 + i
      BY <1>1, <2>1 DEF Four
    <2>3. PICK i \in Four : k = 4 * j - 3 + i
      BY <2>2
    <2> QED BY <2>1, <2>3, <1>3
  <1>5. \A c : IsHexChar(c) => c \in Nat
    BY DEF IsHexChar
  <1>6. hex \in Seq(Nat) /\ Len(hex) = 4 * n
    BY <1>1, <1>2, <1>4, <1>5
  <1>7. ~HexThrows(hex)
    <2>1. Len(hex) % 2 # 1
      BY <1>1, <1>6
    <2> QED BY <1>4, <1>6, <2>1 DEF HexThrows
  <1>8. Len(hex) \div 2 = 2 * n
    BY <1>1, <1>6
  <1>9. bytes = [k \in 1..(2 * n) |-> 16 * hexCharToInt(hex[2 * k - 1]) + hexCharToInt(hex[2 * k])]
    BY <1>8 DEF hexStringToBytes
  <1>10. ASSUME NEW j \in 1..n, NEW k, k = 2 * j - 1
        PROVE  bytes[k] = text[j] \div 256
    <2> DEFINE a == 2 * k - 1
               b == 2 * k
    <2>1. k \in 1..(2 * n) /\ a = 4 * j - 3 + 0 /\ b = 4 * j - 3 + 1
      BY <1>1, <1>10
    <2>2. bytes[k] = 16 * hexCharToInt(hex[a]) + hexCharToInt(hex[b])
      BY <1>9, <2>1
    <2> HIDE DEF a, b
    <2>3. hexCharToInt(hex[a]) = Quarter(text[j], 0) /\ hexCharToInt(hex[b]) = Quarter(text[j], 1)
      <3>1. 0 \in Four /\ 1 \in Four
        BY DEF Four
      <3>2. hexCharToInt(hex[a]) = Quarter(text[j], 0)
        BY <2>1, <3>1, <1>3, Zenon
      <3>3. hexCharToInt(hex[b]) = Quarter(text[j], 1)
        BY <2>1, <3>1, <1>3, Zenon
      <3> QED BY <3>2, <3>3
    <2> DEFINE u == text[j]
    <2>4. u \in CodeUnits
      BY <1>1
    <2> HIDE DEF u
    <2>5. 16 * Quarter(u, 0) + Quarter(u, 1) = u \div 256
      BY <2>4, Quarters
    <2> QED BY <2>2, <2>3, <2>5 DEF u
  <1>11. ASSUME NEW j \in 1..n, NEW k, k = 2 * j
         PROVE  bytes[k] = text[j] % 256
    <2> DEFINE a == 2 * k - 1
               b == 2 * k
    <2>1. k \in 1..(2 * n) /\ a = 4 * j - 3 + 2 /\ b = 4 * j - 3 + 3
      BY <1>1, <1>11
    <2>2. bytes[k] = 16 * hexCharToInt(hex[a]) + hexCharToInt(hex[b])
      BY <1>9, <2>1
    <2> HIDE DEF a, b
    <2>3. hexCharToInt(hex[a]) = Quarter(text[j], 2) /\ hexCharToInt(hex[b]) = Quarter(text[j], 3)
      <3>1. 2 \in Four /\ 3 \in Four
        BY DEF Four
      <3>2. hexCharToInt(hex[a]) = Quarter(text[j], 2)
        BY <2>1, <3>1, <1>3, Zenon
      <3>3. hexCharToInt(hex[b]) = Quarter(text[j], 3)
        BY <2>1, <3>1, <1>3, Zenon
      <3> QED BY <3>2, <3>3
    <2> DEFINE u == text[j]
    <2>4. u \in CodeUnits
      BY <1>1
    <2> HIDE DEF u
    <2>5. 16 * Quarter(u, 2) + Quarter(u, 3) = u % 256
      BY <2>4, Quarters
    <2> QED BY <2>2, <2>3, <2>5 DEF u
  <1>12. ASSUME NEW k \in 1..(2 * n) PROVE bytes[k] \in Nat
    <2> DEFINE j == (k + 1) \div 2
    <2>1. j \in 1..n /\ (k = 2 * j - 1 \/ k = 2 * j)
      BY <1>1
    <2> HIDE DEF j
    <2>2. text[j] \div 256 \in Nat /\ text[j] % 256 \in Nat
      <3> DEFINE u == text[j]
      <3>1. u \in CodeUnits
        BY <1>1, <2>1
      <3> HIDE DEF u
      <3>2. u \div 256 \in Nat /\ u % 256 \in Nat
        BY <3>1, Quarters
      <3> QED BY <3>2 DEF u
    <2>3. bytes[k] \in {text[j] \div 256, text[j] % 256}
      BY <1>10, <1>11, <2>1
    <2> QED BY <2>2, <2>3
  <1>13. bytes \in Seq(Nat) /\ Len(bytes) = 2 * n
    BY <1>1, <1>9, <1>12
  <1>14. \A j \in 1..n : bytes[2 * j - 1] = text[j] \div 256 /\ bytes[2 * j] = text[j] % 256
    <2> SUFFICES ASSUME NEW j \in 1..n
                 PROVE  bytes[2 * j - 1] = text[j] \div 256 /\ bytes[2 * j] = text[j] % 256
      OBVIOUS
    <2>1. bytes[2 * j - 1] = text[j] \div 256
      BY <1>10, Zenon
    <2>2. bytes[2 * j] = text[j] % 256
      BY <1>11, Zenon
    <2> QED BY <2>1, <2>2
  <1> QED BY <1>6, <1>7, <1>13, <1>14

(* A pair of bytes is a number. *)
LEMMA BytePair == \A a, b \in Nat : 256 * a + b \in Nat
OBVIOUS

(* The bytes of n code units do not start with a byte-order mark. *)
Unmarked(n, bytes) ==
    n > 0 => /\ ~(bytes[1] = 254 /\ bytes[2] = 255)
             /\ ~(bytes[1] = 255 /\ bytes[2] = 254)

(* Two bytes make a code unit, the high byte first, unless the bytes start *)
(* with a byte-order mark.                                                 *)
LEMMA Utf16Plain ==
    ASSUME NEW n \in Nat, NEW bytes \in Seq(Nat), Len(bytes) = 2 * n,
           Unmarked(n, bytes)
    PROVE  Utf16(bytes) = [k \in 1..n |-> 256 * bytes[2 * k - 1] + bytes[2 * k]]
  <1> DEFINE mark == IF Len(bytes) > 1 THEN SubSeq(bytes, 1, 2) ELSE <<>>
             body == IF mark \in {<<254, 255>>, <<255, 254>>} THEN SubSeq(bytes, 3, Len(bytes)) ELSE bytes
             high == IF mark = <<255, 254>> THEN 0 ELSE 1
             units == [k \in 1..n |-> 256 * bytes[2 * k - 1] + bytes[2 * k]]
  <1>1. mark # <<254, 255>> /\ mark # <<255, 254>>
    <2>1. CASE n = 0
      <3>1. mark = <<>>
        BY <2>1
      <3> QED BY <3>1
    <2>2. CASE n > 0
      <3>1. Len(bytes) > 1 /\ 1 \in 1..Len(bytes) /\ 2 \in 1..Len(bytes)
        BY <2>2
      <3>2. mark = SubSeq(bytes, 1, 2)
        BY <3>1
      <3>3. mark[1] = bytes[1] /\ mark[2] = bytes[2]
        BY <3>1, <3>2, SubSeqProperties
      <3> HIDE DEF mark
      <3>4. <<254, 255>>[1] = 254 /\ <<254, 255>>[2] = 255 /\ <<255, 254>>[1] = 255 /\ <<255, 254>>[2] = 254
        OBVIOUS
      <3>5. ~(bytes[1] = 254 /\ bytes[2] = 255) /\ ~(bytes[1] = 255 /\ bytes[2] = 254)
        BY <2>2 DEF Unmarked
      <3> QED BY <3>3, <3>4, <3>5
    <2> QED BY <2>1, <2>2
  <1>2. body = bytes /\ high = 1
    BY <1>1
  <1>3. Utf16(bytes) = [k \in 1..(Len(body) \div 2) |-> 256 * body[2 * k - high] + body[2 * k - 1 + high]]
                       \o (IF Len(body) % 2 = 1 THEN <<65533>> ELSE <<>>)
    BY DEF Utf16
  <1> HIDE DEF mark, body, high
  <1>4. Len(body) \div 2 = n /\ Len(body) % 2 # 1
    <2>1. (2 * n) \div 2 = n /\ (2 * n) % 2 # 1
      OBVIOUS
    <2>2. Len(body) = 2 * n
      BY <1>2
    <2> QED BY <2>1, <2>2
  <1>5. \A k \in 1..n : 2 * k - high = 2 * k - 1 /\ 2 * k - 1 + high = 2 * k
    BY <1>2
  <1>6. [k \in 1..(Len(body) \div 2) |-> 256 * body[2 * k - high] + body[2 * k - 1 + high]] = units
    BY <1>2, <1>4, <1>5
  <1>7. units \in Seq(Nat)
    <2>1. \A k \in 1..n : 2 * k - 1 \in 1..Len(bytes) /\ 2 * k \in 1..Len(bytes)
      OBVIOUS
    <2>2. \A k \in 1..n : bytes[2 * k - 1] \in Nat /\ bytes[2 * k] \in Nat
      BY <2>1, ElementOfSeq
    <2>3. \A k \in 1..n : 256 * bytes[2 * k - 1] + bytes[2 * k] \in Nat
      BY <2>2, BytePair, Zenon
    <2>4. units \in [1..n -> Nat]
      BY <2>3
    <2> HIDE DEF units
    <2> QED BY <2>4, SeqDef
  <1> HIDE DEF units
  <1>8. Utf16(bytes) = units \o <<>>
    BY <1>3, <1>4, <1>6, SMTT(40)
  <1> QED BY <1>7, <1>8, ConcatEmptySeq DEF units

(* The big-endian byte-order mark, as bytes and as a code unit. *)
MarkFirst(bytes) == bytes[1] = 254 /\ bytes[2] = 255
IsMark(unit) == unit \div 256 = 254 /\ unit % 256 = 255

(* A big-endian byte-order mark is taken off. *)
LEMMA Utf16Marked ==
    ASSUME NEW n \in Nat, NEW bytes \in Seq(Nat), Len(bytes) = 2 * n + 2, MarkFirst(bytes)
    PROVE  Utf16(bytes) = [k \in 1..n |-> 256 * bytes[2 * k + 1] + bytes[2 * k + 2]]
  <1> DEFINE mark == IF Len(bytes) > 1 THEN SubSeq(bytes, 1, 2) ELSE <<>>
             body == IF mark \in {<<254, 255>>, <<255, 254>>} THEN SubSeq(bytes, 3, Len(bytes)) ELSE bytes
             high == IF mark = <<255, 254>> THEN 0 ELSE 1
             units == [k \in 1..n |-> 256 * bytes[2 * k + 1] + bytes[2 * k + 2]]
  <1>1. mark = <<254, 255>>
    <2>1. Len(bytes) > 1 /\ 1 \in 1..Len(bytes) /\ 2 \in 1..Len(bytes)
      OBVIOUS
    <2>2. mark = SubSeq(bytes, 1, 2)
      BY <2>1
    <2>3. mark[1] = 254 /\ mark[2] = 255 /\ mark \in Seq(Nat) /\ Len(mark) = 2
      BY <2>1, <2>2, SubSeqProperties DEF MarkFirst
    <2> HIDE DEF mark
    <2> QED BY <2>3
  <1>2. body = SubSeq(bytes, 3, Len(bytes)) /\ high = 1
    <2>1. <<254, 255>> # <<255, 254>>
      OBVIOUS
    <2> QED BY <1>1, <2>1
  <1>3. Utf16(bytes) = [k \in 1..(Len(body) \div 2) |-> 256 * body[2 * k - high] + body[2 * k - 1 + high]]
                       \o (IF Len(body) % 2 = 1 THEN <<65533>> ELSE <<>>)
    BY DEF Utf16
  <1> HIDE DEF mark, body, high
  <1>4. /\ Len(body) = 2 * n
        /\ \A i \in 1..(2 * n) : body[i] = bytes[i + 2]
    BY <1>2, SubSeqProperties
  <1>5. Len(body) \div 2 = n /\ Len(body) % 2 # 1
    BY <1>4
  <1>6. ASSUME NEW k \in 1..n
        PROVE  /\ body[2 * k - high] = bytes[2 * k + 1] /\ body[2 * k - 1 + high] = bytes[2 * k + 2]
               /\ bytes[2 * k + 1] \in Nat /\ bytes[2 * k + 2] \in Nat
    <2>1. /\ 2 * k - high = 2 * k - 1 /\ 2 * k - 1 + high = 2 * k
          /\ 2 * k - 1 \in 1..(2 * n) /\ 2 * k \in 1..(2 * n)
          /\ 2 * k - 1 + 2 = 2 * k + 1
      BY <1>2
    <2>2. body[2 * k - 1] = bytes[2 * k - 1 + 2] /\ body[2 * k] = bytes[2 * k + 2]
      BY <1>4, <2>1
    <2>3. 2 * k + 1 \in 1..Len(bytes) /\ 2 * k + 2 \in 1..Len(bytes)
      OBVIOUS
    <2> QED BY <2>1, <2>2, <2>3, ElementOfSeq
  <1>7. [k \in 1..(Len(body) \div 2) |-> 256 * body[2 * k - high] + body[2 * k - 1 + high]] = units
    <2>1. \A k \in 1..n : body[2 * k - high] = bytes[2 * k + 1] /\ body[2 * k - 1 + high] = bytes[2 * k + 2]
      BY <1>6, Zenon
    <2>2. \A k \in 1..n : 256 * body[2 * k - high] + body[2 * k - 1 + high]
                            = 256 * bytes[2 * k + 1] + bytes[2 * k + 2]
      BY <2>1, Zenon
    <2>3. [k \in 1..n |-> 256 * body[2 * k - high] + body[2 * k - 1 + high]] = units
      BY <2>2, Zenon
    <2> QED BY <1>5, <2>3, Zenon
  <1>8. units \in Seq(Nat)
    <2>1. \A k \in 1..n : 256 * bytes[2 * k + 1] + bytes[2 * k + 2] \in Nat
      BY <1>6, BytePair, Zenon
    <2>2. units \in [1..n -> Nat]
      BY <2>1
    <2> HIDE DEF units
    <2> QED BY <2>2, SeqDef
  <1> HIDE DEF units
  <1>9. Utf16(bytes) = units \o <<>>
    BY <1>3, <1>5, <1>7, SMTT(40)
  <1> QED BY <1>8, <1>9, ConcatEmptySeq DEF units

(* The decoder finds the marker of an encoding and cuts off exactly the *)
(* marker.                                                              *)
LEMMA Prefixed ==
    ASSUME NEW hex \in Seq(Nat)
    PROVE  IsPrefix(uCs2, uCs2 \o hex) /\ SubSeq(uCs2 \o hex, 5, Len(uCs2 \o hex)) = hex
  <1>1. uCs2 \in Seq(Nat) /\ Len(uCs2) = 4
    BY DEF uCs2
  <1>2. Len(hex) \in Nat /\ Len(uCs2 \o hex) = 4 + Len(hex)
    <2>1. Len(hex) \in Nat /\ Len(uCs2 \o hex) = Len(uCs2) + Len(hex)
      BY <1>1, ConcatProperties, LenProperties
    <2> QED BY <1>1, <2>1
  <1>3. SubSeq(uCs2 \o hex, 1, 4) = SubSeq(uCs2, 1, 4)
    <2>1. 1 \in 1..Len(uCs2) /\ 4 \in 1..Len(uCs2)
      BY <1>1
    <2> QED BY <1>1, <2>1, SubSeqOfConcat1
  <1>4. IsPrefix(uCs2, uCs2 \o hex)
    BY <1>1, <1>2, <1>3, SMTT(40) DEF IsPrefix
  <1>5. SubSeq(uCs2 \o hex, 5, 4 + Len(hex)) = hex
    <2>1. CASE Len(hex) = 0
      <3>1. hex = <<>>
        BY <2>1, EmptySeq
      <3>2. SubSeq(uCs2 \o hex, 5, 4) = <<>>
        BY SubSeqEmpty
      <3> QED BY <2>1, <3>1, <3>2
    <2>2. CASE Len(hex) > 0
      <3>1. /\ 5 \in Len(uCs2) + 1 .. Len(uCs2) + Len(hex)
            /\ 4 + Len(hex) \in Len(uCs2) + 1 .. Len(uCs2) + Len(hex)
        BY <1>1, <1>2, <2>2
      <3>2. SubSeq(uCs2 \o hex, 5, 4 + Len(hex)) = SubSeq(hex, 1, Len(hex))
        <4> DEFINE m == 5
                   l == 4 + Len(hex)
        <4>1. /\ m \in Len(uCs2) + 1 .. Len(uCs2) + Len(hex)
              /\ l \in Len(uCs2) + 1 .. Len(uCs2) + Len(hex)
          BY <3>1
        <4> HIDE DEF m, l
        <4>2. SubSeq(uCs2 \o hex, m, l) = SubSeq(hex, m - Len(uCs2), l - Len(uCs2))
          BY <1>1, <4>1, SubSeqOfConcat2
        <4>3. m - Len(uCs2) = 1 /\ l - Len(uCs2) = Len(hex)
          BY <1>1, <1>2 DEF m, l
        <4> QED BY <4>2, <4>3 DEF m, l
      <3> QED BY <3>2, SubSeqFull
    <2> QED BY <1>2, <2>1, <2>2
  <1> QED BY <1>2, <1>4, <1>5

(* A marked name is decoded by converting its digits to bytes and the *)
(* bytes to a text.                                                   *)
LEMMA DecodesDigits ==
    ASSUME NEW full \in Seq(CodeUnits), NEW letter \in Letters
    PROVE  Decoded(Encode(full, letter)) = Utf16(hexStringToBytes(Digits(full, letter)))
  <1> DEFINE hex == Digits(full, letter)
             name == uCs2 \o hex
  <1>1. hex \in Seq(Nat) /\ ~HexThrows(hex)
    BY DigitsRead
  <1>2. IsPrefix(uCs2, name) /\ SubSeq(name, 5, Len(name)) = hex
    BY <1>1, Prefixed
  <1>3. Encode(full, letter) = name
    BY DEF Encode
  <1> HIDE DEF name, hex
  <1>4. Decoded(name) = Utf16(hexStringToBytes(hex))
    BY <1>1, <1>2 DEF Decoded
  <1> QED BY <1>3, <1>4 DEF hex

(* A marked name that is not made of pairs of digits is an exception. *)
LEMMA GarbledThrows ==
    ASSUME NEW name \in Strings, name # null, Garbled(name)
    PROVE  Decoded(name) = thrown
  <1> DEFINE hex == SubSeq(name, 5, Len(name))
  <1>1. name \in Seq(CodeUnits) /\ Len(name) \in Nat
    BY LenProperties DEF Strings
  <1>2. Len(name) >= 4
    BY <1>1 DEF Garbled, IsPrefix, uCs2
  <1>3. Len(name) > 4
    BY <1>1, <1>2 DEF Garbled
  <1>4. /\ hex \in Seq(CodeUnits)
        /\ Len(hex) = Len(name) - 4
        /\ \A i \in 1..(Len(name) - 4) : hex[i] = name[i + 4]
    BY <1>1, <1>3, SubSeqProperties
  <1>5. IsPrefix(uCs2, name)
    BY DEF Garbled
  <1> HIDE DEF hex
  <1>6. HexThrows(hex)
    <2>1. CASE Len(name) % 2 = 1
      BY <1>1, <1>3, <1>4, <2>1 DEF HexThrows
    <2>2. ASSUME NEW k \in 5..Len(name), ~IsHexChar(name[k])
          PROVE  HexThrows(hex)
      <3>1. k - 4 \in 1..(Len(name) - 4) /\ (k - 4) + 4 = k
        BY <1>1
      <3>2. hex[k - 4] = name[k]
        BY <1>4, <3>1
      <3> QED BY <1>4, <2>2, <3>1, <3>2 DEF HexThrows
    <2> QED BY <2>1, <2>2 DEF Garbled
  <1> QED BY <1>5, <1>6 DEF Decoded, hex

(* What the assumptions on a name mean for the decoder. *)
LEMMA MeantDecodes ==
    ASSUME NEW name \in Strings, Meant(name)
    PROVE  \/ name = null
           \/ name # null /\ Decoded(name) = thrown
           \/ name # null /\ \E text \in Texts : name \in Encodings(text)
BY GarbledThrows DEF Meant

(* hexStringToBytes gives two bytes for each code unit, the high byte *)
(* first.                                                             *)
LEMMA BytesRead ==
    ASSUME NEW full \in Seq(CodeUnits), NEW letter \in Letters
    PROVE  LET bytes == hexStringToBytes(Digits(full, letter)) IN
           /\ bytes \in Seq(Nat) /\ Len(bytes) = 2 * Len(full)
           /\ \A j \in 1..Len(full) : bytes[2 * j - 1] = full[j] \div 256 /\ bytes[2 * j] = full[j] % 256
BY DigitsRead

(* A text without a byte-order mark comes back as it was. *)
LEMMA PlainRoundTrip ==
    ASSUME NEW text \in Seq(CodeUnits), NEW letter \in Letters,
           text # <<>> => text[1] \notin ByteOrderMarks
    PROVE  Decoded(Encode(text, letter)) = text
  <1> DEFINE n == Len(text)
             bytes == hexStringToBytes(Digits(text, letter))
  <1>1. /\ bytes \in Seq(Nat) /\ Len(bytes) = 2 * n
        /\ \A j \in 1..n : bytes[2 * j - 1] = text[j] \div 256 /\ bytes[2 * j] = text[j] % 256
    BY DigitsRead
  <1>2. n \in Nat /\ \A j \in 1..n : text[j] \in CodeUnits
    BY LenProperties, ElementOfSeq
  <1>3. Decoded(Encode(text, letter)) = Utf16(bytes)
    BY DecodesDigits
  <1> HIDE DEF bytes
  <1>4. \A j \in 1..n : 256 * bytes[2 * j - 1] + bytes[2 * j] = text[j]
    <2> SUFFICES ASSUME NEW j \in 1..n PROVE 256 * bytes[2 * j - 1] + bytes[2 * j] = text[j]
      OBVIOUS
    <2> DEFINE u == text[j]
    <2>1. u \in CodeUnits /\ bytes[2 * j - 1] = u \div 256 /\ bytes[2 * j] = u % 256
      BY <1>1, <1>2
    <2> HIDE DEF u
    <2>2. (256 * (u \div 256)) + (u % 256) = u
      BY <2>1, Quarters
    <2> QED BY <2>1, <2>2 DEF u
  <1>5. ASSUME n > 0
        PROVE  ~(bytes[1] = 254 /\ bytes[2] = 255) /\ ~(bytes[1] = 255 /\ bytes[2] = 254)
    <2>1. text # <<>> /\ 1 \in 1..n /\ 2 * 1 - 1 = 1 /\ 2 * 1 = 2
      BY <1>2, <1>5
    <2>2. 256 * bytes[1] + bytes[2] = text[1]
      BY <1>4, <2>1
    <2>3. text[1] # 65279 /\ text[1] # 65534
      BY <2>1 DEF ByteOrderMarks
    <2>4. 256 * 254 + 255 = 65279 /\ 256 * 255 + 254 = 65534
      BY SMT
    <2> QED BY <2>2, <2>3, <2>4, SMT
  <1>6. Utf16(bytes) = [k \in 1..n |-> 256 * bytes[2 * k - 1] + bytes[2 * k]]
    <2>1. Len(bytes) = 2 * n /\ bytes \in Seq(Nat) /\ n \in Nat
      BY <1>1, <1>2
    <2>2. Unmarked(n, bytes)
      BY <1>5 DEF Unmarked
    <2> HIDE DEF n
    <2> QED BY <2>1, <2>2, Utf16Plain, ZenonT(40)
  <1>7. text = [k \in 1..n |-> text[k]]
    OBVIOUS
  <1>8. [k \in 1..n |-> 256 * bytes[2 * k - 1] + bytes[2 * k]] = [k \in 1..n |-> text[k]]
    BY <1>4, Zenon
  <1> QED BY <1>3, <1>6, <1>7, <1>8

(* A byte-order mark that the daemon put before it is taken off. *)
LEMMA MarkedRoundTrip ==
    ASSUME NEW text \in Seq(CodeUnits), NEW letter \in Letters, NEW mark \in CodeUnits, IsMark(mark)
    PROVE  Decoded(Encode(<<mark>> \o text, letter)) = text
  <1> DEFINE n == Len(text)
             full == <<mark>> \o text
             bytes == hexStringToBytes(Digits(full, letter))
  <1>1. n \in Nat /\ \A j \in 1..n : text[j] \in CodeUnits
    BY LenProperties, ElementOfSeq
  <1>2. full \in Seq(CodeUnits) /\ Len(full) = n + 1 /\ full[1] = mark /\ \A j \in 1..n : full[j + 1] = text[j]
    <2>1. <<mark>> \in Seq(CodeUnits) /\ Len(<<mark>>) = 1 /\ <<mark>>[1] = mark
      OBVIOUS
    <2>2. /\ full \in Seq(CodeUnits) /\ Len(full) = 1 + n
          /\ \A i \in 1..(1 + n) : full[i] = IF i <= 1 THEN <<mark>>[i] ELSE text[i - 1]
      BY <2>1, ConcatProperties
    <2> HIDE DEF full
    <2>3. full[1] = mark
      BY <1>1, <2>1, <2>2
    <2>4. ASSUME NEW j \in 1..n PROVE full[j + 1] = text[j]
      <3>1. j + 1 \in 1..(1 + n) /\ ~(j + 1 <= 1) /\ j + 1 - 1 = j
        BY <1>1
      <3> QED BY <2>2, <3>1
    <2> QED BY <1>1, <2>2, <2>3, <2>4
  <1> HIDE DEF full
  <1>3. /\ bytes \in Seq(Nat) /\ Len(bytes) = 2 * (n + 1)
        /\ \A j \in 1..(n + 1) : bytes[2 * j - 1] = full[j] \div 256 /\ bytes[2 * j] = full[j] % 256
    <2>1. /\ bytes \in Seq(Nat) /\ Len(bytes) = 2 * Len(full)
          /\ \A j \in 1..Len(full) : bytes[2 * j - 1] = full[j] \div 256 /\ bytes[2 * j] = full[j] % 256
      <3>1. full \in Seq(CodeUnits)
        BY <1>2
      <3> QED BY <3>1, BytesRead
    <2> HIDE DEF bytes
    <2> QED BY <1>2, <2>1
  <1>4. Decoded(Encode(full, letter)) = Utf16(bytes)
    BY <1>2, DecodesDigits
  <1> HIDE DEF bytes
  <1>5. MarkFirst(bytes)
    <2> DEFINE j == 1
    <2>1. j \in 1..(n + 1) /\ 2 * j - 1 = 1 /\ 2 * j = 2 /\ full[j] = mark
      BY <1>1, <1>2
    <2> HIDE DEF j
    <2>2. bytes[2 * j - 1] = full[j] \div 256 /\ bytes[2 * j] = full[j] % 256
      BY <1>3, <2>1, Zenon
    <2> QED BY <2>1, <2>2 DEF IsMark, MarkFirst
  <1>6. \A j \in 1..n : 256 * bytes[2 * j + 1] + bytes[2 * j + 2] = text[j]
    <2> SUFFICES ASSUME NEW j \in 1..n PROVE 256 * bytes[2 * j + 1] + bytes[2 * j + 2] = text[j]
      OBVIOUS
    <2> DEFINE u == text[j]
               i == j + 1
    <2>1. i \in 1..(n + 1) /\ 2 * i - 1 = 2 * j + 1 /\ 2 * i = 2 * j + 2
      BY <1>1
    <2>2. u \in CodeUnits /\ full[i] = u
      BY <1>1, <1>2
    <2> HIDE DEF i, u
    <2>3. bytes[2 * i - 1] = u \div 256 /\ bytes[2 * i] = u % 256
      BY <1>3, <2>1, <2>2, Zenon
    <2>4. (256 * (u \div 256)) + (u % 256) = u
      BY <2>2, Quarters
    <2> QED BY <2>1, <2>3, <2>4 DEF u
  <1>7. Utf16(bytes) = [k \in 1..n |-> 256 * bytes[2 * k + 1] + bytes[2 * k + 2]]
    <2>1. Len(bytes) = 2 * n + 2
      BY <1>1, <1>3
    <2>2. n \in Nat /\ bytes \in Seq(Nat)
      BY <1>1, <1>3
    <2> HIDE DEF n
    <2> QED BY <1>5, <2>1, <2>2, Utf16Marked, ZenonT(40)
  <1>8. text = [k \in 1..n |-> text[k]]
    OBVIOUS
  <1>9. [k \in 1..n |-> 256 * bytes[2 * k + 1] + bytes[2 * k + 2]] = [k \in 1..n |-> text[k]]
    BY <1>6, Zenon
  <1> QED BY <1>4, <1>7, <1>8, <1>9 DEF full

(* Every encoding of a text decodes to the text: as it is, in hexadecimal  *)
(* of either case, with a byte-order mark or without.                      *)
THEOREM DecodeEncode == \A text \in Texts : \A name \in Encodings(text) : Decoded(name) = text
  <1> SUFFICES ASSUME NEW text \in Texts, NEW name \in Encodings(text) PROVE Decoded(name) = text
    OBVIOUS
  <1>1. /\ text \in Seq(CodeUnits) /\ ~IsPrefix(uCs2, text)
        /\ text # <<>> => text[1] \notin ByteOrderMarks
    BY TextsAssumption
  <1>2. CASE name = text
    BY <1>1, <1>2 DEF Decoded
  <1>3. ASSUME NEW letter \in Letters, name = Encode(<<>> \o text, letter) PROVE Decoded(name) = text
    <2>1. <<>> \o text = text
      BY <1>1, ConcatEmptySeq
    <2>2. Decoded(Encode(text, letter)) = text
      BY <1>1, PlainRoundTrip
    <2> QED BY <1>3, <2>1, <2>2
  <1> DEFINE mark == 65279
  <1>4. ASSUME NEW letter \in Letters, name = Encode(<<mark>> \o text, letter) PROVE Decoded(name) = text
    <2>1. 65279 \in CodeUnits
      BY UnitRange, SMT
    <2>2. mark \in CodeUnits /\ IsMark(mark)
      BY <2>1, SMT DEF IsMark
    <2> HIDE DEF mark
    <2> QED BY <1>1, <1>4, <2>2, MarkedRoundTrip
  <1>5. \/ name = text
        \/ \E letter \in Letters : \/ name = Encode(<<>> \o text, letter)
                                   \/ name = Encode(<<65279>> \o text, letter)
    BY DEF Encodings, Letters
  <1> QED BY <1>2, <1>3, <1>4, <1>5

-----------------------------------------------------------------------------
(* The names of one operator *)

(* null and an exception are no texts, and null is never decoded. *)
LEMMA Specials ==
    /\ null \notin Seq(CodeUnits) /\ thrown \notin Strings /\ null # thrown
    /\ <<32>> \in Seq(CodeUnits) /\ <<>> \in Seq(CodeUnits) /\ Decoded(null) = null
  <1>1. -1 \notin CodeUnits /\ -2 \notin CodeUnits /\ 32 \in CodeUnits
    BY UnitRange
  <1>2. Len(null) = 1 /\ null[1] = -1 /\ Len(thrown) = 1 /\ thrown[1] = -2
    BY DEF null, thrown
  <1>3. ASSUME NEW s \in Seq(CodeUnits) PROVE s # null /\ s # thrown
    <2>1. ASSUME Len(s) = 1 PROVE s[1] \in CodeUnits
      <3>1. 1 \in 1..Len(s)
        BY <2>1
      <3> QED BY <3>1, ElementOfSeq
    <2> QED BY <1>1, <1>2, <2>1
  <1>4. null # thrown
    BY <1>2
  <1>5. <<32>> \in Seq(CodeUnits) /\ <<>> \in Seq(CodeUnits)
    BY <1>1
  <1>6. ~IsPrefix(uCs2, null)
    <2>1. Len(uCs2) = 4
      BY DEF uCs2
    <2> QED BY <1>2, <2>1 DEF IsPrefix
  <1>7. Decoded(null) = null
    BY <1>6 DEF Decoded
  <1> QED BY <1>3, <1>4, <1>5, <1>7 DEF Strings

(* The look-up of a numeric code in the table gives a string, and never *)
(* null for a code that is not null.                                    *)
LEMMA ReplacedByString ==
    ASSUME NEW numeric \in Strings
    PROVE  /\ unOptimizedOperatorReplace(numeric) \in Strings
           /\ numeric # null => unOptimizedOperatorReplace(numeric) \in Seq(CodeUnits)
BY TableAssumption DEF unOptimizedOperatorReplace, Strings

(* The names of an operator whose first name means a text. *)
LEMMA NamesOfText ==
    ASSUME NEW text \in Texts, NEW name \in Encodings(text), NEW short, NEW numeric
    PROVE  /\ text \in Seq(CodeUnits) /\ text # null
           /\ text \in {<<>>, numeric} =>
                Names(name, short, numeric) = <<unOptimizedOperatorReplace(numeric),
                                                unOptimizedOperatorReplace(numeric)>>
           /\ text \notin {<<>>, numeric} => Names(name, short, numeric) = <<text, short>>
  <1>1. Decoded(name) = text
    BY DecodeEncode
  <1>2. text \in Seq(CodeUnits) /\ text # null
    BY TextsAssumption, Specials
  <1> QED BY <1>1, <1>2 DEF Names

(* Adding the radio technology: nothing up to capability 3, an exception *)
(* for a null name, a longer name otherwise.                             *)
LEMMA WithRatOf ==
    ASSUME NEW name \in Strings, NEW rat \in Seq(CodeUnits), NEW cap \in Nat
    PROVE  /\ name \o <<>> = name
           /\ cap <= 3 => WithRat(name, rat, cap) = name
           /\ cap > 3 /\ name = null => WithRat(name, rat, cap) = thrown
           /\ cap > 3 /\ name # null => /\ WithRat(name, rat, cap) = name \o (<<32>> \o rat)
                                        /\ WithRat(name, rat, cap) \in Seq(CodeUnits)
  <1>1. name \o <<>> = name
    <2>1. name \in Seq(CodeUnits) => name \o <<>> = name
      BY ConcatEmptySeq
    <2>2. null \in Seq(Int)
      BY DEF null
    <2>3. null \o <<>> = null
      BY <2>2, ConcatEmptySeq
    <2> QED BY <2>1, <2>3 DEF Strings
  <1>2. cap <= 3 => WithRat(name, rat, cap) = name
    BY DEF WithRat
  <1>3. cap > 3 => ~(cap <= 3)
    OBVIOUS
  <1>4. cap > 3 /\ name = null => WithRat(name, rat, cap) = thrown
    BY <1>3 DEF WithRat
  <1>5. ASSUME cap > 3, name # null
        PROVE  /\ WithRat(name, rat, cap) = name \o (<<32>> \o rat)
               /\ WithRat(name, rat, cap) \in Seq(CodeUnits)
    <2>1. name \in Seq(CodeUnits) /\ <<32>> \in Seq(CodeUnits)
      BY <1>5, Specials DEF Strings
    <2>2. WithRat(name, rat, cap) = (name \o <<32>>) \o rat
      BY <1>3, <1>5 DEF WithRat
    <2>3. (name \o <<32>>) \o rat = name \o (<<32>> \o rat)
      BY <2>1, ConcatAssociative
    <2>4. name \o <<32>> \in Seq(CodeUnits)
      BY <2>1, ConcatProperties
    <2>5. (name \o <<32>>) \o rat \in Seq(CodeUnits)
      BY <2>4, ConcatProperties
    <2> QED BY <2>2, <2>3, <2>5
  <1> QED BY <1>1, <1>2, <1>4, <1>5

(* One operator of a scan: either it is shown under the names it should    *)
(* have, or an exception is owed to what is wrong with its names.          *)
LEMMA OperatorNames ==
    ASSUME NEW op \in OperatorStrings, Meant(op.long), NEW cap \in Nat,
           NEW names, names = Names(op.long, op.short, op.numeric),
           NEW shown, shown = [n \in 1..2 |-> WithRat(names[n], op.rat, cap)]
    PROVE  /\ thrown \in {names[1], shown[1], shown[2]} =>
                Unreadable(op, cap)
           /\ thrown \notin {names[1], shown[1], shown[2]} =>
                /\ shown[1] \in Strings /\ shown[2] \in Strings
                /\ \E rat \in {<<>>, <<32>> \o op.rat} :
                     Named(op.long, op.short, op.numeric, rat, <<shown[1], shown[2]>>)
  <1>1. /\ op.long \in Strings /\ op.short \in Strings
        /\ op.numeric \in Seq(CodeUnits) /\ op.rat \in Seq(CodeUnits)
    BY DEF OperatorStrings
  <1>2. shown[1] = WithRat(names[1], op.rat, cap) /\ shown[2] = WithRat(names[2], op.rat, cap)
    OBVIOUS
  <1>3. CASE op.long = null
    <2>1. names = <<null, op.short>>
      BY <1>3, Specials DEF Names
    <2>2. names[1] = null /\ names[2] = op.short
      BY <2>1
    <2>3. null \in Strings
      BY DEF Strings
    <2>4. CASE cap <= 3
      <3>1. shown[1] = null /\ shown[2] = op.short
        BY <1>1, <1>2, <2>2, <2>3, <2>4, WithRatOf
      <3>2. Named(op.long, op.short, op.numeric, <<>>, <<shown[1], shown[2]>>)
        BY <1>3, <3>1 DEF Named
      <3>3. thrown \notin {names[1], shown[1], shown[2]}
        BY <1>1, <2>2, <3>1, Specials
      <3> QED BY <1>1, <1>3, <2>3, <3>1, <3>2, <3>3
    <2>5. CASE cap > 3
      <3>1. shown[1] = thrown
        BY <1>1, <1>2, <2>2, <2>3, <2>5, WithRatOf
      <3> QED BY <1>3, <2>5, <3>1 DEF Unreadable, Nameless
    <2> QED BY <2>4, <2>5
  <1>4. CASE op.long # null /\ Decoded(op.long) = thrown
    <2>1. Malformed(op.long)
      <3> SUFFICES ASSUME NEW text \in Texts, op.long \in Encodings(text) PROVE FALSE
        BY <1>4 DEF Malformed
      <3>1. Decoded(op.long) = text
        BY DecodeEncode
      <3>2. text \in Strings
        BY TextsAssumption DEF Strings
      <3> QED BY <1>4, <3>1, <3>2, Specials
    <2>2. names[1] = thrown
      <3>1. op.numeric # thrown /\ <<>> # thrown /\ thrown # null
        BY <1>1, Specials DEF Strings
      <3>2. names = <<thrown, op.short>>
        BY <1>4, <3>1 DEF Names
      <3> QED BY <3>2
    <2> QED BY <2>1, <2>2 DEF Unreadable
  <1>5. ASSUME op.long # null, NEW text \in Texts, op.long \in Encodings(text)
        PROVE  /\ thrown \in {names[1], shown[1], shown[2]} => cap > 3 /\ Nameless(op)
               /\ thrown \notin {names[1], shown[1], shown[2]} =>
                    /\ shown[1] \in Strings /\ shown[2] \in Strings
                    /\ \E rat \in {<<>>, <<32>> \o op.rat} :
                         Named(op.long, op.short, op.numeric, rat, <<shown[1], shown[2]>>)
    <2> DEFINE found == unOptimizedOperatorReplace(op.numeric)
               bare == text \in {<<>>, op.numeric}
               first == IF bare THEN found ELSE text
               second == IF bare THEN found ELSE op.short
    <2>1. op.numeric \in Strings /\ op.numeric # null
      BY <1>1, Specials DEF Strings
    <2>2. found \in Seq(CodeUnits)
      BY <2>1, ReplacedByString
    <2>3. text \in Seq(CodeUnits) /\ names[1] = first /\ names[2] = second
      <3>1. /\ text \in Seq(CodeUnits)
            /\ bare => Names(op.long, op.short, op.numeric) = <<found, found>>
            /\ ~bare => Names(op.long, op.short, op.numeric) = <<text, op.short>>
        BY <1>5, NamesOfText
      <3>2. CASE bare
        <4>1. names = <<found, found>>
          BY <3>1, <3>2
        <4> QED BY <3>1, <3>2, <4>1
      <3>3. CASE ~bare
        <4>1. names = <<text, op.short>>
          BY <3>1, <3>3
        <4> QED BY <3>1, <3>3, <4>1
      <3> QED BY <3>2, <3>3
    <2>4. first \in Seq(CodeUnits) /\ second \in Strings
      BY <1>1, <2>2, <2>3 DEF Strings
    <2>5. second = null => Nameless(op)
      <3> SUFFICES ASSUME second = null PROVE Nameless(op)
        OBVIOUS
      <3>1. ~bare /\ op.short = null
        BY <2>2, Specials, SMTT(40)
      <3> QED BY <1>5, <3>1, ZenonT(40) DEF Nameless
    <2>6. ASSUME NEW rat, shown[1] = first \o rat, shown[2] = second \o rat
          PROVE  Named(op.long, op.short, op.numeric, rat, <<shown[1], shown[2]>>)
      BY <1>5, <2>6 DEF Named
    <2> HIDE DEF first, second, bare, found
    <2>7. first # null /\ first \in Strings /\ first # thrown
      BY <2>4, Specials DEF Strings
    <2>8. CASE cap <= 3
      <3>1. /\ shown[1] = first /\ shown[2] = second
            /\ first \o <<>> = first /\ second \o <<>> = second
        BY <1>1, <1>2, <2>3, <2>4, <2>7, <2>8, WithRatOf, ZenonT(40)
      <3>2. Named(op.long, op.short, op.numeric, <<>>, <<shown[1], shown[2]>>)
        BY <2>6, <3>1
      <3>3. second # thrown
        BY <2>4, Specials
      <3> QED BY <2>3, <2>4, <2>7, <3>1, <3>2, <3>3
    <2>9. CASE cap > 3
      <3>1. shown[1] = first \o (<<32>> \o op.rat) /\ shown[1] \in Seq(CodeUnits)
        <4>1. /\ WithRat(first, op.rat, cap) = first \o (<<32>> \o op.rat)
              /\ WithRat(first, op.rat, cap) \in Seq(CodeUnits)
          BY <1>1, <2>7, <2>9, WithRatOf, Zenon
        <4> QED BY <1>2, <2>3, <4>1
      <3>2. CASE second = null
        <4>1. shown[2] = thrown
          BY <1>1, <1>2, <2>3, <2>4, <2>9, <3>2, WithRatOf
        <4> QED BY <2>5, <2>9, <3>2, <4>1
      <3>3. CASE second # null
        <4>1. shown[2] = second \o (<<32>> \o op.rat) /\ shown[2] \in Seq(CodeUnits)
          <5>1. /\ WithRat(second, op.rat, cap) = second \o (<<32>> \o op.rat)
                /\ WithRat(second, op.rat, cap) \in Seq(CodeUnits)
            BY <1>1, <2>4, <2>9, <3>3, WithRatOf, Zenon
          <5> QED BY <1>2, <2>3, <5>1
        <4>2. Named(op.long, op.short, op.numeric, <<32>> \o op.rat, <<shown[1], shown[2]>>)
          BY <2>6, <3>1, <4>1
        <4>3. shown[1] \in Strings /\ shown[2] \in Strings /\ thrown \notin Strings
          BY <3>1, <4>1, Specials DEF Strings
        <4> QED BY <2>3, <2>7, <4>2, <4>3
      <3> QED BY <3>2, <3>3
    <2> QED BY <2>8, <2>9
  <1>6. op.long = null \/ (op.long # null /\ Decoded(op.long) = thrown)
        \/ (op.long # null /\ \E text \in Texts : op.long \in Encodings(text))
    <2>1. op.long \in Strings
      BY DEF OperatorStrings
    <2> QED BY <2>1, MeantDecodes
  <1> QED BY <1>3, <1>4, <1>5, <1>6 DEF Unreadable

(* The current operator: its two names, then the rest as it came. *)
LEMMA ResponseNames ==
    ASSUME NEW r \in Answers, ~ResponseThrows(r), NEW out, out = Response(r)
    PROVE  /\ out \in Seq(Strings)
           /\ \/ r[1] = null /\ out = r
              \/ /\ Len(out) = Len(r) /\ SubSeq(out, 3, Len(r)) = SubSeq(r, 3, Len(r))
                 /\ Named(r[1], r[2], r[3], <<>>, SubSeq(out, 1, 2))
  <1>1. r \in Seq(Strings) /\ r # <<>> /\ Meant(r[1])
    BY AnswersAssumption, NamesAssumption DEF ResponseThrows
  <1>2. CASE r[1] = null
    BY <1>1, <1>2 DEF Response
  <1>3. CASE r[1] # null
    <2>1. Decoded(r[1]) # thrown /\ ~(Len(r) < 3)
      BY <1>1, <1>3 DEF ResponseThrows
    <2>2. /\ Len(r) \in Nat /\ Len(r) >= 3 /\ 1 \in 1..Len(r) /\ 2 \in 1..Len(r) /\ 3 \in 1..Len(r)
      BY <1>1, <2>1, LenProperties
    <2>3. r[1] \in Strings /\ r[2] \in Strings /\ r[3] \in Strings
      BY <1>1, <2>2, ElementOfSeq
    <2>4. PICK text \in Texts : r[1] \in Encodings(text)
      BY <1>1, <1>3, <2>1, <2>3, MeantDecodes
    <2> DEFINE found == unOptimizedOperatorReplace(r[3])
               bare == text \in {<<>>, r[3]}
               first == IF bare THEN found ELSE text
               second == IF bare THEN found ELSE r[2]
               names == Names(r[1], r[2], r[3])
               rest == SubSeq(r, 3, Len(r))
    <2>5. text \in Seq(CodeUnits) /\ names = <<first, second>>
      <3>1. /\ text \in Seq(CodeUnits)
            /\ bare => names = <<found, found>>
            /\ ~bare => names = <<text, r[2]>>
        BY <2>4, NamesOfText
      <3>2. CASE bare
        BY <3>1, <3>2
      <3>3. CASE ~bare
        BY <3>1, <3>3
      <3> QED BY <3>2, <3>3
    <2>6. found \in Strings
      BY <2>3, ReplacedByString
    <2>7. first \in Strings /\ second \in Strings
      BY <2>3, <2>5, <2>6 DEF Strings
    <2>8. out = names \o rest
      BY <1>3 DEF Response
    <2>9. first \o <<>> = first /\ second \o <<>> = second
      <3>1. <<>> \in Seq(CodeUnits) /\ 0 \in Nat
        BY Specials
      <3> HIDE DEF first, second
      <3> QED BY <2>7, <3>1, WithRatOf
    <2>10. Named(r[1], r[2], r[3], <<>>, <<first, second>>)
      BY <2>4, <2>9 DEF Named
    <2> HIDE DEF names, first, second, bare, found
    <2>11. names \in Seq(Strings) /\ Len(names) = 2
      BY <2>5, <2>7
    <2>12. rest \in Seq(Strings) /\ Len(rest) = Len(r) - 2
      <3>1. \A i \in 3..Len(r) : r[i] \in Strings
        BY <1>1, <2>2, ElementOfSeq
      <3> QED BY <2>2, <3>1, SubSeqProperties
    <2> HIDE DEF rest
    <2>13. out \in Seq(Strings) /\ Len(out) = Len(r)
      <3>1. out \in Seq(Strings) /\ Len(out) = Len(names) + Len(rest)
        BY <2>8, <2>11, <2>12, ConcatProperties
      <3> QED BY <2>2, <2>11, <2>12, <3>1
    <2>14. SubSeq(out, 1, 2) = names
      <3>1. 1 \in 1..Len(names) /\ 2 \in 1..Len(names)
        BY <2>11
      <3>2. SubSeq(out, 1, 2) = SubSeq(names, 1, 2)
        <4>1. names \in Seq(Strings) /\ rest \in Seq(Strings)
          BY <2>11, <2>12
        <4>2. SubSeq(names \o rest, 1, 2) = SubSeq(names, 1, 2)
          BY <3>1, <4>1, SubSeqOfConcat1, Zenon
        <4> QED BY <2>8, <4>2
      <3>3. SubSeq(names, 1, Len(names)) = names
        BY <2>11, SubSeqFull
      <3> QED BY <2>11, <3>2, <3>3
    <2>15. SubSeq(out, 3, Len(r)) = rest
      <3> DEFINE m == 3
                 l == Len(r)
      <3>1. /\ m \in Len(names) + 1 .. Len(names) + Len(rest)
            /\ l \in Len(names) + 1 .. Len(names) + Len(rest)
            /\ m - Len(names) = 1 /\ l - Len(names) = Len(rest)
        BY <2>2, <2>11, <2>12
      <3> HIDE DEF m, l
      <3>2. SubSeq(names \o rest, m, l) = SubSeq(rest, m - Len(names), l - Len(names))
        <4>1. names \in Seq(Strings) /\ rest \in Seq(Strings)
          BY <2>11, <2>12
        <4> QED BY <3>1, <4>1, SubSeqOfConcat2, ZenonT(40)
      <3>3. SubSeq(rest, 1, Len(rest)) = rest
        BY <2>12, SubSeqFull
      <3> QED BY <2>8, <3>1, <3>2, <3>3 DEF m, l
    <2> QED BY <2>5, <2>10, <2>13, <2>14, <2>15 DEF rest
  <1> QED BY <1>2, <1>3

-----------------------------------------------------------------------------
(* The invariant of the decoder *)

Infos == [long : Strings, short : Strings, numeric : Seq(CodeUnits), state : STRING]

(* How an operator of the modem should be shown. *)
Shown(op, info) ==
    /\ info.numeric = op.numeric /\ info.state = op.state
    /\ \E rat \in {<<>>, <<32>> \o op.rat} :
         Named(op.long, op.short, op.numeric, rat, <<info.long, info.short>>)

(* While a scan is decoded: what is converted so far is right, and the     *)
(* area codes read so far are no more than the operators converted.        *)
ScanSoFar ==
    /\ sent \in Scans
    /\ ret \in Seq(Infos) /\ Len(ret) <= Len(sent.ops)
    /\ \A k \in 1..Len(ret) : Shown(sent.ops[k], ret[k])
    /\ lacIndex \in Nat /\ lacIndex % 4 = 0 /\ lacIndex <= 4 * Len(ret)
    /\ lacIndex = 0 \/ lacValid
    /\ pc = "clear" => ret = <<>>
    /\ pc = "answer" => Len(ret) = Len(sent.ops)

OperatorAnswer(r) ==
    /\ sent = [response |-> r] /\ lacIndex = 0
    /\ \/ pc = "threw" /\ ret = <<>>
       \/ pc = "answer" /\ ~ResponseThrows(r) /\ ret = Response(r)

Lacs == [len : LacLengths \cup {0}, hex : BOOLEAN, id : 0..MaxLacs]

DecodeInv ==
    /\ lac \in Lacs /\ lacStr \in Lacs /\ capability \in Capabilities
    /\ \/ pc = "idle" /\ sent = NoAnswer /\ ret = <<>> /\ lacIndex = 0
       \/ pc \in {"clear", "operators", "answer", "threw"} /\ ScanSoFar
       \/ \E r \in Answers : OperatorAnswer(r)

(* What the assumptions say of the operators of one scan. *)
LEMMA ScanTypes ==
    ASSUME NEW scan \in Scans
    PROVE  /\ scan.ops \in Seq(OperatorStrings) /\ scan.stray \in Nat /\ Len(scan.ops) \in Nat
           /\ "ops" \in DOMAIN scan
           /\ \A k \in 1..Len(scan.ops) : scan.ops[k] \in OperatorStrings /\ Meant(scan.ops[k].long)
  <1>1. scan \in [ops : Seq(OperatorStrings), stray : Nat]
    BY ScansAssumption
  <1>2. scan.ops \in Seq(OperatorStrings) /\ scan.stray \in Nat /\ "ops" \in DOMAIN scan
    BY <1>1
  <1>3. Len(scan.ops) \in Nat /\ \A k \in 1..Len(scan.ops) : scan.ops[k] \in OperatorStrings
    BY <1>2, LenProperties, ElementOfSeq
  <1> QED BY <1>2, <1>3, NamesAssumption

(* Four characters for each operator are enough for every area code. *)
LEMMA LacLengthOf ==
    ASSUME NEW len \in Nat, NEW n \in Nat, len % 4 = 0, len \div 4 = n
    PROVE  len = 4 * n
OBVIOUS

(* Nothing has been decoded at the start. *)
LEMMA DecodeInit == Init => DecodeInv
  <1>1. NoLac \in Lacs
    BY LacAssumption DEF NoLac, Lacs
  <1> QED BY <1>1 DEF Init, DecodeInv

(* The loop of responseOperatorInfos keeps the invariant. *)
LEMMA OperatorKeeps ==
    ASSUME DecodeInv, Operator
    PROVE  DecodeInv'
  <1>1. pc = "operators" /\ ScanSoFar /\ Len(ret) < Len(sent.ops)
    BY DEF DecodeInv, Operator, OperatorAnswer
  <1>2. /\ sent \in Scans /\ ret \in Seq(Infos) /\ lacIndex \in Nat /\ lacIndex % 4 = 0
        /\ lacIndex <= 4 * Len(ret) /\ (lacIndex = 0 \/ lacValid)
        /\ \A k \in 1..Len(ret) : Shown(sent.ops[k], ret[k])
    BY <1>1 DEF ScanSoFar
  <1> DEFINE n == Len(ret)
             op == sent.ops[n + 1]
             names == Names(op.long, op.short, op.numeric)
             shown == [i \in 1..2 |-> WithRat(names[i], op.rat, capability)]
             readsLac == lacValid /\ op.long # null
             fails == thrown \in {names[1], shown[1], shown[2]}
             info == [long |-> shown[1], short |-> shown[2], numeric |-> op.numeric, state |-> op.state]
  <1>3. /\ sent.ops \in Seq(OperatorStrings) /\ Len(sent.ops) \in Nat /\ n \in Nat
        /\ n + 1 \in 1..Len(sent.ops)
    BY <1>1, <1>2, ScanTypes, LenProperties
  <1>4. op \in OperatorStrings /\ Meant(op.long)
    BY <1>2, <1>3, ScanTypes
  <1>5. capability \in Nat /\ lacStr \in Lacs /\ lacStr.len \in Nat
    <2>1. capability \in Nat /\ lacStr \in Lacs
      BY CapabilityAssumption DEF DecodeInv
    <2>2. lacStr.len \in LacLengths \cup {0}
      BY <2>1 DEF Lacs
    <2>3. LacLengths \cup {0} \subseteq Nat
      BY LacAssumption
    <2> QED BY <2>1, <2>2, <2>3
  <1>6. /\ ~fails => /\ shown[1] \in Strings /\ shown[2] \in Strings
                     /\ \E rat \in {<<>>, <<32>> \o op.rat} :
                          Named(op.long, op.short, op.numeric, rat, <<shown[1], shown[2]>>)
    BY <1>4, <1>5, OperatorNames
  <1>7. /\ UNCHANGED <<lac, lacStr, capability, sent>>
        /\ \/ /\ fails \/ (readsLac /\ LacThrows)
              /\ pc' = "threw" /\ UNCHANGED <<ret, lacIndex>>
           \/ /\ ~fails /\ ~(readsLac /\ LacThrows) /\ pc' = pc
              /\ ret' = Append(ret, info)
              /\ lacIndex' = IF readsLac THEN lacIndex + 4 ELSE lacIndex
    BY DEF Operator, props
  <1>8. op.numeric \in Seq(CodeUnits) /\ op.state \in STRING
    BY <1>4 DEF OperatorStrings
  <1> HIDE DEF op, names, shown, fails
  <1>9. lacValid' = lacValid /\ lac' \in Lacs /\ lacStr' \in Lacs /\ capability' \in Capabilities
    BY <1>7 DEF lacValid, DecodeInv
  <1>10. CASE pc' = "threw"
    <2>1. UNCHANGED <<ret, lacIndex, sent, lacStr>> /\ (fails \/ (readsLac /\ LacThrows))
      BY <1>1, <1>7, <1>10
    <2>3. ScanSoFar'
      <3>1. /\ sent' \in Scans /\ ret' \in Seq(Infos) /\ Len(ret') <= Len(sent'.ops)
            /\ lacIndex' \in Nat /\ lacIndex' % 4 = 0 /\ lacIndex' <= 4 * Len(ret')
            /\ \A k \in 1..Len(ret') : Shown(sent'.ops[k], ret'[k])
        BY <1>1, <1>2, <2>1 DEF ScanSoFar
      <3>2. lacIndex' = 0 \/ lacValid'
        BY <1>2, <1>9, <2>1
      <3>3. pc' # "clear" /\ pc' # "answer"
        BY <1>10
      <3> QED BY <3>1, <3>2, <3>3 DEF ScanSoFar
    <2> QED BY <1>9, <1>10, <2>3 DEF DecodeInv
  <1>11. CASE pc' # "threw"
    <2>1. /\ ~fails /\ pc' = "operators" /\ ret' = Append(ret, info) /\ sent' = sent
          /\ lacIndex' = IF readsLac THEN lacIndex + 4 ELSE lacIndex
      BY <1>1, <1>7, <1>11
    <2>2. info \in Infos /\ Shown(op, info)
      <3>1. info \in Infos
        BY <1>6, <1>8, <2>1 DEF Infos
      <3>2. info.long = shown[1] /\ info.short = shown[2] /\ info.numeric = op.numeric /\ info.state = op.state
        OBVIOUS
      <3> HIDE DEF info
      <3> QED BY <1>6, <2>1, <3>1, <3>2 DEF Shown
    <2> HIDE DEF info
    <2>3. /\ ret' \in Seq(Infos) /\ Len(ret') = n + 1 /\ ret'[n + 1] = info
          /\ \A k \in 1..n : ret'[k] = ret[k]
      BY <1>2, <2>1, <2>2, AppendProperties
    <2>4. \A k \in 1..Len(ret') : Shown(sent'.ops[k], ret'[k])
      <3> SUFFICES ASSUME NEW k \in 1..(n + 1) PROVE Shown(sent.ops[k], ret'[k])
        BY <2>1, <2>3
      <3>1. CASE k \in 1..n
        BY <1>2, <2>3, <3>1
      <3>2. CASE k = n + 1
        BY <2>2, <2>3, <3>2 DEF op
      <3> QED BY <1>3, <3>1, <3>2
    <2>5. lacIndex' \in Nat /\ lacIndex' % 4 = 0 /\ lacIndex' <= 4 * Len(ret')
      <3>1. (lacIndex + 4) % 4 = 0
        BY <1>2
      <3>2. lacIndex' \in {lacIndex, lacIndex + 4}
        BY <2>1
      <3>3. lacIndex + 4 \in Nat /\ lacIndex + 4 <= 4 * (n + 1) /\ lacIndex <= 4 * (n + 1)
        BY <1>2, <1>3
      <3> QED BY <1>2, <2>3, <3>1, <3>2, <3>3
    <2>6. lacIndex' = 0 \/ lacValid'
      BY <1>2, <1>9, <2>1
    <2>7. Len(ret') <= Len(sent'.ops) /\ sent' \in Scans
      BY <1>2, <1>3, <2>1, <2>3
    <2>8. ScanSoFar'
      BY <2>1, <2>3, <2>4, <2>5, <2>6, <2>7 DEF ScanSoFar
    <2> QED BY <1>9, <2>1, <2>8 DEF DecodeInv
  <1> QED BY <1>10, <1>11

(* Every step keeps what has been converted so far right. *)
LEMMA DecodeNext == LacInv /\ DecodeInv /\ [Next]_vars => DecodeInv'
  <1> SUFFICES ASSUME LacInv, DecodeInv, [Next]_vars PROVE DecodeInv'
    OBVIOUS
  <1>1. NoLac \in Lacs
    BY LacAssumption DEF NoLac, Lacs
  <1>2. ASSUME UNCHANGED <<pc, sent, lacStr, lacIndex, ret>>, lac' \in Lacs, capability' \in Capabilities
        PROVE  DecodeInv'
    <2>1. ScanSoFar' = ScanSoFar
      BY <1>2 DEF ScanSoFar, lacValid
    <2>2. \A r \in Answers : OperatorAnswer(r)' = OperatorAnswer(r)
      BY <1>2 DEF OperatorAnswer
    <2> QED BY <1>2, <2>1, <2>2 DEF DecodeInv
  <1>3. ASSUME NEW scan \in Scans, responseOperatorInfos(scan) PROVE DecodeInv'
    <2>1. pc = "idle" /\ ret = <<>> /\ lacIndex = 0
      BY <1>3 DEF responseOperatorInfos, DecodeInv, OperatorAnswer
    <2>2. /\ sent' = scan /\ UNCHANGED <<lac, capability, lacIndex, ret>>
          /\ \/ (5 * Len(scan.ops) + scan.stray) % 5 # 0 /\ pc' = "threw" /\ lacStr' = lacStr
             \/ pc' = "clear" /\ lacStr' = lac
      BY <1>3 DEF responseOperatorInfos, props
    <2>3. scan.stray \in Nat /\ Len(scan.ops) \in Nat
      BY ScanTypes
    <2>4. (5 * Len(scan.ops) + scan.stray) % 5 = scan.stray % 5
      BY <2>3
    <2>6. /\ ret' \in Seq(Infos) /\ Len(ret') = 0 /\ ret' = <<>> /\ lacIndex' = 0
      BY <2>1, <2>2
    <2>7. pc' \in {"threw", "clear"}
      BY <2>2
    <2>8. ScanSoFar'
      BY <2>2, <2>3, <2>6, <2>7 DEF ScanSoFar
    <2>9. lac' \in Lacs /\ lacStr' \in Lacs /\ capability' \in Capabilities
      BY <2>2 DEF DecodeInv
    <2> QED BY <2>7, <2>8, <2>9 DEF DecodeInv
  <1>4. ASSUME NEW r \in Answers, responseOperator(r) PROVE DecodeInv'
    <2>1. pc = "idle" /\ ret = <<>> /\ lacIndex = 0
      BY <1>4 DEF responseOperator, DecodeInv, OperatorAnswer
    <2>2. /\ sent' = [response |-> r] /\ UNCHANGED <<lac, capability, lacStr, lacIndex>>
          /\ \/ pc' = "threw" /\ ret' = ret
             \/ ~ResponseThrows(r) /\ pc' = "answer" /\ ret' = Response(r)
      BY <1>4 DEF responseOperator, props
    <2>3. OperatorAnswer(r)'
      BY <2>1, <2>2 DEF OperatorAnswer
    <2>4. lac' \in Lacs /\ lacStr' \in Lacs /\ capability' \in Capabilities
      BY <2>2 DEF DecodeInv
    <2> QED BY <2>3, <2>4 DEF DecodeInv
  <1>5. CASE ClearLac
    <2>1. pc = "clear" /\ ScanSoFar
      BY <1>5 DEF ClearLac, DecodeInv, OperatorAnswer
    <2>2. pc' = "operators" /\ lac' = NoLac /\ UNCHANGED <<capability, sent, lacStr, lacIndex, ret>>
      BY <1>5 DEF ClearLac
    <2>3. ScanSoFar'
      BY <2>1, <2>2 DEF ScanSoFar, lacValid
    <2>4. lac' \in Lacs /\ lacStr' \in Lacs /\ capability' \in Capabilities
      BY <1>1, <2>2 DEF DecodeInv
    <2> QED BY <2>2, <2>3, <2>4 DEF DecodeInv
  <1>6. CASE Operator
    BY <1>6, OperatorKeeps
  <1>7. CASE Return
    <2>1. pc = "operators" /\ ScanSoFar /\ Len(ret) = Len(sent.ops)
      BY <1>7 DEF Return, DecodeInv, OperatorAnswer
    <2>2. pc' = "answer" /\ UNCHANGED <<lac, capability, sent, lacStr, lacIndex, ret>>
      BY <1>7 DEF Return, props
    <2>3. ScanSoFar'
      BY <2>1, <2>2 DEF ScanSoFar, lacValid
    <2>4. lac' \in Lacs /\ lacStr' \in Lacs /\ capability' \in Capabilities
      BY <2>2 DEF DecodeInv
    <2> QED BY <2>2, <2>3, <2>4 DEF DecodeInv
  <1>8. CASE Answered
    BY <1>1, <1>8 DEF Answered, DecodeInv, props
  <1>9. ASSUME NEW len \in LacLengths, NEW hex \in BOOLEAN, LacLeft(len, hex)
        PROVE  DecodeInv'
    <2>1. /\ lacs < MaxLacs /\ lac' = [len |-> len, hex |-> hex, id |-> lacs + 1]
          /\ UNCHANGED <<pc, sent, lacStr, lacIndex, ret, capability>>
      BY <1>9 DEF LacLeft
    <2>2. lacs + 1 \in 0..MaxLacs
      BY <2>1, LacAssumption DEF LacInv
    <2>3. lac' \in Lacs
      BY <2>1, <2>2 DEF Lacs
    <2>4. capability' \in Capabilities
      BY <2>1 DEF DecodeInv
    <2> QED BY <1>2, <2>1, <2>3, <2>4
  <1>10. ASSUME NEW c \in Capabilities, CapabilityChanges(c) PROVE DecodeInv'
    <2>1. capability' \in Capabilities /\ lac' = lac /\ UNCHANGED <<pc, sent, lacStr, lacIndex, ret>>
      BY <1>10 DEF CapabilityChanges
    <2> QED BY <1>2, <2>1 DEF DecodeInv
  <1>11. CASE UNCHANGED vars
    <2>1. UNCHANGED <<pc, sent, lacStr, lacIndex, ret, lac, capability>>
      BY <1>11 DEF vars, props
    <2> QED BY <1>2, <2>1 DEF DecodeInv
  <1> QED BY <1>3, <1>4, <1>5, <1>6, <1>7, <1>8, <1>9, <1>10, <1>11 DEF Next

(* Both invariants hold in every state. *)
LEMMA DecodeInvariance == Spec => [](LacInv /\ DecodeInv)
BY LacInit, LacNext, DecodeInit, DecodeNext, PTL DEF Spec

-----------------------------------------------------------------------------
(* What the invariant says in each state of the decoder. *)
LEMMA ScanState == DecodeInv /\ pc # "idle" /\ Scanning => ScanSoFar
  <1>1. \A r \in Answers : OperatorAnswer(r) => ~Scanning
    BY DEF OperatorAnswer, Scanning
  <1> QED BY <1>1 DEF DecodeInv

(* Outside a scan the state is an answer of responseOperator. *)
LEMMA AnswerState == DecodeInv /\ ~Scanning => \E r \in Answers : OperatorAnswer(r)
  <1>1. sent = NoAnswer => Scanning
    BY DEF NoAnswer, Scanning
  <1>2. sent \in Scans => Scanning
    BY ScanTypes DEF Scanning
  <1> QED BY <1>1, <1>2 DEF DecodeInv, ScanSoFar

(* The two invariants imply the types. *)
LEMMA TypeOf == LacInv /\ DecodeInv => TypeOK
  <1> SUFFICES ASSUME LacInv, DecodeInv PROVE TypeOK
    OBVIOUS
  <1>1. pc \in {"idle", "clear", "operators", "answer", "threw"}
    BY DEF DecodeInv, OperatorAnswer
  <1>2. /\ lac \in Lacs /\ lacStr \in Lacs /\ capability \in Capabilities
        /\ lacs \in 0..MaxLacs /\ applied \in Seq(1..MaxLacs)
    BY DEF DecodeInv, LacInv
  <1>3. lacStr.len \in Nat
    <2>1. lacStr.len \in LacLengths \cup {0}
      BY <1>2 DEF Lacs
    <2>2. LacLengths \cup {0} \subseteq Nat
      BY LacAssumption
    <2> QED BY <2>1, <2>2
  <1> DEFINE Typed == \A k \in 1..Len(ret) :
                        IF Scanning THEN {ret[k].long, ret[k].short, ret[k].numeric} \subseteq Strings
                        ELSE ret[k] \in Strings
  <1>4. /\ lacIndex % 4 = 0 /\ lacIndex <= lacStr.len
        /\ Typed
    <2>1. CASE pc = "idle" /\ sent = NoAnswer /\ ret = <<>> /\ lacIndex = 0
      BY <1>3, <2>1
    <2>2. CASE pc # "idle" /\ Scanning
      <3>1. ScanSoFar
        BY <2>2, ScanState
      <3>2. /\ sent \in Scans /\ ret \in Seq(Infos) /\ lacIndex \in Nat /\ lacIndex % 4 = 0
            /\ lacIndex <= 4 * Len(ret) /\ Len(ret) <= Len(sent.ops) /\ (lacIndex = 0 \/ lacValid)
        BY <3>1 DEF ScanSoFar
      <3>3. Len(sent.ops) \in Nat /\ Len(ret) \in Nat
        BY <3>2, ScanTypes, LenProperties
      <3>4. lacIndex <= lacStr.len
        <4>1. CASE lacIndex = 0
          BY <1>3, <4>1
        <4>2. CASE lacValid
          <5>1. lacStr.len % 4 = 0 /\ lacStr.len \div 4 = Len(sent.ops)
            BY <4>2 DEF lacValid
          <5>2. lacStr.len = 4 * Len(sent.ops)
            BY <1>3, <3>3, <5>1, LacLengthOf
          <5> QED BY <3>2, <3>3, <5>2
        <4> QED BY <3>2, <4>1, <4>2
      <3>5. \A k \in 1..Len(ret) : ret[k] \in Infos
        BY <3>2, ElementOfSeq
      <3>6. \A info \in Infos : {info.long, info.short, info.numeric} \subseteq Strings
        BY DEF Infos, Strings
      <3> QED BY <2>2, <3>2, <3>4, <3>5, <3>6
    <2>3. CASE ~Scanning
      <3>1. PICK r \in Answers : OperatorAnswer(r)
        BY <2>3, AnswerState
      <3>2. lacIndex = 0 /\ (ret = <<>> \/ (~ResponseThrows(r) /\ ret = Response(r)))
        BY <3>1 DEF OperatorAnswer
      <3>3. ret \in Seq(Strings)
        <4>1. <<>> \in Seq(Strings)
          OBVIOUS
        <4>2. ~ResponseThrows(r) /\ ret = Response(r) => ret \in Seq(Strings)
          BY ResponseNames
        <4> QED BY <3>2, <4>1, <4>2
      <3>4. \A k \in 1..Len(ret) : ret[k] \in Strings
        BY <3>3, ElementOfSeq
      <3> QED BY <1>3, <2>3, <3>2, <3>4
    <2>4. pc = "idle" => sent = NoAnswer /\ ret = <<>> /\ lacIndex = 0
      BY DEF DecodeInv, OperatorAnswer
    <2> QED BY <2>1, <2>2, <2>3, <2>4
  <1> HIDE DEF Typed
  <1>5. /\ lac \in [len : LacLengths \cup {0}, hex : BOOLEAN, id : 0..MaxLacs]
        /\ lacStr \in [len : LacLengths \cup {0}, hex : BOOLEAN, id : 0..MaxLacs]
    BY <1>2 DEF Lacs
  <1> QED BY <1>1, <1>2, <1>4, <1>5 DEF TypeOK, Typed

(* The types: whatever the decoder hands on is made of Java strings, and   *)
(* an area code never starts beyond the end of the string.                 *)
THEOREM TypeCorrect == Spec => []TypeOK
BY DecodeInvariance, TypeOf, PTL

(* At the end of a scan, what is right so far is right for all operators. *)
LEMMA ScanFaithfulOf == DecodeInv => ScanFaithful
  <1> SUFFICES ASSUME DecodeInv, Scanning, pc = "answer"
               PROVE  /\ Len(ret) = Len(sent.ops)
                      /\ \A k \in 1..Len(ret) : Shown(sent.ops[k], ret[k])
    BY DEF ScanFaithful, Shown
  <1>1. ScanSoFar
    BY ScanState
  <1> QED BY <1>1 DEF ScanSoFar

(* A scan that is answered has every operator, in order, under its own     *)
(* code and state and the names it should have, for any scan, table and    *)
(* change of the capability between two operators.                         *)
THEOREM ScansAreFaithful == Spec => []ScanFaithful
BY DecodeInvariance, ScanFaithfulOf, PTL

(* An exception of the loop comes from the operator it has come to, never  *)
(* from its area code: each operator before it took four characters or     *)
(* none, and there are four for every operator.                            *)
LEMMA OperatorThrows ==
    ASSUME DecodeInv, Operator, pc' = "threw", lacStr.hex
    PROVE  pc = "operators" /\ Unreadable(sent.ops[Len(ret) + 1], capability)
  <1>1. pc = "operators" /\ ScanSoFar /\ Len(ret) < Len(sent.ops)
    BY DEF DecodeInv, Operator, OperatorAnswer
  <1>2. /\ sent \in Scans /\ ret \in Seq(Infos) /\ lacIndex \in Nat
        /\ lacIndex <= 4 * Len(ret) /\ (lacIndex = 0 \/ lacValid)
    BY <1>1 DEF ScanSoFar
  <1> DEFINE n == Len(ret)
             op == sent.ops[n + 1]
             names == Names(op.long, op.short, op.numeric)
             shown == [i \in 1..2 |-> WithRat(names[i], op.rat, capability)]
             readsLac == lacValid /\ op.long # null
             fails == thrown \in {names[1], shown[1], shown[2]}
  <1>3. /\ sent.ops \in Seq(OperatorStrings) /\ Len(sent.ops) \in Nat /\ n \in Nat
        /\ n + 1 \in 1..Len(sent.ops)
    BY <1>1, <1>2, ScanTypes, LenProperties
  <1>4. op \in OperatorStrings /\ Meant(op.long)
    BY <1>2, <1>3, ScanTypes
  <1>5. capability \in Nat /\ lacStr \in Lacs /\ lacStr.len \in Nat
    <2>1. capability \in Nat /\ lacStr \in Lacs
      BY CapabilityAssumption DEF DecodeInv
    <2>2. lacStr.len \in LacLengths \cup {0}
      BY <2>1 DEF Lacs
    <2>3. LacLengths \cup {0} \subseteq Nat
      BY LacAssumption
    <2> QED BY <2>1, <2>2, <2>3
  <1>6. fails => Unreadable(op, capability)
    BY <1>4, <1>5, OperatorNames
  <1>7. fails \/ (readsLac /\ LacThrows)
    BY <1>1 DEF Operator
  <1> HIDE DEF op, names, shown, fails
  <1>8. ~(lacValid /\ LacThrows)
    <2>1. ASSUME lacValid PROVE lacStr.len = 4 * Len(sent.ops)
      <3>1. lacStr.len % 4 = 0 /\ lacStr.len \div 4 = Len(sent.ops)
        BY <2>1 DEF lacValid
      <3> QED BY <1>3, <1>5, <3>1, LacLengthOf
    <2>2. lacIndex + 4 <= 4 * Len(sent.ops)
      BY <1>1, <1>2, <1>3, SMTT(40)
    <2> QED BY <1>2, <1>5, <2>1, <2>2 DEF LacThrows
  <1> QED BY <1>1, <1>6, <1>7, <1>8 DEF op

(* The steps that end in an exception: strings left over at the start, or  *)
(* an operator of the loop.                                                *)
LostRightly ==
    pc # "threw" /\ pc' = "threw" /\ Scanning' /\ lacStr'.hex =>
      \/ sent'.stray % 5 # 0
      \/ pc = "operators" /\ Unreadable(sent.ops[Len(ret) + 1], capability)

LEMMA LacHarmlessStep == DecodeInv /\ [Next]_vars => [LostRightly]_vars
  <1> SUFFICES ASSUME DecodeInv, Next, pc # "threw", pc' = "threw", Scanning', lacStr'.hex
               PROVE  \/ sent'.stray % 5 # 0
                      \/ pc = "operators" /\ Unreadable(sent.ops[Len(ret) + 1], capability)
    BY DEF LostRightly
  <1>1. CASE Operator
    <2>1. lacStr' = lacStr BY <1>1 DEF Operator
    <2> QED BY <1>1, <2>1, OperatorThrows
  <1>2. ASSUME NEW scan \in Scans, responseOperatorInfos(scan) PROVE sent'.stray % 5 # 0
    <2>1. sent' = scan /\ (5 * Len(scan.ops) + scan.stray) % 5 # 0
      BY <1>2 DEF responseOperatorInfos
    <2>2. scan.stray \in Nat /\ Len(scan.ops) \in Nat
      BY <1>2, ScanTypes
    <2> QED BY <2>1, <2>2
  <1>3. ASSUME NEW r \in Answers, responseOperator(r) PROVE FALSE
    BY <1>3 DEF responseOperator, Scanning
  <1>4. ~ClearLac /\ ~Return /\ ~Answered
    BY DEF ClearLac, Return, Answered
  <1>5. /\ ~\E len \in LacLengths, hex \in BOOLEAN : LacLeft(len, hex)
        /\ ~\E c \in Capabilities : CapabilityChanges(c)
    BY DEF LacLeft, CapabilityChanges
  <1> QED BY <1>1, <1>2, <1>3, <1>4, <1>5 DEF Next

(* Hexadecimal area codes never cost a scan, whatever their number,        *)
(* whenever the daemon leaves them, and however operators with and without *)
(* a name alternate; below capability 4 a missing name costs none either.  *)
THEOREM AreaCodesHarmless == Spec => LacHarmless
  <1>1. LacHarmless <=> [][LostRightly]_vars BY DEF LacHarmless, LostRightly
  <1>2. DecodeInv /\ [Next]_vars => [LostRightly]_vars BY LacHarmlessStep
  <1> QED BY <1>1, <1>2, DecodeInvariance, PTL DEF Spec

(* An answer of responseOperator follows the rules of a scan. *)
LEMMA OperatorNamedOf == DecodeInv => OperatorNamed
  <1> SUFFICES ASSUME DecodeInv, ~Scanning, pc = "answer"
               PROVE  LET r == sent.response IN
                      \/ r[1] = null /\ ret = r
                      \/ /\ Len(ret) = Len(r) /\ SubSeq(ret, 3, Len(r)) = SubSeq(r, 3, Len(r))
                         /\ Named(r[1], r[2], r[3], <<>>, SubSeq(ret, 1, 2))
    BY DEF OperatorNamed
  <1>1. PICK r \in Answers : OperatorAnswer(r)
    BY AnswerState
  <1>2. sent.response = r /\ ~ResponseThrows(r) /\ ret = Response(r)
    BY <1>1 DEF OperatorAnswer
  <1> QED BY <1>2, ResponseNames

(* The current operator is named by the rules of a scan, and the rest of   *)
(* the array is passed on as it came.                                      *)
THEOREM OperatorsNamed == Spec => []OperatorNamed
BY DecodeInvariance, OperatorNamedOf, PTL
=============================================================================
