------------------------- MODULE MCOperatorInfos --------------------------
(* Constants of OperatorInfos for TLC: names sent in every encoding, names *)
(* that cannot be decoded, no names, and operators in and out of the table.*)
EXTENDS OperatorInfos

A == <<65>>
Umlaut == <<235, 65>>
Known == <<50, 54>>
Unknown == <<57, 57>>
SmallTexts == {<<>>, A, Umlaut, Known, Unknown}
SmallTable == [numeric \in {Known} |-> Umlaut]

Odd == uCs2 \o <<48, 48, 52>>
NoDigits == uCs2 \o <<71, 48, 48, 48>>

Op(long, short, numeric, state) ==
    [long |-> long, short |-> short, numeric |-> numeric, state |-> state, rat |-> <<51, 71>>]

Operators ==
    {Op(long, A, Known, "current") : long \in Encodings(Umlaut) \cup Encodings(Known)
                                              \cup {<<>>, Encode(<<>>, 65), null, Odd, NoDigits}}
    \cup {Op(long, short, Unknown, "forbidden") : long \in {A, Unknown}, short \in {Encode(A, 65), null}}

SmallScans ==
    [ops : {<<>>} \cup {<<o>> : o \in Operators} \cup {<<o, p>> : o, p \in Operators},
     stray : {0, 3}]

SmallAnswers ==
    {<<>>, <<null>>, <<A>>, <<A, A>>, <<null, null, null>>, <<Odd, A, Known>>, <<NoDigits, A, Known>>}
    \cup {<<long, short, numeric, A>> : long \in UNION {Encodings(text) : text \in SmallTexts},
                                        short \in {A, null}, numeric \in {Known, Unknown}}
=============================================================================
