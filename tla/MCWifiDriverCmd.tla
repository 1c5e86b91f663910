-------------------------- MODULE MCWifiDriverCmd ---------------------------
(* Numbers and replies for TLC: both ends of the numbers that fit, and one *)
(* that does not; replies with another value for every attribute, with the *)
(* signal at both ends and just below the zero of its scale, counts at     *)
(* their largest, and with attributes missing; a count of missing          *)
(* acknowledgements below zero.                                            *)
EXTENDS WifiDriverCmd, TLC

Symmetry == Permutations(Aps)

AllFeatures == {"WAPI_SUPPORT", "MTK_P2P_SIGMA", "MEDIATEK_WIFI_BEAM", "MTK_POOR_LINK_DETECT"}
EndNumbers == {0, 255, 256}

Classes(top, n) == [tc \in 1..4 |-> <<top, n + tc>>]
FullReply(signal, rate, top) ==
    [VERSION |-> 1, MAC |-> "mac", LINK_SCORE |-> 2, FLAG |-> <<1, 3>>, PER |-> 4, RSSI |-> signal,
     PHY_MODE |-> <<0, 5>>, TX_RATE |-> rate, TOTAL_CNT |-> <<top, 6>>, THRESHOLD_CNT |-> <<top, 7>>,
     AVG_PROCESS_TIME |-> <<top, 8>>, FAIL_CNT |-> <<top, 0>>, TIMEOUT_CNT |-> <<top, 9>>,
     AVG_AIR_TIME |-> <<top, 2147483647>>, TC_EMPTY_CNT_ARRAY |-> Classes(top, 10),
     TC_QUE_LEN_ARRAY |-> Classes(top, 20), TC_AVG_QUE_LEN_ARRAY |-> Classes(top, 30),
     TC_CUR_QUE_LEN_ARRAY |-> Classes(top, 40), RESERVED_ARRAY |-> <<"r0", "r1">>]
Without(reply, attributes) == [a \in DOMAIN reply \ attributes |-> reply[a]]
SomeStatistics ==
    {FullReply(219, 65535, 1), FullReply(255, 108, 0),
     Without(FullReply(0, 109, 0), {"PER", "FAIL_CNT", "RESERVED_ARRAY"})}

FullLink(missing) ==
    [TX_FAIL_CNT |-> 1, TX_RETRY_CNT |-> 2, TX_MULTI_RETRY_CNT |-> 3, ACK_FAIL_CNT |-> missing,
     FCS_ERR_CNT |-> 5, TX_CNT |-> 6, TX_OK_CNT |-> 7, TX_OS_CNT |-> 8]
SomeLinks == {Without(FullLink(-4), {"FCS_ERR_CNT"})}
=============================================================================
