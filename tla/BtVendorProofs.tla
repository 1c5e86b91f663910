--------------------------- MODULE BtVendorProofs ---------------------------
(***************************************************************************)
(* Proofs about the Bluetooth vendor library, for any set of descriptors   *)
(* and any number of sessions.                                             *)
(*                                                                         *)
(* mtk_cleanup keeps mtklib_handle and both function pointers, mtk_close   *)
(* keeps hci_tty_fd.  The invariants say why that does no harm: what is    *)
(* stale is renewed before it is used again.                               *)
(***************************************************************************)
EXTENDS BtVendor, TLAPS

(* All definitions of the globals' tuples. *)
USE DEF lib, NoFd, Die, Callable, Alive

(* Counting references. *)
LEMMA RefCount ==
    \A r \in Nat : \A q : q = r \/ q = r + 1 \/ (r > 0 /\ q = r - 1) => q \in Nat
OBVIOUS

(* Closing the only reference. *)
LEMMA LastRef == \A r, q : r \in {0, 1} /\ r > 0 /\ q = r - 1 => q = 0
OBVIOUS

(* Every action of the library and its environment keeps the types.  The   *)
(* loader's reference count is the only part that needs an argument: it is *)
(* decremented only when it is positive.                                   *)
LEMMA TypeStep == TypeOK /\ [Next]_vars => TypeOK'
  <1> SUFFICES ASSUME TypeOK, [Next]_vars PROVE TypeOK' OBVIOUS
  <1> USE DEF TypeOK, Blamed, Again, Outside, PortOpen, PortNotOpen
  <1>1. CASE UNCHANGED vars BY <1>1 DEF vars
  <1>2. CASE mtk_init_null BY <1>2 DEF mtk_init_null
  <1>3. CASE mtk_init_nolib BY <1>3 DEF mtk_init_nolib
  <1>4. CASE mtk_init
    <2>1. PICK found \in SUBSET {"enable", "disable"} :
            /\ mtk_bt_enable' = IF "enable" \in found THEN "sym" ELSE "NULL"
            /\ mtk_bt_disable' = IF "disable" \in found THEN "sym" ELSE "NULL"
            /\ refs' = IF found = {"enable", "disable"} THEN refs + 1 ELSE refs
      BY <1>4 DEF mtk_init
    <2>2. refs' \in Nat BY <2>1, RefCount, Zenon
    <2> QED BY <1>4, <2>1, <2>2 DEF mtk_init
  <1>5. CASE mtk_cleanup
    <2>1. refs' = refs \/ (refs > 0 /\ refs' = refs - 1) BY <1>5 DEF mtk_cleanup
    <2>2. refs' \in Nat BY <2>1, RefCount, Zenon
    <2>3. misuse' \subseteq {"dlclose", "stale_fd", "bad_call", "callback"}
      BY <1>5 DEF mtk_cleanup
    <2>4. stack' \in {"down", "up", "dead"} BY <1>5 DEF mtk_cleanup
    <2> QED BY <1>5, <2>2, <2>3, <2>4 DEF mtk_cleanup
  <1>6. CASE mtk_open BY <1>6 DEF mtk_open
  <1>7. CASE mtk_close BY <1>7 DEF mtk_close
  <1>8. CASE CallFault BY <1>8 DEF CallFault
  <1>9. CASE Restart BY <1>9 DEF Restart
  <1>10. ASSUME NEW op, mtk_op_callback(op) PROVE TypeOK' BY <1>10 DEF mtk_op_callback
  <1>11. ASSUME NEW op, mtk_op_other(op) PROVE TypeOK' BY <1>11 DEF mtk_op_other
  <1> QED BY <1>1, <1>2, <1>3, <1>4, <1>5, <1>6, <1>7, <1>8, <1>9, <1>10, <1>11 DEF Next

(* The globals of the library keep their types, whatever the loader, the   *)
(* blob and the stack do.                                                  *)
THEOREM TypeCorrect == Spec => []TypeOK
  <1>1. Init => TypeOK BY DEF Init, TypeOK
  <1> QED BY <1>1, TypeStep, PTL DEF Spec

-----------------------------------------------------------------------------
(* The loader's reference and what hangs on it *)

(* While the stack keeps its sessions apart there is at most one reference *)
(* on the blob, none between sessions and none without a handle, and       *)
(* during a session the callbacks are set, whatever failed.  While the     *)
(* loader has not failed either, everything a session may call is there.   *)
LoaderInv ==
    "session" \notin blame =>
        /\ refs \in {0, 1}
        /\ stack = "down" \/ mtklib_handle = "NULL" => refs = 0
        /\ stack = "up" => bt_vendor_cbacks = "set"
        /\ "callback" \notin misuse
        /\ "loader" \notin blame =>
               /\ "bad_call" \notin misuse /\ "dlclose" \notin misuse
               /\ stack = "up" => /\ refs = 1 /\ mtklib_handle = "lib"
                                  /\ mtk_bt_enable = "sym" /\ mtk_bt_disable = "sym"

(* What a step says of the stack unless it is to blame: a call is made     *)
(* inside of a session, an init outside of it, and the port is open, or    *)
(* not, as the call wants it.  Blame is never taken back.                  *)
LEMMA Innocent ==
    ASSUME TypeOK, NEW S, blame' = blame \cup S
    PROVE  /\ blame \subseteq blame'
           /\ \A who \in S : who \in blame'
           /\ "session" \in Again <=> stack = "up"
           /\ "session" \in Outside <=> stack # "up"
           /\ "port" \in PortOpen <=> serial = "open"
           /\ "port" \in PortNotOpen <=> serial # "open"
  BY Zenon DEF Again, Outside, PortOpen, PortNotOpen

(* A step keeps LoaderInv.                                                 *)
LEMMA LoaderStep == TypeOK /\ LoaderInv /\ [Next]_vars => LoaderInv'
  <1> SUFFICES ASSUME TypeOK, LoaderInv, [Next]_vars, "session" \notin blame' PROVE LoaderInv'
    BY DEF LoaderInv
  <1> USE DEF LoaderInv
  <1>1. CASE UNCHANGED vars BY <1>1 DEF vars
  <1>2. CASE mtk_init_null BY <1>2 DEF mtk_init_null
  <1>3. CASE mtk_init_nolib
    <2>1. blame' = blame \cup ({"loader"} \cup Again) BY <1>3 DEF mtk_init_nolib, Blamed
    <2>2. "loader" \in blame' /\ stack = "down" /\ "session" \notin blame
      BY <1>3, <2>1, Innocent DEF mtk_init_nolib, TypeOK
    <2> QED BY <1>3, <2>2 DEF mtk_init_nolib
  <1>4. CASE mtk_init
    <2>1. PICK found \in SUBSET {"enable", "disable"} :
            /\ blame' = blame \cup (Again \cup IF found = {"enable", "disable"} THEN {}
                                               ELSE {"loader"})
            /\ mtk_bt_enable' = IF "enable" \in found THEN "sym" ELSE "NULL"
            /\ mtk_bt_disable' = IF "disable" \in found THEN "sym" ELSE "NULL"
            /\ refs' = IF found = {"enable", "disable"} THEN refs + 1 ELSE refs
      BY <1>4 DEF mtk_init, Blamed
    <2>2. /\ stack = "down" /\ "session" \notin blame /\ blame \subseteq blame'
          /\ found # {"enable", "disable"} => "loader" \in blame'
      BY <1>4, <2>1, Innocent DEF mtk_init, TypeOK
    <2>3. refs = 0 /\ "callback" \notin misuse BY <2>2
    <2>4. /\ misuse' = misuse /\ stack' = "up" /\ mtklib_handle' = "lib"
          /\ bt_vendor_cbacks' = "set"
      BY <1>4 DEF mtk_init
    <2>5. CASE found = {"enable", "disable"}
      <3>1. mtk_bt_enable' = "sym" /\ mtk_bt_disable' = "sym" BY <2>1, <2>5
      <3>2. refs' = refs + 1 BY <2>1, <2>5, Zenon
      <3>3. refs' = 1 BY <2>3, <3>2
      <3>4. "loader" \notin blame' => "bad_call" \notin misuse /\ "dlclose" \notin misuse
        BY <2>2
      <3> QED BY <2>3, <2>4, <3>1, <3>3, <3>4
    <2>6. CASE found # {"enable", "disable"}
      <3>1. refs' = 0 BY <2>1, <2>3, <2>6, Zenon
      <3> QED BY <2>2, <2>3, <2>4, <2>6, <3>1
    <2> QED BY <2>5, <2>6
  <1>5. CASE mtk_cleanup
    <2>1. blame' = blame \cup (Outside \cup PortOpen) BY <1>5 DEF mtk_cleanup, Blamed
    <2>2. stack = "up" /\ "session" \notin blame /\ blame \subseteq blame'
      BY <2>1, Innocent
    <2>3. /\ refs \in {0, 1} /\ "callback" \notin misuse
          /\ mtklib_handle = "NULL" => refs = 0
          /\ "loader" \notin blame' => /\ "bad_call" \notin misuse /\ "dlclose" \notin misuse
                                       /\ refs = 1
      BY <2>2
    <2>4. stack' \in {"down", "dead"} BY <1>5 DEF mtk_cleanup
    <2>5. CASE refs > 0 /\ refs' = refs - 1 /\ misuse' = misuse
      <3>1. refs' = 0 BY <2>3, <2>5, LastRef
      <3> QED BY <2>3, <2>4, <2>5, <3>1
    <2>6. CASE refs = 0 /\ refs' = refs /\ (misuse' = misuse \/ misuse' = misuse \cup {"dlclose"})
      <3>1. "callback" \notin misuse' BY <2>3, <2>6
      <3>2. "loader" \in blame' BY <2>3, <2>6
      <3> QED BY <2>4, <2>6, <3>1, <3>2
    <2> QED BY <1>5, <2>3, <2>5, <2>6 DEF mtk_cleanup
  <1>6. CASE mtk_open
    <2>1. blame' = blame \cup (Outside \cup PortOpen) BY <1>6 DEF mtk_open, Blamed
    <2>2. stack = "up" /\ blame \subseteq blame' BY <2>1, Innocent
    <2>3. UNCHANGED <<lib, bt_vendor_cbacks, stack, misuse>> BY <1>6 DEF mtk_open
    <2> QED BY <2>2, <2>3
  <1>7. CASE mtk_close
    <2>1. blame' = blame \cup (Outside \cup PortNotOpen) BY <1>7 DEF mtk_close, Blamed
    <2>2. stack = "up" /\ blame \subseteq blame' BY <2>1, Innocent
    <2>3. UNCHANGED <<lib, bt_vendor_cbacks, stack>> BY <1>7 DEF mtk_close
    <2>4. \A what \in {"callback", "bad_call", "dlclose"} : what \notin misuse => what \notin misuse'
      BY <1>7 DEF mtk_close
    <2> QED BY <2>2, <2>3, <2>4
  <1>8. CASE CallFault
    <2>1. /\ stack' = "dead" /\ misuse' = misuse \cup {"bad_call"}
          /\ UNCHANGED <<lib, bt_vendor_cbacks>>
          /\ ~Callable(mtk_bt_enable) \/ ~Callable(mtk_bt_disable)
          /\ \E who : blame' = blame \cup (Outside \cup who)
      BY <1>8, Zenon DEF CallFault, Blamed
    <2>2. stack = "up" /\ blame \subseteq blame' BY <2>1, Innocent
    <2>3. /\ refs \in {0, 1} /\ "callback" \notin misuse /\ (mtklib_handle = "NULL" => refs = 0)
          /\ "loader" \notin blame =>
               refs = 1 /\ mtk_bt_enable = "sym" /\ mtk_bt_disable = "sym"
      BY <2>2
    <2>4. "loader" \in blame BY <2>1, <2>3
    <2>5. "callback" \notin misuse' BY <2>1, <2>3
    <2> QED BY <2>1, <2>2, <2>3, <2>4, <2>5
  <1>9. CASE Restart BY <1>9 DEF Restart
  <1>10. ASSUME NEW op, mtk_op_callback(op) PROVE LoaderInv'
    <2>1. blame' = blame \cup Outside BY <1>10 DEF mtk_op_callback, Blamed
    <2>2. stack = "up" /\ "session" \notin blame /\ blame \subseteq blame' BY <2>1, Innocent
    <2>3. UNCHANGED <<lib, bt_vendor_cbacks, stack, misuse>> BY <1>10, <2>2 DEF mtk_op_callback
    <2> QED BY <2>2, <2>3
  <1>11. ASSUME NEW op, mtk_op_other(op) PROVE LoaderInv' BY <1>11 DEF mtk_op_other
  <1> QED BY <1>1, <1>2, <1>3, <1>4, <1>5, <1>6, <1>7, <1>8, <1>9, <1>10, <1>11 DEF Next

(* The loader's invariant holds always. *)
LEMMA LoaderSafe == Spec => []LoaderInv
  <1>1. Init => LoaderInv BY DEF Init, LoaderInv
  <1> QED BY <1>1, TypeCorrect, LoaderStep, PTL DEF Spec

(* Always, with every failure of dlopen and dlsym: no session leaves the   *)
(* blob mapped, and a session over a blob that loads keeps it mapped,      *)
(* unless the stack mixes up init and cleanup.                             *)
THEOREM LibraryReleased == Spec => []NoLibraryLeak
  <1>1. LoaderInv => NoLibraryLeak BY DEF LoaderInv, NoLibraryLeak
  <1> QED BY <1>1, LoaderSafe, PTL

-----------------------------------------------------------------------------
(* The descriptor *)

(* While the stack keeps its sessions apart and its opens and closes in    *)
(* pairs, hci_tty_fd is the one open descriptor exactly while the stack    *)
(* has the port open, although mtk_close never resets it.                  *)
PortInv ==
    "session" \notin blame /\ "port" \notin blame =>
        /\ stack = "down" => serial = "none"
        /\ serial = "open" => hci_tty_fd # -1 /\ enabled = {hci_tty_fd}
        /\ serial # "open" => enabled = {}
        /\ "stale_fd" \notin misuse

(* A step keeps PortInv. *)
LEMMA PortStep == TypeOK /\ PortInv /\ [Next]_vars => PortInv'
  <1> SUFFICES ASSUME TypeOK, PortInv, [Next]_vars, "session" \notin blame', "port" \notin blame'
               PROVE  PortInv'
    BY DEF PortInv
  <1> USE DEF PortInv
  <1>1. CASE UNCHANGED vars BY <1>1 DEF vars
  <1>2. CASE mtk_init_null BY <1>2 DEF mtk_init_null
  <1>3. CASE mtk_init_nolib
    <2>1. blame' = blame \cup ({"loader"} \cup Again) BY <1>3 DEF mtk_init_nolib, Blamed
    <2>2. blame \subseteq blame' BY <2>1
    <2> QED BY <1>3, <2>2 DEF mtk_init_nolib
  <1>4. CASE mtk_init
    <2>1. blame \subseteq blame' BY <1>4 DEF mtk_init, Blamed
    <2>2. stack' = "up" /\ UNCHANGED <<hci_tty_fd, enabled, serial, misuse>>
      BY <1>4 DEF mtk_init
    <2> QED BY <2>1, <2>2
  <1>5. CASE mtk_cleanup
    <2>1. blame' = blame \cup (Outside \cup PortOpen) BY <1>5 DEF mtk_cleanup, Blamed
    <2>2. serial # "open" /\ blame \subseteq blame' BY <2>1, Innocent
    <2>3. misuse' = misuse \/ misuse' = misuse \cup {"dlclose"} BY <1>5 DEF mtk_cleanup
    <2>4. "stale_fd" \notin misuse' BY <2>2, <2>3
    <2>5. serial' = "none" /\ UNCHANGED <<hci_tty_fd, enabled>> BY <1>5 DEF mtk_cleanup
    <2> QED BY <2>2, <2>4, <2>5
  <1>6. CASE mtk_open
    <2>1. blame' = blame \cup (Outside \cup PortOpen) BY <1>6 DEF mtk_open, Blamed
    <2>2. stack = "up" /\ serial # "open" /\ blame \subseteq blame' BY <2>1, Innocent
    <2>3. enabled = {} /\ "stale_fd" \notin misuse BY <2>2
    <2>4. UNCHANGED <<stack, misuse>> BY <1>6 DEF mtk_open
    <2>5. CASE serial' = "failed" /\ enabled' = enabled BY <2>2, <2>3, <2>4, <2>5
    <2>6. ASSUME NEW fd \in Fds, enabled' = enabled \cup {fd}, hci_tty_fd' = fd, serial' = "open"
          PROVE  PortInv'
      <3>1. enabled' = {fd} BY <2>3, <2>6
      <3>2. fd # -1 BY FdsAssumption
      <3> QED BY <2>2, <2>3, <2>4, <2>6, <3>1, <3>2
    <2> QED BY <1>6, <2>5, <2>6 DEF mtk_open
  <1>7. CASE mtk_close
    <2>1. blame' = blame \cup (Outside \cup PortNotOpen) BY <1>7 DEF mtk_close, Blamed
    <2>2. stack = "up" /\ serial = "open" /\ blame \subseteq blame' BY <2>1, Innocent
    <2>3. hci_tty_fd # -1 /\ enabled = {hci_tty_fd} /\ "stale_fd" \notin misuse BY <2>2
    <2>4. enabled' = {} /\ UNCHANGED <<misuse, stack>> BY <1>7, <2>3 DEF mtk_close
    <2>5. serial' = "none" BY <1>7 DEF mtk_close
    <2> QED BY <2>2, <2>3, <2>4, <2>5
  <1>8. CASE CallFault
    <2>1. /\ stack' = "dead" /\ misuse' = misuse \cup {"bad_call"}
          /\ UNCHANGED <<hci_tty_fd, enabled, serial>>
          /\ \E who : blame' = blame \cup who
      BY <1>8, Zenon DEF CallFault, Blamed
    <2>2. blame \subseteq blame' BY <2>1
    <2>3. "stale_fd" \notin misuse' BY <2>1, <2>2
    <2> QED BY <2>1, <2>2, <2>3
  <1>9. CASE Restart BY <1>9 DEF Restart
  <1>10. ASSUME NEW op, mtk_op_callback(op) PROVE PortInv'
    <2>1. blame' = blame \cup Outside BY <1>10 DEF mtk_op_callback, Blamed
    <2>2. stack = "up" /\ blame \subseteq blame' BY <2>1, Innocent
    <2>3. misuse' = misuse \/ misuse' = misuse \cup {"callback"} BY <1>10 DEF mtk_op_callback
    <2>4. "stale_fd" \notin misuse' BY <2>2, <2>3
    <2>5. stack' \in {"up", "dead"} /\ UNCHANGED <<hci_tty_fd, enabled, serial>>
      BY <1>10, <2>2 DEF mtk_op_callback
    <2> QED BY <2>2, <2>4, <2>5
  <1>11. ASSUME NEW op, mtk_op_other(op) PROVE PortInv' BY <1>11 DEF mtk_op_other
  <1> QED BY <1>1, <1>2, <1>3, <1>4, <1>5, <1>6, <1>7, <1>8, <1>9, <1>10, <1>11 DEF Next

(* The port's invariant holds always. *)
LEMMA PortSafe == Spec => []PortInv
  <1>1. Init => PortInv BY DEF Init, PortInv
  <1> QED BY <1>1, TypeCorrect, PortStep, PTL DEF Spec

(* A careful session leaves no descriptor of the blob open, also when the  *)
(* loader failed: mtk_close disables the one the last mtk_open obtained.   *)
THEOREM DescriptorsReleased == Spec => []NoDescriptorLeak
  <1>1. PortInv => NoDescriptorLeak BY DEF PortInv, NoDescriptorLeak
  <1> QED BY <1>1, PortSafe, PTL

(* Over any number of sessions nothing stale is used without a cause       *)
(* outside the library: no call into an unmapped blob and no dlclose of it *)
(* unless the loader failed or the stack mixed up init and cleanup, no     *)
(* disable of a descriptor that is not open unless the stack closed what   *)
(* it had not opened, no answer through cleared callbacks in a session.    *)
THEOREM SessionsSafe == Spec => []NoMisuse
  <1>1. LoaderInv /\ PortInv => NoMisuse BY DEF LoaderInv, PortInv, NoMisuse
  <1> QED BY <1>1, LoaderSafe, PortSafe, PTL
=============================================================================
