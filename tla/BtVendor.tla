------------------------------ MODULE BtVendor ------------------------------
(***************************************************************************)
(* The Bluetooth vendor library, libbt-vendor-mtk/libbt-vendor-mtk.c: a    *)
(* shim that loads the vendor blob libbluetoothdrv.so and forwards the     *)
(* stack's USERIAL_OPEN and USERIAL_CLOSE to its mtk_bt_enable and         *)
(* mtk_bt_disable.                                                         *)
(*                                                                         *)
(* External, modelled from how the library uses them: the dynamic loader   *)
(* (a reference count per library; dlclose of a library nobody holds is an *)
(* error), the blob (enable yields a new descriptor or fails, disable      *)
(* closes the one it is given), and the stack, one thread.  A session goes *)
(* from init to cleanup; the loader may fail and the stack may be careless *)
(* and make any call at any time: `blame' remembers who was.               *)
(***************************************************************************)
EXTENDS Integers, FiniteSets

CONSTANTS
    Fds,        \* BOUND: descriptors the blob can hand out
    MaxRefs     \* BOUND: references on the blob, more than one only when
                \* the stack initialises again and again without a cleanup

ASSUME FdsAssumption == Fds \subseteq Nat
ASSUME MaxRefsAssumption == MaxRefs \in Nat \ {0}

NoOps == {"POWER_CTRL", "SCO_CFG", "LPM_SET_MODE", "LPM_WAKE_SET_STATE", "unknown"}
WL_DEFAULT_LPM_IDLE_TIMEOUT == 200
BT_HC_STATUS_FAIL == 1

(* Mutant: "no descriptor" is 0. *)
NoFd_Zero == 0

(* The initial value of hci_tty_fd. *)
NoFd == -1

VARIABLES
    mtklib_handle,    \* "NULL" or "lib"
    hci_tty_fd,       \* -1 or the descriptor of the last successful open
    mtk_bt_enable,    \* "NULL" or "sym", an address inside the blob
    mtk_bt_disable,
    bt_vendor_cbacks, \* "NULL" or "set"
    refs,             \* the loader's references on the blob; mapped iff > 0
    enabled,          \* descriptors the blob has open
    stack,            \* "down", "up" in a session, "dead" after a crash
    serial,           \* the stack's last open of this session: "none", "failed", "open"
    misuse,           \* what has gone wrong in this process
    blame,            \* what else went wrong before: "loader", "session"
                      \* or "port"
    told              \* the last thing reported to the stack

lib == <<mtklib_handle, mtk_bt_enable, mtk_bt_disable, refs>>
vars == <<lib, hci_tty_fd, bt_vendor_cbacks, enabled, stack, serial, misuse, blame, told>>

Init ==
    /\ mtklib_handle = "NULL" /\ hci_tty_fd = NoFd
    /\ mtk_bt_enable = "NULL" /\ mtk_bt_disable = "NULL"
    /\ bt_vendor_cbacks = "NULL"
    /\ refs = 0 /\ enabled = {}
    /\ stack = "down" /\ serial = "none"
    /\ misuse = {} /\ blame = {} /\ told = [nothing |-> 0]

(* A wild call or a dlclose of a library that is gone ends the process. *)
Die(why) == misuse' = misuse \cup {why} /\ stack' = "dead"

Alive == stack # "dead"

(* A careful stack initialises once per session, calls everything else     *)
(* inside of it, opens one port at a time, closes only what it opened, and *)
(* closes it before it cleans up.                                          *)
Blamed(who) == blame' = blame \cup who
Again == IF stack = "up" THEN {"session"} ELSE {}
Outside == IF stack = "up" THEN {} ELSE {"session"}
PortOpen == IF serial = "open" THEN {"port"} ELSE {}
PortNotOpen == {"port"} \ PortOpen

-----------------------------------------------------------------------------
(* mtk_init without callbacks. *)
mtk_init_null ==
    /\ Alive
    /\ told' = [init |-> BT_HC_STATUS_FAIL]
    /\ UNCHANGED <<lib, hci_tty_fd, bt_vendor_cbacks, enabled, stack, serial, misuse, blame>>

(* Mutant: the callbacks are kept only once the library is open. *)
mtk_init_nolib_late ==
    /\ Alive
    /\ Blamed({"loader"} \cup Again)
    /\ mtklib_handle' = "NULL"
    /\ told' = [init |-> 0]
    /\ stack' = "up"
    /\ UNCHANGED <<mtk_bt_enable, mtk_bt_disable, refs, hci_tty_fd, bt_vendor_cbacks,
                   enabled, serial, misuse>>

(* dlopen fails: NULL is what mtk_init returns, and NULL is 0. *)
mtk_init_nolib ==
    /\ Alive
    /\ Blamed({"loader"} \cup Again)
    /\ bt_vendor_cbacks' = "set"
    /\ mtklib_handle' = "NULL"
    /\ told' = [init |-> 0]
    /\ stack' = "up"
    /\ UNCHANGED <<mtk_bt_enable, mtk_bt_disable, refs, hci_tty_fd, enabled, serial, misuse>>

(* dlopen succeeds; a symbol may be missing, and then the library is       *)
(* closed again but the handle stays and 0 is returned all the same.  The  *)
(* loader reports the last failure, so either symbol may be the one.       *)
mtk_init ==
    /\ Alive
    /\ refs < MaxRefs
    /\ bt_vendor_cbacks' = "set"
    /\ mtklib_handle' = "lib"
    /\ \E found \in SUBSET {"enable", "disable"} :
         /\ Blamed(Again \cup IF found = {"enable", "disable"} THEN {} ELSE {"loader"})
         /\ mtk_bt_enable' = IF "enable" \in found THEN "sym" ELSE "NULL"
         /\ mtk_bt_disable' = IF "disable" \in found THEN "sym" ELSE "NULL"
         /\ refs' = IF found = {"enable", "disable"} THEN refs + 1 ELSE refs
    /\ told' = [init |-> 0]
    /\ stack' = "up"
    /\ UNCHANGED <<hci_tty_fd, enabled, serial, misuse>>

(* Mutant: cleanup does not close the library. *)
mtk_cleanup_leaks ==
    /\ Alive
    /\ bt_vendor_cbacks' = "NULL"
    /\ stack' = "down" /\ serial' = "none"
    /\ Blamed(Outside \cup PortOpen)
    /\ UNCHANGED <<lib, hci_tty_fd, enabled, misuse, told>>

(* mtk_cleanup: the handle is closed and kept. *)
mtk_cleanup ==
    /\ Alive
    /\ Blamed(Outside \cup PortOpen)
    /\ bt_vendor_cbacks' = "NULL"
    /\ \/ mtklib_handle = "NULL" /\ stack' = "down" /\ UNCHANGED <<refs, misuse>>
       \/ mtklib_handle # "NULL" /\ refs > 0 /\ refs' = refs - 1
          /\ stack' = "down" /\ UNCHANGED misuse
       \/ mtklib_handle # "NULL" /\ refs = 0 /\ Die("dlclose") /\ UNCHANGED refs
    /\ serial' = "none"
    /\ UNCHANGED <<mtklib_handle, mtk_bt_enable, mtk_bt_disable, hci_tty_fd, enabled, told>>

-----------------------------------------------------------------------------
(* A call through one of the two function pointers is defined only when it *)
(* points into a mapped blob.                                              *)
Callable(fn) == fn = "sym" /\ refs > 0

(* Mutant: the descriptor is not remembered for the close. *)
mtk_open_forgets ==
    /\ Alive /\ Callable(mtk_bt_enable)
    /\ Blamed(Outside \cup PortOpen)
    /\ \E fd \in Fds \ enabled : enabled' = enabled \cup {fd}
    /\ serial' = "open"
    /\ told' = [open |-> 1]
    /\ UNCHANGED <<lib, hci_tty_fd, bt_vendor_cbacks, stack, misuse>>

(* BT_VND_OP_USERIAL_OPEN *)
mtk_open ==
    /\ Alive
    /\ Blamed(Outside \cup PortOpen)
    /\ Callable(mtk_bt_enable)
    /\ \/ \E fd \in Fds \ enabled :
            /\ enabled' = enabled \cup {fd}
            /\ hci_tty_fd' = fd
            /\ serial' = "open"
            /\ told' = [open |-> 1]
       \/ /\ told' = [open |-> -1]
          /\ serial' = "failed"
          /\ UNCHANGED <<enabled, hci_tty_fd>>
    /\ UNCHANGED <<lib, bt_vendor_cbacks, stack, misuse>>

(* BT_VND_OP_USERIAL_CLOSE: hci_tty_fd is not reset. *)
mtk_close ==
    /\ Alive
    /\ Blamed(Outside \cup PortNotOpen)
    /\ \/ /\ hci_tty_fd = -1
          /\ told' = [close |-> -1]
          /\ UNCHANGED <<enabled, misuse, stack>>
       \/ /\ hci_tty_fd # -1 /\ Callable(mtk_bt_disable)
          /\ hci_tty_fd \in enabled
          /\ enabled' = enabled \ {hci_tty_fd}
          /\ told' = [close |-> 0]
          /\ UNCHANGED <<misuse, stack>>
       \/ /\ hci_tty_fd # -1 /\ Callable(mtk_bt_disable)
          /\ hci_tty_fd \notin enabled
          /\ misuse' = misuse \cup {"stale_fd"}
          /\ told' = [close |-> -1]
          /\ UNCHANGED <<enabled, stack>>
    /\ serial' = "none"
    /\ UNCHANGED <<lib, hci_tty_fd, bt_vendor_cbacks>>

(* Either of them through a NULL pointer or into an unmapped blob. *)
CallFault ==
    /\ Alive
    /\ \/ ~Callable(mtk_bt_enable) /\ Blamed(Outside \cup PortOpen)
       \/ hci_tty_fd # -1 /\ ~Callable(mtk_bt_disable) /\ Blamed(Outside \cup PortNotOpen)
    /\ Die("bad_call")
    /\ UNCHANGED <<lib, hci_tty_fd, bt_vendor_cbacks, enabled, serial, told>>

(* BT_VND_OP_FW_CFG and BT_VND_OP_EPILOG answer through the callbacks.     *)
mtk_op_callback(op) ==
    /\ Alive
    /\ Blamed(Outside)
    /\ IF bt_vendor_cbacks = "set"
       THEN told' = [callback |-> op, result |-> "SUCCESS"] /\ UNCHANGED <<misuse, stack>>
       ELSE Die("callback") /\ UNCHANGED told
    /\ UNCHANGED <<lib, hci_tty_fd, bt_vendor_cbacks, enabled, serial>>

(* The remaining operations only return 0, and the idle timer. *)
mtk_op_other(op) ==
    /\ Alive
    /\ told' = IF op = "GET_LPM_IDLE_TIMEOUT" THEN [param |-> WL_DEFAULT_LPM_IDLE_TIMEOUT]
                                              ELSE [op |-> 0]
    /\ UNCHANGED <<lib, hci_tty_fd, bt_vendor_cbacks, enabled, stack, serial, misuse, blame>>

(* The Bluetooth process is started again; its descriptors are gone. *)
Restart ==
    /\ stack = "dead"
    /\ mtklib_handle' = "NULL" /\ hci_tty_fd' = NoFd
    /\ mtk_bt_enable' = "NULL" /\ mtk_bt_disable' = "NULL"
    /\ bt_vendor_cbacks' = "NULL"
    /\ refs' = 0 /\ enabled' = {}
    /\ stack' = "down" /\ serial' = "none"
    /\ misuse' = {} /\ blame' = {} /\ told' = [nothing |-> 0]

Next ==
    \/ mtk_init_null \/ mtk_init_nolib \/ mtk_init \/ mtk_cleanup
    \/ mtk_open \/ mtk_close \/ CallFault \/ Restart
    \/ \E op \in {"FW_CFG", "EPILOG"} : mtk_op_callback(op)
    \/ \E op \in NoOps \cup {"GET_LPM_IDLE_TIMEOUT"} : mtk_op_other(op)

Spec == Init /\ [][Next]_vars

-----------------------------------------------------------------------------
(* Properties *)

(* Type invariant of the library's globals and of the parts around it. *)
TypeOK ==
    /\ mtklib_handle \in {"NULL", "lib"}
    /\ mtk_bt_enable \in {"NULL", "sym"} /\ mtk_bt_disable \in {"NULL", "sym"}
    /\ bt_vendor_cbacks \in {"NULL", "set"}
    /\ hci_tty_fd \in Fds \cup {-1}
    /\ refs \in Nat /\ enabled \subseteq Fds
    /\ stack \in {"down", "up", "dead"}
    /\ serial \in {"none", "failed", "open"}
    /\ misuse \subseteq {"dlclose", "stale_fd", "bad_call", "callback"}
    /\ blame \subseteq {"loader", "session", "port"}

(* Over any number of sessions, each with any operations, nothing stale is *)
(* used without a cause outside the library, although cleanup keeps the    *)
(* handle and both pointers, close keeps hci_tty_fd and mtk_init returns 0 *)
(* for every failure.  The library is called, or closed, while it is not   *)
(* mapped only after the loader has failed or the stack has mixed up init  *)
(* and cleanup; a descriptor that is not open is disabled only if the      *)
(* stack closes what it has not opened; the callbacks are cleared only     *)
(* outside a session, whatever failed in mtk_init.                         *)
NoMisuse ==
    /\ {"bad_call", "dlclose"} \cap misuse # {} => {"loader", "session"} \cap blame # {}
    /\ "stale_fd" \in misuse => {"port", "session"} \cap blame # {}
    /\ "callback" \in misuse => "session" \in blame

(* Nor does a session leave a descriptor of the blob behind, whatever the  *)
(* loader did: what close disables is what the last open enabled.          *)
NoDescriptorLeak ==
    (stack = "down" /\ {"port", "session"} \cap blame = {}) => enabled = {}

(* The blob is referenced exactly while a session is on: never after it,   *)
(* also when a symbol was missing and mtk_init closed the library by       *)
(* itself, and always in it if it could be loaded.                         *)
NoLibraryLeak ==
    "session" \notin blame =>
        /\ stack = "down" => refs = 0
        /\ stack = "up" /\ "loader" \notin blame => refs = 1

(* mtk_init answers success only when both entry points can be called: the *)
(* distinction its error branches ("Failed to open libbluetoothdrv         *)
(* library", "Errors while opening symbols") are there to make.            *)
InitStatusTruthful ==
    told = [init |-> 0] => Callable(mtk_bt_enable) /\ Callable(mtk_bt_disable)
=============================================================================
