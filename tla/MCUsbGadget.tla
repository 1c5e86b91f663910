---------------------------- MODULE MCUsbGadget -----------------------------
(* Every configuration for a framework that waits; two, with a setting of  *)
(* another property at any time, for one that does not.                    *)
EXTENDS UsbGadget

EveryConfig == AllConfigs
HurriedConfigs == {{"rndis"}, {"adb"}}
HurriedDefault == {{"adb"}}
FactoryDefault == {{"mtp", "adb"}}

NoOthers == {}
PortToUart == {<<"mediatek.usb.port.mode", {"uart"}>>}
=============================================================================
