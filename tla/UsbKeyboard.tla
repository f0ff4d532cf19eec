----------------------------- MODULE UsbKeyboard -----------------------------
(***************************************************************************)
(* openkeyboard of src/lab2/usbkeyboard.c: the search of the USB devices,  *)
(* setting by setting, for the first that speaks the keyboard protocol.    *)
(***************************************************************************)
EXTENDS Integers, Sequences

CONSTANTS MaxDevices, MaxInterfaces, MaxSettings   \* bounds

ASSUME SearchAssumption == {MaxDevices, MaxInterfaces, MaxSettings} \subseteq Nat \ {0}

UpTo(n, S) == UNION {[1 .. m -> S] : m \in 0 .. n}

\* An alternate setting: not a keyboard's, or the direction of endpoint[0] of one.
Settings   == {"other", "in", "out"}
\* The interfaces of a configuration, with their settings.
Configs    == UpTo(MaxInterfaces, UpTo(MaxSettings, Settings) \ {<<>>})
\* A device whose class is not LIBUSB_CLASS_PER_INTERFACE is passed over.
OtherClass == << <<"other class">> >>

VARIABLES
    phase,             \* where the search is, or how it ended
    devs,
    d, i, k,           \* of the loops
    config,            \* of the device looked at
    misread,           \* history: whether config was used uninitialised
    endpoint_address

usbVars == <<phase, devs, d, i, k, config, misread, endpoint_address>>

-----------------------------------------------------------------------------

UsbInit ==
    /\ phase = "start" /\ devs = <<>> /\ d = 1 /\ i = 1 /\ k = 1 /\ config = <<>>
    /\ misread = FALSE /\ endpoint_address = "unset"

\* libusb_init and libusb_get_device_list.
List ==
    /\ phase = "start"
    /\ \/ /\ devs' \in UpTo(MaxDevices, Configs \cup {OtherClass})
          /\ phase' = "next device"
       \/ phase' = "exit" /\ UNCHANGED devs
    /\ UNCHANGED <<d, i, k, config, misread, endpoint_address>>

\* The descriptors of the next device.  The result of libusb_get_config_descriptor
\* is not looked at: when it fails, config points anywhere, at an earlier device's
\* configuration for one, or the client crashes.
Device ==
    /\ phase = "next device" /\ d <= Len(devs)
    /\ \/ devs[d] = OtherClass /\ d' = d + 1 /\ UNCHANGED <<phase, config, misread>>
       \/ /\ devs[d] # OtherClass /\ phase' = "search"
          /\ config' = devs[d] /\ UNCHANGED <<d, misread>>
       \/ /\ devs[d] # OtherClass /\ phase' = "search"
          /\ config' \in UpTo(1, {<<"other">>, <<"in">>}) /\ misread' = TRUE /\ UNCHANGED d
       \/ phase' \in {"exit", "crash"} /\ UNCHANGED <<d, config, misread>>
    /\ i' = 1 /\ k' = 1
    /\ UNCHANGED <<devs, endpoint_address>>

Free == devs' = <<>> /\ config' = <<>> /\ d' = 1 /\ i' = 1 /\ k' = 1

NotFound ==
    /\ phase = "next device" /\ d > Len(devs)
    /\ phase' = "none" /\ Free
    /\ UNCHANGED <<misread, endpoint_address>>

Looking == phase = "search" /\ i <= Len(config) /\ k <= Len(config[i])

\* A setting that is not a keyboard's.
Pass ==
    /\ Looking /\ config[i][k] = "other"
    /\ k' = k + 1
    /\ UNCHANGED <<phase, devs, d, i, config, misread, endpoint_address>>

\* The variant goes on in the next interface where it left this one.
NextInterfaceNot ==
    /\ phase = "search" /\ i <= Len(config) /\ k > Len(config[i])
    /\ i' = i + 1
    /\ UNCHANGED <<phase, devs, d, k, config, misread, endpoint_address>>
NextInterface ==
    /\ phase = "search" /\ i <= Len(config) /\ k > Len(config[i])
    /\ i' = i + 1 /\ k' = 1
    /\ UNCHANGED <<phase, devs, d, config, misread, endpoint_address>>

NextDevice ==
    /\ phase = "search" /\ i > Len(config)
    /\ phase' = "next device" /\ d' = d + 1
    /\ UNCHANGED <<devs, i, k, config, misread, endpoint_address>>

\* The first setting of a keyboard is opened, taken from the kernel's driver and
\* claimed; libusb_claim_interface fails while the kernel has it.
Claim ==
    /\ Looking /\ config[i][k] # "other"
    /\ \/ phase' = "found" /\ endpoint_address' = config[i][k] /\ Free
       \/ phase' = "exit" /\ UNCHANGED <<devs, d, i, k, config, endpoint_address>>
    /\ UNCHANGED misread

UsbNext ==
    List \/ Device \/ NotFound \/ Pass \/ NextInterface \/ NextDevice \/ Claim

-----------------------------------------------------------------------------
(* What must hold. *)

Places == (1 .. MaxDevices) \X (1 .. MaxInterfaces) \X (1 .. MaxSettings)

\* The places of the keyboards that can be seen.
Keyboards == {p \in Places :
    /\ p[1] \in DOMAIN devs /\ devs[p[1]] # OtherClass
    /\ p[2] \in DOMAIN devs[p[1]] /\ p[3] \in DOMAIN devs[p[1]][p[2]]
    /\ devs[p[1]][p[2]][p[3]] # "other"}

NotAfter(p, q) ==
    \/ p[1] < q[1]
    \/ p[1] = q[1] /\ p[2] < q[2]
    \/ p[1] = q[1] /\ p[2] = q[2] /\ p[3] <= q[3]

\* "remembering the first HID device that speaks the keyboard protocol"
\* (usbkeyboard.c:40): when every configuration could be read, the interface that
\* is claimed is of the first keyboard there is among the devices that leave their
\* class to their interfaces, and NULL is returned when there is none.
FirstKeyboard ==
    [][~misread =>
        /\ phase' = "found" =>
               <<d, i, k>> \in Keyboards /\ \A q \in Keyboards : NotAfter(<<d, i, k>>, q)
        /\ phase' = "none" => Keyboards = {}]_usbVars
=============================================================================
