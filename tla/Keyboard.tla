------------------------------ MODULE Keyboard ------------------------------
(***************************************************************************)
(* From the keys a user holds to the keys the chat client takes: the key   *)
(* reports, libusb_interrupt_transfer, whose result main ignores, and the  *)
(* de-repeat filter (src/lab2/lab2.c:148-163, 441-459).  ChatClient has    *)
(* what a key that is taken does.                                          *)
(*                                                                         *)
(* A report lists the keys that are held when it is asked for, so changes  *)
(* between two reports are not seen.  main looks at the first of them, and *)
(* which of them is the first is the keyboard's choice.                    *)
(***************************************************************************)
EXTENDS UsbKeyboard, FiniteSets

CONSTANTS Codes,   \* key codes
          Esc,
          Slots    \* keycodes in a report

None     == "none"       \* keycode 0
RollOver == "roll over"  \* keycode 1, in all slots when more keys are held than slots

ASSUME CodesAssumption == Esc \in Codes /\ {None, RollOver} \cap Codes = {}
ASSUME SlotsAssumption == Slots \in Nat \ {0}

VARIABLES
    held,         \* the keys held
    front,        \* the key the keyboard puts into the first slot
    kc,           \* packet.keycode[0]
    transferred,  \* "unset" before the first report, "full", "short"
    last_kc,
    quit,
    typed,        \* history: the keys taken since they were pressed, while held
    recent,       \* history: the keys taken since any key was pressed
    garbage       \* history: whether main has read an uninitialised packet

keys    == <<held, front>>
history == <<typed, recent>>
keyVars == <<keys, kc, transferred, last_kc, quit, history, garbage>>
keyboardVars == <<keyVars, usbVars>>

-----------------------------------------------------------------------------

KeyboardInit ==
    /\ held = {} /\ front = None /\ kc = None /\ transferred = "unset" /\ last_kc = None
    /\ quit = FALSE
    /\ typed = {} /\ recent = {} /\ garbage = FALSE
    /\ UsbInit

Discover == UsbNext /\ UNCHANGED keyVars

TooMany == Cardinality(held) > Slots

\* Before the keyboard is found nobody sees a key.  A keyboard may put the new key
\* first or last, or scan the keys in an order of its own.
Press(c) ==
    /\ phase = "found" /\ c \notin held
    /\ held' = held \cup {c}
    /\ front' \in held'
    /\ recent' = {}
    /\ UNCHANGED <<kc, transferred, last_kc, quit, typed, garbage, usbVars>>

\* The first key stays the first until it is released.
Release(c) ==
    /\ c \in held
    /\ held' = held \ {c}
    /\ front' \in IF held' = {} THEN {None} ELSE IF c = front \/ TooMany THEN held' ELSE {front}
    /\ typed' = typed \ {c}
    /\ UNCHANGED <<kc, transferred, last_kc, quit, recent, garbage, usbVars>>

Remember(c) ==
    LET new == (Codes \cap {c}) \ {last_kc}
    IN  typed' = typed \cup new /\ recent' = recent \cup new

\* should_accept_key, and a variant that remembers only until it refuses a key.
FilterNot(c) == last_kc' = (IF c = last_kc THEN None ELSE c) /\ Remember(c)
Filter(c)    == last_kc' = c /\ Remember(c)

\* The loop body behind a full transfer.
Handle(c) ==
    IF c = Esc THEN quit' = TRUE /\ UNCHANGED <<last_kc, history>>
    ELSE Filter(c) /\ UNCHANGED quit

\* keycode[0].
First == IF TooMany THEN RollOver ELSE front

Running == phase = "found" /\ ~quit

Transfer ==
    /\ Running /\ endpoint_address = "in"
    /\ kc' = First /\ Handle(First)
    /\ transferred' = "full"
    /\ UNCHANGED <<keys, garbage, usbVars>>

\* Fewer bytes than a report: main tries again.
TransferShort ==
    /\ Running
    /\ kc' \in IF endpoint_address = "in" THEN {First, kc} ELSE {kc}
    /\ transferred' = "short"
    /\ UNCHANGED <<keys, last_kc, quit, history, garbage, usbVars>>

\* An uninitialised packet, taken for a report.
Garbage == garbage' = TRUE /\ \E c \in Codes \cup {None, RollOver} : Handle(c)

\* The transfer is not even submitted: transferred and packet keep their values,
\* which are those of an earlier report or nobody's.
TransferFails ==
    /\ Running
    /\ \/ transferred = "full" /\ endpoint_address = "in" /\ Handle(kc) /\ UNCHANGED garbage
       \/ transferred = "full" /\ endpoint_address = "out" /\ Garbage
       \/ transferred = "short" /\ UNCHANGED <<last_kc, quit, history, garbage>>
       \/ transferred = "unset" /\ (Garbage \/ UNCHANGED <<last_kc, quit, history, garbage>>)
    /\ UNCHANGED <<keys, kc, transferred, usbVars>>

\* endpoint[0] leads to the keyboard: the packet is sent to it, and then handled.
Sent ==
    /\ Running /\ endpoint_address = "out"
    /\ Garbage /\ transferred' = "full"
    /\ UNCHANGED <<keys, kc, usbVars>>

KeyboardNext ==
    \/ Discover
    \/ \E c \in Codes : Press(c) \/ Release(c)
    \/ Transfer \/ TransferShort \/ TransferFails \/ Sent

KeyboardSpec == KeyboardInit /\ [][KeyboardNext]_keyboardVars

-----------------------------------------------------------------------------
(* What must hold. *)

\* should_accept_key returns 1 for a key.
Takes(c) == c \in Codes /\ last_kc # c /\ last_kc' = c

\* Without a new press no key is taken twice, whichever key the keyboard puts first,
\* however many are held, more than a report has slots among them, in whatever order
\* they are released, and whatever transfers fail meanwhile (lab2.c:148-163, 445-458).
OncePerPress == [][\A c \in recent : ~garbage' => ~Takes(c)]_keyboardVars

\* Once there has been a report, a transfer that fails types nothing, although
\* main then handles the last report again (lab2.c:150-154).
FailureTypesNothing ==
    [][TransferFails /\ transferred # "unset" /\ endpoint_address = "in"
          => \A c \in Codes : ~Takes(c)]_keyboardVars

-----------------------------------------------------------------------------
(* What a comment in the code says and the code does not do. *)

\* "same key still held -> do NOT generate another char" (lab2.c:453): a key that was
\* taken is not taken again until it has been released.
HeldOnce == [][\A c \in typed : ~garbage' => ~Takes(c)]_keyboardVars
=============================================================================
