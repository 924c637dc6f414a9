---------------------------------- MODULE Input ----------------------------------
(***************************************************************************)
(* The input path (kernel/src/hal/input/mod.rs over                         *)
(* drivers/keyboard.rs and hal/usb/hid.rs): a person taps keys on a PS/2    *)
(* and on a USB keyboard; IRQ1 moves controller bytes into a raw ring; the  *)
(* foreground polls, decodes, merges the two sources and, while nothing     *)
(* comes, re-initialises the controller with interrupts enabled.            *)
(*                                                                         *)
(* The foreground is `todo`, the steps its current call still has to take.  *)
(* A step is what runs without an interrupt in between that matters; IRQ1   *)
(* and the keyboards act between any two steps.                             *)
(***************************************************************************)
EXTENDS Ps2Keyboard, HidReport, FiniteSets

CONSTANTS RawSize,       \* RAW_IRQ_RING_CAPACITY, 256: one cell stays free
          QueueLimit,    \* KEY_QUEUE holds 256 events
          ScanLimit,     \* MAX_USB_EVENTS_PER_READ, 64
          Taps           \* bound: keys tapped, one more where no PS/2 keyboard is there

ASSUME InputAssumption == RawSize \in Nat \ {0, 1} /\ QueueLimit \in Nat \ {0}
                          /\ ScanLimit \in Nat \ {0} /\ Taps \in Nat

VARIABLES
    ctl,        \* the i8042: its output bytes, whether it translates to set 1
    raw,        \* RAW_IRQ_RING, oldest first
    kbd,        \* KEYBOARD
    flags,      \* I8042_PRESENT, I8042_INIT_FAILED, FORCED_POLLING_MODE, ...
    usbKbd,     \* the USB keyboard: keys held, framing, the report it has ready
    boot,       \* KeyboardBootState
    queue,      \* KEY_QUEUE
    last,       \* LAST_INPUT_SOURCE
    todo,       \* the steps left of the foreground's call
    busy,       \* whether this call's poll has seen anything
    typed,      \* history: the keys tapped and not yet delivered, by source
    disturbed,  \* history: something was lost or reordered on the way
    tapped,     \* history: the taps so far (bounded by Taps)
    got         \* the last keypress delivered, and the one that was next

inputVars == <<ctl, raw, kbd, flags, usbKbd, boot, queue, last, todo, busy,
               typed, disturbed, tapped, got>>
hardware == <<ctl, raw, kbd, flags>>
usb == <<usbKbd, boot, queue>>
history == <<typed, disturbed, tapped>>

Ps2Keys == {"a", "enter", "up"}
UsbKeys == {4, 5}
Replies == {"55", "cfg", "FA"}
NothingGot == [source |-> "none", byte |-> "none", wanted |-> "none"]

KeyCodes(codes) == SelectSeq(codes, LAMBDA c : c \notin Replies \cup {"aux"})
Spoil(source, when) == [disturbed EXCEPT ![source] = @ \/ when]

InitPhases == <<"flush", "selftest", "config", "scan">>
Poll == <<"usb", "drain", "port">>

\* keyboard::init and hal::input::init, run before interrupts are enabled: no
\* controller, one that answered, and one that did not (its translation is then
\* whatever the firmware left).  A USB keyboard is plugged in or not; it is not
\* combined with a controller that did not answer (a bound).
InputInit ==
    /\ \E present, answered, translates \in BOOLEAN :
          /\ answered => translates
          /\ ~present => ~answered /\ ~translates
          /\ ctl = [out |-> <<>>, translates |-> translates]
          /\ kbd = ConfigureScancodeMode(NewKeyboard, answered)
          /\ flags = [present |-> present, failed |-> ~answered, forced |-> ~present,
                      seen |-> FALSE, tried |-> FALSE]
    /\ \E plugged \in BOOLEAN, framing \in {0, 1} :
          /\ IF plugged THEN flags.present = kbd.translation ELSE framing = 0
          /\ usbKbd = [held |-> <<>>, mods |-> 0, framing |-> framing, report |-> <<>>,
                       plugged |-> plugged]
    /\ raw = <<>> /\ boot = FreshBoot /\ queue = <<>> /\ last = "none"
    /\ todo = <<>> /\ busy = FALSE
    /\ typed = [ps2 |-> <<>>, usb |-> <<>>]
    /\ disturbed = [ps2 |-> FALSE, usb |-> FALSE]
    /\ tapped = 0 /\ got = NothingGot

---------------------------------------------------------------------------------
(* The keyboards, the controller and the interrupt.                        *)

TapsLeft == tapped < IF flags.present THEN Taps ELSE Taps + 1
Tap == tapped' = tapped + 1

TapPs2(key) ==
    /\ flags.present /\ TapsLeft
    /\ ctl' = [ctl EXCEPT !.out = @ \o Codes(key, ctl.translates)]
    /\ Tap
    /\ typed' = IF key = "mouse" THEN typed ELSE [typed EXCEPT !.ps2 = Append(@, key)]
    /\ UNCHANGED <<raw, kbd, flags, usb, last, todo, busy, disturbed, got>>

\* The USB keyboard has one report to give; it changes again once that is taken.
InputReport(k) == (IF k.framing = 1 THEN <<1>> ELSE <<>>) \o <<k.mods, 0>>
             \o k.held \o [i \in 1 .. Slots - Len(k.held) |-> 0]
Ready(k) == usbKbd' = [k EXCEPT !.report = InputReport(k)]

UsbChange ==
    /\ usbKbd.plugged /\ usbKbd.report = <<>>
    /\ \/ \E key \in UsbKeys \ ToSet(usbKbd.held) :
             /\ TapsLeft /\ Len(usbKbd.held) < Slots
             /\ Ready([usbKbd EXCEPT !.held = Append(@, key)])
             /\ typed' = [typed EXCEPT !.usb = Append(@, key)]
             /\ Tap
       \/ \E key \in ToSet(usbKbd.held) :
             /\ Ready([usbKbd EXCEPT !.held = SelectSeq(@, LAMBDA u : u # key)])
             /\ UNCHANGED <<typed, tapped>>
       \/ /\ TapsLeft
          /\ Ready([usbKbd EXCEPT !.mods = 2 - @])
          /\ Tap
          /\ UNCHANGED typed
    /\ UNCHANGED <<hardware, boot, queue, last, todo, busy, disturbed, got>>

\* A short report, and the ErrorRollOver report of too many keys.
UsbGlitch ==
    /\ usbKbd.plugged /\ usbKbd.report = <<>> /\ TapsLeft
    /\ \E report \in {<<0>>, <<0, 0>> \o [i \in 1 .. Slots |-> 1]} :
          usbKbd' = [usbKbd EXCEPT !.report = report]
    /\ Tap
    /\ disturbed' = Spoil("usb", TRUE)
    /\ UNCHANGED <<hardware, boot, queue, last, todo, busy, typed, got>>

\* handle_irq1 and push_raw_irq_scancode: one byte, dropped when the ring is full.
Irq1 ==
    /\ ctl.out # <<>>
    /\ LET code == Head(ctl.out)
           full == Len(raw) = RawSize - 1
       IN  /\ ctl' = [ctl EXCEPT !.out = Tail(@)]
           /\ raw' = IF code = "aux" \/ full THEN raw ELSE Append(raw, code)
           /\ flags' = [flags EXCEPT !.seen = @ \/ code # "aux"]
           /\ disturbed' = Spoil("ps2", code # "aux" /\ (full \/ code \in Replies))
    /\ UNCHANGED <<kbd, usb, last, todo, busy, typed, tapped, got>>

---------------------------------------------------------------------------------
(* The steps of the foreground.                                             *)

Rest == Tail(todo)
At(step) == todo # <<>> /\ Head(todo) = step

\* poll_runtime as far as the keyboard goes: the waiting report becomes events.
\* A report whose events do not all fit loses the rest; LAST_INPUT_SOURCE is set
\* by each push, delivered or not.
PollRuntime ==
    /\ At("usb")
    /\ todo' = Rest
    /\ IF usbKbd.report = <<>> THEN UNCHANGED <<usb, last, disturbed>> /\ busy' = (queue # <<>>)
       ELSE LET done == ProcessBootReport(boot, usbKbd.report)
                all == queue \o done.events
            IN  /\ boot' = done.boot
                /\ queue' = SubSeq(all, 1, Min({Len(all), QueueLimit}))
                /\ last' = IF done.events = <<>> THEN last ELSE "usb"
                /\ usbKbd' = [usbKbd EXCEPT !.report = <<>>]
                /\ disturbed' = Spoil("usb", Len(all) > QueueLimit)
                /\ busy' = (all # <<>>)
    /\ UNCHANGED <<hardware, typed, tapped, got>>

\* A code that the two sets take for different keys, heard from a controller that
\* does not translate before the driver has settled on set 2.
Misheard(codes) ==
    ~ctl.translates /\ \E i \in DOMAIN codes :
        codes[i] = "1C" /\ HandleAll(kbd, SubSeq(codes, 1, i - 1)).active # "set2"

\* What handing the codes to the decoders leaves unsound, the buffer then being k's.
Garbled(codes, k) == Misheard(codes) \/ Len(k.buffer) = BufferSize - 1

Decoded(codes) ==
    /\ kbd' = HandleAll(kbd, codes)
    /\ busy' = (busy \/ codes # <<>>)

\* process_pending_irq_events: everything the interrupt handler has left.
DrainRing ==
    /\ At("drain")
    /\ todo' = Rest /\ raw' = <<>>
    /\ Decoded(raw)
    /\ disturbed' = Spoil("ps2", Garbled(raw, kbd'))
    /\ UNCHANGED <<ctl, flags, usb, last, typed, tapped, got>>

\* poll_hardware's read of the port, interrupts off.  A byte the interrupt
\* handler took since the ring was drained is older than these and comes later.
PollPort ==
    /\ At("port")
    /\ todo' = Rest
    /\ IF ~flags.present THEN UNCHANGED <<hardware, busy, disturbed>>
       ELSE /\ Decoded(ctl.out)
            /\ ctl' = [ctl EXCEPT !.out = <<>>]
            /\ flags' = [flags EXCEPT !.seen = @ \/ SelectSeq(ctl.out, LAMBDA c : c # "aux") # <<>>]
            /\ disturbed' = Spoil("ps2", \/ raw # <<>> /\ ctl.out # <<>>
                                         \/ ToSet(ctl.out) \cap Replies # {}
                                         \/ Garbled(ctl.out, kbd'))
            /\ UNCHANGED raw
    /\ UNCHANGED <<usb, last, typed, tapped, got>>

\* init_controller, from the first drain to the self-test command.
Flush ==
    /\ At("flush")
    /\ todo' = Rest
    /\ ctl' = [ctl EXCEPT !.out = <<"55">>]
    /\ disturbed' = Spoil("ps2", KeyCodes(ctl.out) # <<>>)
    /\ UNCHANGED <<raw, kbd, flags, usb, last, busy, typed, tapped, got>>

\* read_keyboard_data: the next byte that is not AUX, or none in time.
Answer == SelectSeq(ctl.out, LAMBDA c : c # "aux")
AfterAnswer == IF Answer = <<>> THEN <<>> ELSE Tail(Answer)
Spent(codes) == disturbed' = Spoil("ps2", KeyCodes(codes) # <<>>)

\* The self-test reply; then the first port is enabled and the config asked for.
SelfTest ==
    /\ At("selftest")
    /\ todo' = Rest
    /\ ctl' = [ctl EXCEPT !.out = Append(AfterAnswer, "cfg")]
    /\ Spent(IF Answer = <<>> THEN <<>> ELSE <<Head(Answer)>>)
    /\ UNCHANGED <<raw, kbd, flags, usb, last, busy, typed, tapped, got>>

\* The config byte.  None in time ends init_controller, and the caller takes the
\* controller not to translate; any byte is written back with translation on,
\* and the keyboard is told to scan.
Config ==
    /\ At("config")
    /\ IF Answer = <<>>
       THEN /\ todo' = Tail(Rest)
            /\ kbd' = ConfigureScancodeMode(kbd, FALSE)
            /\ UNCHANGED <<ctl, disturbed>>
       ELSE /\ todo' = Rest
            /\ ctl' = [out |-> Append(AfterAnswer, "FA"), translates |-> TRUE]
            /\ disturbed' = Spoil("ps2", \/ KeyCodes(<<Head(Answer)>>) # <<>>
                                         \/ ~ctl.translates /\ (typed.ps2 # <<>> \/ raw # <<>>))
            /\ UNCHANGED kbd
    /\ UNCHANGED <<raw, flags, usb, last, busy, typed, tapped, got>>

\* The keyboard's acknowledgement, the last drain, and what the callers do next.
Scan ==
    /\ At("scan")
    /\ todo' = Rest
    /\ ctl' = [ctl EXCEPT !.out = <<>>]
    /\ Spent(ctl.out)
    /\ kbd' = ConfigureScancodeMode(kbd, TRUE)
    /\ UNCHANGED <<raw, flags, usb, last, busy, typed, tapped, got>>

\* recover_decode_state; an E0 that has been heard is forgotten with the rest.
Recover ==
    /\ At("recover")
    /\ todo' = Rest
    /\ kbd' = ResetDecoderState(kbd)
    /\ disturbed' = Spoil("ps2", kbd.dec1 # "start" \/ kbd.dec2 # "start")
    /\ UNCHANGED <<ctl, raw, flags, usb, last, busy, typed, tapped, got>>

\* polling_mode_forced or maybe_force_polling_mode, then a polling window.  The
\* 750 ms without input may or may not have passed.
Force ==
    /\ At("force")
    /\ \/ flags.forced /\ todo' = <<"drain", "port">> \o Rest /\ UNCHANGED flags
       \/ /\ ~flags.forced /\ ~flags.seen
          /\ todo' = InitPhases \o <<"drain", "port">> \o Rest
          /\ flags' = [flags EXCEPT !.forced = TRUE]
       \/ ~flags.forced /\ todo' = Rest /\ UNCHANGED flags
    /\ UNCHANGED <<ctl, raw, kbd, usb, last, busy, history, got>>

\* wait_for_activity after its first poll: nothing came, so the recovery layers.
\* Each is a decision on what has been seen so far.
Layers ==
    /\ At("layers")
    /\ \E decode, rescan \in BOOLEAN :      \* a second has passed; the stall period is up
          LET rearm == flags.present /\ ~flags.seen /\ ~flags.tried
              resync == decode /\ flags.present /\ ~flags.failed /\ kbd.cold /\ flags.seen
          IN  IF busy \/ kbd.buffer # <<>>
              THEN todo' = Rest /\ UNCHANGED flags
              ELSE /\ flags' = [flags EXCEPT !.tried = @ \/ rearm]
                   /\ todo' = (IF rearm THEN InitPhases \o <<"drain", "port">> ELSE <<>>)
                              \o (IF resync THEN <<"recover">> \o InitPhases \o <<"drain", "port">>
                                            ELSE <<>>)
                              \o (IF rescan /\ (flags.failed \/ ~flags.present)
                                  THEN <<"usb">> ELSE <<>>)
                              \o (IF flags.present THEN <<"force">> ELSE <<>>)
                              \o Rest
    /\ UNCHANGED <<ctl, raw, kbd, usb, last, busy, history, got>>

\* try_read_keypress after its poll: with both sources pending the one that is not
\* LAST_INPUT_SOURCE goes first.  has_buffered_input drains the ring once more.
Choose ==
    /\ At("choose")
    /\ raw' = <<>> /\ Decoded(raw)
    /\ disturbed' = Spoil("ps2", Garbled(raw, kbd'))
    /\ LET both == queue # <<>> /\ kbd'.buffer # <<>>
       IN  todo' = (IF both /\ last = "usb" THEN <<"force", "popps2", "popusb">>
                                            ELSE <<"popusb", "force", "popps2">>)
                   \o Poll \o <<"popusb", "force", "popps2">>
    /\ UNCHANGED <<ctl, flags, usb, last, typed, tapped, got>>

Deliver(source, byte) ==
    /\ todo' = <<>> /\ last' = source
    /\ got' = [source |-> source, byte |-> byte,
               wanted |-> IF typed[source] = <<>> THEN "none" ELSE Head(typed[source])]
    /\ typed' = [typed EXCEPT ![source] = IF @ = <<>> THEN @ ELSE Tail(@)]

\* pop_usb_keypress: up to ScanLimit events, past releases and keys that stand
\* for no byte.
PopUsb ==
    /\ At("popusb")
    /\ LET presses == {i \in 1 .. Len(queue) : i <= ScanLimit /\ queue[i].pressed
                                               /\ queue[i].key \in UsbKeys}
           scanned == Min({Len(queue), ScanLimit})
       IN  IF presses = {}
           THEN /\ queue' = SubSeq(queue, scanned + 1, Len(queue))
                /\ todo' = Rest
                /\ UNCHANGED <<last, got, typed>>
           ELSE /\ queue' = SubSeq(queue, Min(presses) + 1, Len(queue))
                /\ Deliver("usb", queue[Min(presses)].key)
    /\ UNCHANGED <<hardware, usbKbd, boot, busy, disturbed, tapped>>

\* pop_ps2_keypress, once any forced poll is done: the ring again, then the buffer.
PopPs2 ==
    /\ At("popps2")
    /\ LET k == HandleAll(kbd, raw)
       IN  /\ raw' = <<>>
           /\ disturbed' = Spoil("ps2", Garbled(raw, k))
           /\ IF k.buffer = <<>> THEN kbd' = k /\ todo' = Rest /\ UNCHANGED <<last, got, typed>>
              ELSE /\ kbd' = [k EXCEPT !.buffer = Tail(@)]
                   /\ Deliver("ps2", Head(k.buffer))
    /\ UNCHANGED <<ctl, flags, usb, busy, tapped>>

Call(steps) ==
    /\ todo = <<>> /\ todo' = steps
    /\ busy' = FALSE /\ got' = NothingGot
    /\ UNCHANGED <<hardware, usb, last, history>>
TryReadKeypress == Call(Poll \o <<"choose">>)
WaitForActivity == Call(Poll \o <<"layers">>)

Foreground == \/ TryReadKeypress \/ WaitForActivity
              \/ PollRuntime \/ DrainRing \/ PollPort
              \/ Flush \/ SelfTest \/ Config \/ Scan \/ Recover \/ Force
              \/ Layers \/ Choose \/ PopUsb \/ PopPs2
InputNext == \/ \E key \in Ps2Keys \cup {"mouse"} : TapPs2(key)
             \/ UsbChange \/ UsbGlitch \/ Irq1
             \/ Foreground
InputSpec == InputInit /\ [][InputNext]_inputVars

---------------------------------------------------------------------------------
(* Properties.                                                              *)

\* Every keypress delivered is the oldest one typed on its keyboard and not yet
\* delivered, through the ring, the two decoders, the report differences, the
\* framing guess and the merge, unless a named disturbance came before it: a full
\* ring, buffer or queue, a malformed report, a byte read from the port while an
\* older one sits in the ring, a controller reply that went astray, a decoder
\* reset between a prefix and its code, codes on their way while translation is
\* switched on, or, from a controller that does not translate, a code that means
\* another key in set 1 (the 1C of "a", Enter there) before a key that only set 2
\* has told the driver which set it hears.  And nothing typed is forgotten: when
\* every queue on the keyboard's way is empty, all its keys have been delivered.
KeypressIsTyped ==
    /\ ~disturbed.ps2 =>
         /\ got.source = "ps2" => got.byte = got.wanted
         /\ ctl.out = <<>> /\ raw = <<>> /\ kbd.buffer = <<>> => typed.ps2 = <<>>
    /\ ~disturbed.usb =>
         /\ got.source = "usb" => got.byte = got.wanted
         /\ usbKbd.report = <<>> /\ (\A i \in DOMAIN queue : ~queue[i].pressed) => typed.usb = <<>>
==================================================================================
