-------------------------------- MODULE HidReport --------------------------------
(***************************************************************************)
(* The boot-protocol keyboard reports of a USB keyboard                     *)
(* (kernel/src/hal/usb/hid.rs): finding where the report starts, with or    *)
(* without a leading report-id byte, and turning the difference between     *)
(* two reports into key events.  A report is a sequence of byte values:     *)
(* modifiers, a reserved 0, then Slots usages (6 in the code).              *)
(***************************************************************************)
EXTENDS Integers, Sequences, SequencesExt

CONSTANT Slots
ASSUME SlotsAssumption == Slots \in Nat \ {0}

ViewSize == Slots + 2
NoOffset == -1
Usages == 4 .. 223                        \* 0x04 ..= 0xDF

FreshBoot == [modifiers |-> 0, pressed |-> <<>>, offset |-> NoOffset]

View(report, offset) == SubSeq(report, offset + 1, offset + ViewSize)
KeysOf(report, offset) == SubSeq(report, offset + 3, offset + ViewSize)
AnyKey(report, offset) == \E i \in DOMAIN KeysOf(report, offset) : KeysOf(report, offset)[i] # 0

\* is_valid_boot_view.  Every bit of the modifier byte is a valid one.
ValidView(report, offset) ==
    /\ Len(report) >= offset + ViewSize
    /\ report[offset + 2] = 0
    /\ \A i \in 1 .. Slots : KeysOf(report, offset)[i] \in Usages \cup {0}

\* Both readings are possible, so the report has the longer form.  The branches
\* of the code that do not find keys at offset 0 alone all end at offset 1.
Ambiguous(report) ==
    CASE AnyKey(report, 0) /\ ~AnyKey(report, 1) -> 0
      [] OTHER -> 1

\* select_boot_report_view: the offset to read at, NoOffset when neither reading
\* is valid.  An offset found before is kept while it is valid.
SelectBootReportView(boot, report) ==
    LET valid == {o \in {0, 1} : ValidView(report, o)}
    IN  CASE boot.offset \in valid -> boot.offset
          [] boot.offset \notin valid /\ valid = {} -> NoOffset
          [] boot.offset \notin valid /\ valid = {0} -> 0
          [] boot.offset \notin valid /\ valid = {1} -> 1
          [] OTHER -> Ambiguous(report)

\* normalize_pressed_keys: the usages of the slots, once each, in order.
Normalize(slots) ==
    FoldLeft(LAMBDA seen, u : IF u \in Usages /\ ~Contains(seen, u) THEN Append(seen, u) ELSE seen,
             <<>>, slots)

Event(usage, pressed) == [key |-> usage, pressed |-> pressed]

\* Mutant: every key of the report is a press, held before or not.
BugDifferences(was, now) ==
    [i \in 1 .. Len(now) |-> Event(now[i], TRUE)]
    \o SelectSeq([i \in 1 .. Len(was) |-> Event(was[i], FALSE)],
                 LAMBDA e : ~Contains(now, e.key))

\* process_keyboard_boot_report: the state after a report and the events to queue,
\* modifiers first, then presses, then releases.  A short report, or one with no
\* valid reading, forgets what was held and queues nothing.
Differences(was, now) ==
    SelectSeq([i \in 1 .. Len(now) |-> Event(now[i], TRUE)],
              LAMBDA e : ~Contains(was, e.key))
    \o SelectSeq([i \in 1 .. Len(was) |-> Event(was[i], FALSE)],
                 LAMBDA e : ~Contains(now, e.key))

Modifiers(was, now) ==
    SelectSeq([b \in 1 .. 8 |-> Event(223 + b, (now \div (2 ^ (b - 1))) % 2 = 1)],
              LAMBDA e : LET bit == 2 ^ (e.key - 224)
                         IN  ((was \div bit) % 2) # ((now \div bit) % 2))

ProcessBootReport(boot, report) ==
    LET offset == IF Len(report) < ViewSize THEN NoOffset
                  ELSE SelectBootReportView(boot, report)
        now == Normalize(KeysOf(report, offset))
        modifiers == report[offset + 1]
    IN  IF offset = NoOffset THEN [boot |-> FreshBoot, events |-> <<>>]
        ELSE [boot |-> [modifiers |-> modifiers, pressed |-> now, offset |-> offset],
              events |-> Modifiers(boot.modifiers, modifiers) \o Differences(boot.pressed, now)]
==================================================================================
