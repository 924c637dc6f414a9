------------------------------- MODULE Ps2Keyboard -------------------------------
(***************************************************************************)
(* The PS/2 keyboard driver (kernel/src/drivers/keyboard.rs): the two       *)
(* scancode decoders run side by side, the choice between what they say,    *)
(* the fallback for extended keys and the buffer of decoded bytes.  The     *)
(* operators are functions of the Keyboard record; Input.tla runs them      *)
(* against the controller, the interrupt handler and the input loop.        *)
(*                                                                         *)
(* Three keys stand for all: "a" is printable, "enter" shares its set 1     *)
(* code 1C with the "a" of set 2, and "up" has an E0 prefix in both sets.   *)
(* Modifier keys, which only set flags on the byte, are left out.           *)
(***************************************************************************)
EXTENDS Integers, Sequences, SequencesExt

CONSTANT BufferSize          \* Keyboard.buffer has 1024 cells, one stays free
ASSUME BufferAssumption == BufferSize \in Nat \ {0, 1}

SwitchStreak == 3
None == "none"

\* What the keyboard sends for a tap of a key, make code then break code, in
\* scancode set 2, and what a translating i8042 turns that into.
Codes(key, translated) ==
    CASE key = "a"     -> IF translated THEN <<"1E", "9E">> ELSE <<"1C", "F0", "1C">>
      [] key = "enter" -> IF translated THEN <<"1C", "9C">> ELSE <<"5A", "F0", "5A">>
      [] key = "up"    -> IF translated THEN <<"E0", "48", "E0", "C8">>
                                        ELSE <<"E0", "75", "E0", "F0", "75">>
      [] key = "mouse" -> <<"aux">>      \* a byte of the AUX port, not of the keyboard

\* What one decoder makes of a code: nothing, an event that is no character
\* (key up), or a key; and the decoder's next state.
Heard(what, next) == [input |-> what, next |-> next]

\* pc_keyboard's set 1 and set 2 decoders on the codes above.  "55", "FA" and
\* "cfg" are the controller's replies: 55 is no code of set 1 and the key '=' of
\* set 2, the others are codes of neither.
Decode1(state, code) ==
    IF code = "E0" THEN Heard(None, "extended")
    ELSE Heard(CASE state = "start" /\ code = "1E" -> "a"
                 [] code = "1C" -> "enter"
                 [] state = "extended" /\ code = "48" -> "up"
                 [] state = "start" /\ code = "48" -> "8"
                 [] code \in {"9E", "9C", "C8"} -> "release"
                 [] OTHER -> None,
               "start")

Decode2(state, code) ==
    CASE state = "start" /\ code = "E0" -> Heard(None, "extended")
      [] state = "start" /\ code = "F0" -> Heard(None, "break")
      [] state = "extended" /\ code = "F0" -> Heard(None, "break")
      [] state = "break" -> Heard(IF code \in {"1C", "5A", "75", "1E"} THEN "release" ELSE None,
                                  "start")
      [] OTHER -> Heard(CASE state = "start" /\ code = "1C" -> "a"
                          [] code = "5A" -> "enter"
                          [] state = "extended" /\ code = "75" -> "up"
                          [] state = "start" /\ code = "75" -> "8"
                          [] state = "start" /\ code = "1E" -> "2"
                          [] state = "start" /\ code = "55" -> "="
                          [] OTHER -> None,
                        "start")

\* scancode_probe_key: an input that is a character or a navigation key.
ProbeKey(input) == input \notin {None, "release"}

NewKeyboard == [active |-> "unknown", dynamic |-> TRUE, translation |-> FALSE,
                only |-> [set1 |-> 0, set2 |-> 0],
                dec1 |-> "start", dec2 |-> "start", e0 |-> FALSE, f0 |-> FALSE,
                cold |-> TRUE, buffer |-> <<>>]

Push(k, byte) ==
    IF Len(k.buffer) < BufferSize - 1 THEN [k EXCEPT !.buffer = Append(@, byte)] ELSE k

ConfigureScancodeMode(k, translation) ==
    [k EXCEPT !.translation = translation,
              !.active = IF translation THEN "set1" ELSE "unknown",
              !.dynamic = ~translation,
              !.only = [set1 |-> 0, set2 |-> 0]]

ResetDecoderState(k) ==
    [ConfigureScancodeMode(k, k.translation)
        EXCEPT !.dec1 = "start", !.dec2 = "start", !.e0 = FALSE, !.f0 = FALSE]

\* observe_extended_navigation: what an E0-prefixed code means in either set, the
\* fallback when the chosen decoder has nothing; and the prefix flags after it.
ExtendedKey(k, code) ==
    IF ~k.e0 \/ code \in {"E0", "F0"} \/ k.f0 THEN None
    ELSE CASE code \in {"48", "75"} -> "up" [] code \in {"1C", "5A"} -> "enter" [] OTHER -> None

PrefixFlags(k, code) ==
    CASE code = "E0" -> [k EXCEPT !.e0 = TRUE, !.f0 = FALSE]
      [] code = "F0" /\ k.e0 -> [k EXCEPT !.f0 = TRUE]
      [] OTHER -> [k EXCEPT !.e0 = FALSE, !.f0 = FALSE]

\* select_decoded_key, once a set has been settled on (`mine`): the other set is
\* listened to only when it alone hears a key, SwitchStreak times in a row or
\* before any byte has been decoded.
Settled(k, mine, theirs, own, other) ==
    LET heard == k.only[theirs] + 1
        alone == own = None /\ ProbeKey(other)
        switch == alone /\ (k.cold \/ heard >= SwitchStreak)
    IN  [input |-> IF switch THEN other ELSE own,
         active |-> IF switch THEN theirs ELSE mine,
         only |-> [k.only EXCEPT ![mine] = 0,
                                 ![theirs] = IF alone /\ ~switch THEN heard ELSE 0]]

\* The same while no set is known: a key only one set hears settles the matter.
Unsettled(set1, set2) ==
    LET first == ProbeKey(set1) /\ ~ProbeKey(set2)
        second == ProbeKey(set2) /\ ~ProbeKey(set1)
    IN  [input |-> IF second \/ set1 = None THEN set2 ELSE set1,
         active |-> CASE first -> "set1" [] second -> "set2" [] OTHER -> "unknown",
         only |-> [set1 |-> 0, set2 |-> 0]]

SelectDecodedKey(k, set1, set2) ==
    CASE ~k.dynamic -> [input |-> CASE k.active = "set1" -> set1
                                    [] k.active = "set2" -> set2
                                    [] OTHER -> IF set1 = None THEN set2 ELSE set1,
                        active |-> k.active, only |-> [set1 |-> 0, set2 |-> 0]]
      [] k.dynamic /\ k.active = "set1" -> Settled(k, "set1", "set2", set1, set2)
      [] k.dynamic /\ k.active = "set2" -> Settled(k, "set2", "set1", set2, set1)
      [] OTHER -> Unsettled(set1, set2)

\* handle_scancode: both decoders hear the code, one is believed, and the
\* fallback speaks when that one has no byte.
HandleScancode(k, code) ==
    LET one == Decode1(k.dec1, code)
        two == Decode2(k.dec2, code)
        chosen == SelectDecodedKey(k, one.input, two.input)
        byte == IF ProbeKey(chosen.input) THEN chosen.input ELSE ExtendedKey(k, code)
        heard == [PrefixFlags(k, code) EXCEPT !.dec1 = one.next, !.dec2 = two.next,
                                           !.active = chosen.active, !.only = chosen.only]
    IN  IF byte = None THEN heard ELSE Push([heard EXCEPT !.cold = FALSE], byte)

\* The codes of a sequence, one after the other; AUX bytes are thrown away.
HandleAll(k, codes) ==
    FoldLeft(HandleScancode, k, SelectSeq(codes, LAMBDA c : c # "aux"))
==================================================================================
