----------------------------- MODULE ShellLoop -----------------------------
(* The interactive loop of the shell (shell/mod.rs): line editing on the text *)
(* console, the command history, and interactive::service, which polls the    *)
(* background tasks, the network and the USB ports when the user leaves the   *)
(* prompt alone.  Keys arrive, and time passes, between any two steps.        *)
(*                                                                            *)
(* Time: the interactive module's deadlines are kept as the ticks that are    *)
(* left (-1 once over), its last-done stamps as the ticks since then.         *)
EXTENDS Console

CONSTANTS
    Chars,          \* the characters keys can type
    InputLimit,     \* INPUT_LIMIT
    HistoryLimit,   \* HISTORY_LIMIT
    KeyLimit,     \* keys that can wait
    BurstLimit,     \* SHELL_BURST_DRAIN_LIMIT
    MaxTasks,       \* bound on the background tasks spawned
    Ticks           \* the grace periods and intervals, by name

ASSUME ShellLoopAssumption ==
    /\ InputLimit \in Nat /\ HistoryLimit \in Nat \ {0}
    /\ KeyLimit \in Nat /\ BurstLimit \in Nat /\ MaxTasks \in Nat
    /\ Ticks.fast < Ticks.recent /\ Ticks.recent < Ticks.warm
    /\ Ticks.warm < Ticks.armed

VARIABLES
    con,       \* CONSOLE
    cursorOn,   \* INPUT_CURSOR_ENABLED
    line,      \* run's input, truncated, history_index (0: None), history_draft
    lineHistory,   \* HISTORY, every entry with the user who submitted it
    timers,    \* interactive's statics
    keys,      \* the bytes hal::input holds
    shellTasks,     \* background tasks that wait to be polled, by the polls they need
    shellUser,      \* who is logged in (0: nobody)
    pc,        \* where run is
    drained    \* burst_drained

shellvars == <<con, cursorOn, line, lineHistory, timers, keys, shellTasks, shellUser, pc, drained>>

NoIndex == 0
Never == -1
Prompt == <<">">>
KeyBytes == Chars \cup {"enter", "back", "esc", "up", "down"}
ShellUsers == {1, 2}

-----------------------------------------------------------------------------
(* interactive.rs: what is noted about the prompt. *)

\* The ticks left of a period that starts now, and of one stored as 0.
Until(n) == n
Over == -1

Active(left) == left >= 0

\* enter(Shell): every shell timer is reset; the stamps of service stay.
Enter(r) ==
    [r EXCEPT !.fast = Over, !.active = FALSE, !.edited = Over, !.warm = Over,
              !.armed = Over, !.reason = "none"]

\* arm_shell_empty_prompt
Arm(r, reason) ==
    [r EXCEPT !.since = 0, !.active = FALSE, !.armed = Until(Ticks.armed),
              !.reason = reason]

NoteInputActivity(r, active) ==
    LET s == [r EXCEPT !.since = 0, !.active = active, !.fast = Until(Ticks.fast)] IN
    IF active THEN [s EXCEPT !.edited = Over, !.warm = Over, !.armed = Over] ELSE s

\* note_shell_reprompt and note_shell_startup_prompt
NotePrompt(r, reason) ==
    [Arm(r, reason) EXCEPT !.fast = Until(Ticks.reprompt), !.edited = Over,
                           !.warm = Until(Ticks.warm)]

\* note_shell_empty_prompt_armed; its callers pass the edited reasons only.
NoteEmptyPrompt(r, reason) ==
    [Arm(r, reason) EXCEPT !.warm = Over, !.fast = Until(Ticks.editedFast),
                           !.edited = Until(Ticks.warm)]

-----------------------------------------------------------------------------
(* interactive::service. *)

FastMode(r) == r.active \/ Active(r.fast)
Recent(r) == r.since < Ticks.recent
Warm(r) == Active(r.warm) \/ Active(r.edited)

\* shell_hot_path_busy
Busy(r, pending) == pending \/ Recent(r) \/ FastMode(r) \/ Warm(r)

\* The interval of a service, given its intervals in the four modes.
Interval(r, of) ==
    IF FastMode(r) THEN of.fast
    ELSE IF Warm(r) THEN of.warm
    ELSE IF Active(r.armed) THEN of.armed ELSE of.idle

\* tick.saturating_sub(last), 0 for a stamp of u64::MAX
Elapsed(stamp) == IF stamp = Never THEN 0 ELSE stamp

TaskDue(r, pending) ==
    /\ ~Busy(r, pending) /\ shellTasks # <<>> /\ ~pending
    /\ Elapsed(r.task) >= Interval(r, Ticks.taskEvery)

NetDue(r, pending) ==
    /\ ~Busy(r, pending)
    /\ r.net = Never \/ Elapsed(r.net) >= Interval(r, Ticks.netEvery)

UsbDue(r, pending) ==
    /\ ~Busy(r, pending)
    /\ Elapsed(r.usb) >= Interval(r, Ticks.netEvery)

\* TaskScheduler::tick: one poll of every task; a finished task leaves.
Polled(seq) ==
    SelectSeq([i \in DOMAIN seq |-> seq[i] - 1], LAMBDA left : left > 0)

Serviced(r, pending) ==
    [r EXCEPT !.task = IF TaskDue(r, pending) THEN 0 ELSE @,
              !.net = IF NetDue(r, pending) THEN 0 ELSE @,
              !.usb = IF UsbDue(r, pending) THEN 0 ELSE @]

\* What a finished background command leaves on the screen.
TaskOutput == <<"\n", "o", "\n">> \o Prompt

RunTasks(c) == IF 1 \in Range(shellTasks) THEN WriteStr(c, TaskOutput) ELSE c

\* service(Shell), the first half of poll_keypress; dequeue_keypress is next.
Service ==
    /\ pc = "poll" /\ shellUser # 0
    /\ LET pending == keys # <<>>
           run == TaskDue(timers, pending)
           c == IF run THEN RunTasks(con) ELSE con
       IN  /\ timers' = Serviced(timers, pending)
           /\ shellTasks' = IF run THEN Polled(shellTasks) ELSE shellTasks
           /\ con' = IF cursorOn THEN ShowInputCursor(c) ELSE HideInputCursor(c)
    /\ pc' = "take"
    /\ UNCHANGED <<cursorOn, line, lineHistory, keys, shellUser, drained>>

Aged(stamp, bound) == IF stamp = Never \/ stamp >= bound THEN stamp ELSE stamp + 1
Passed(left) == IF left = Over THEN Over ELSE left - 1

\* The timer interrupt.  Stamps stop where no interval is longer.
ShellTick ==
    /\ shellUser # 0
    /\ timers' = [timers EXCEPT !.since = Aged(@, Ticks.recent), !.fast = Passed(@),
                           !.edited = Passed(@), !.warm = Passed(@), !.armed = Passed(@),
                           !.task = Aged(@, Ticks.taskEvery.idle),
                           !.net = Aged(@, Ticks.netEvery.idle),
                           !.usb = Aged(@, Ticks.netEvery.idle)]
    /\ UNCHANGED <<con, cursorOn, line, lineHistory, keys, shellTasks, shellUser, pc, drained>>

-----------------------------------------------------------------------------
(* The command history. *)

\* trim
Trimmed(text) ==
    LET ink == {i \in DOMAIN text : text[i] # Blank} IN
    IF ink = {} THEN <<>> ELSE SubSeq(text, Min(ink), Max(ink))

\* CommandHistory::push
PushLine(h, text) ==
    LET cmd == Trimmed(text)
        kept == IF Len(h) = HistoryLimit THEN Tail(h) ELSE h
    IN  IF cmd = <<>> \/ (h # <<>> /\ Last(h).text = cmd) THEN h
        ELSE Append(kept, [text |-> cmd, who |-> shellUser])

-----------------------------------------------------------------------------
(* process_shell_byte.  An edit gives the line, the console and the notes the   *)
(* handler takes before its tail.                                              *)

\* Backspaces over n characters of the line.
Erased(c, n) == FoldLeft(LAMBDA d, i : Backspace(d), c, [i \in 1..n |-> i])

ForceVisible(c) == IF cursorOn THEN ShowInputCursor(c) ELSE c

\* replace_visible_input, and the cursor shown again
Replaced(l, text, c) ==
    LET new == SubSeq(text, 1, Min({Len(text), InputLimit})) IN
    [line |-> [l EXCEPT !.input = new, !.truncated = FALSE],
     con |-> ForceVisible(WriteStr(Erased(c, Len(l.input)), new))]

TypeChar(b) ==
    LET fits == Len(line.input) < InputLimit
        l == [line EXCEPT !.index = NoIndex]
    IN  IF fits THEN [line |-> [l EXCEPT !.input = Append(@, b)],
                      con |-> ForceVisible(WriteStr(con, <<b>>))]
        ELSE [line |-> [l EXCEPT !.truncated = TRUE], con |-> con]

BackspaceKey ==
    LET l == [line EXCEPT !.index = NoIndex, !.truncated = FALSE] IN
    IF line.input = <<>> THEN [line |-> l, con |-> con]
    ELSE [line |-> [l EXCEPT !.input = Front(@)],
          con |-> ForceVisible(Backspace(con))]

EscKey == Replaced([line EXCEPT !.index = NoIndex, !.draft = <<>>], <<>>, con)

\* With a history: the first Up keeps the line as the draft.
UpKey ==
    LET i == IF line.index = NoIndex THEN Len(lineHistory)
             ELSE Max({line.index - 1, 1})
        l == IF line.index = NoIndex THEN [line EXCEPT !.draft = line.input] ELSE line
    IN  Replaced([l EXCEPT !.index = i], lineHistory[i].text, con)

\* While browsing: the next entry, or the draft after the newest.
DownKey ==
    IF line.index + 1 <= Len(lineHistory)
    THEN Replaced([line EXCEPT !.index = @ + 1], lineHistory[line.index + 1].text, con)
    ELSE Replaced([line EXCEPT !.index = NoIndex], line.draft, con)

\* The reason process_shell_byte notes when the key leaves the line empty.
EmptyReason(b, was) ==
    CASE b = "back" /\ was # <<>> -> "backspace"
      [] b = "esc" -> "esc"
      [] b \in {"up", "down"} -> "history"
      [] OTHER -> IF was # <<>> THEN "other" ELSE "none"

\* The tail of process_shell_byte.
Noted(r, b, was, now) ==
    LET why == EmptyReason(b, was) IN
    IF now # <<>> THEN NoteInputActivity(r, TRUE)
    ELSE IF why # "none" THEN NoteEmptyPrompt(r, why)
    ELSE NoteInputActivity(r, FALSE)

\* A key other than Enter.  The panel is drawn when a key comes, and again after
\* its edit, over what the edit wrote.
Edit(b, r) ==
    LET skipped == (b = "up" /\ lineHistory = <<>>) \/ (b = "down" /\ line.index = NoIndex)
        e == CASE b \in Chars -> TypeChar(b)
               [] b = "back" -> BackspaceKey
               [] b = "esc" -> EscKey
               [] b = "up" -> UpKey
               [] OTHER -> DownKey
    IN  IF skipped
        THEN /\ timers' = NoteInputActivity(r, line.input # <<>>)
             /\ con' = PaintPanel(con) /\ UNCHANGED line
        ELSE /\ line' = e.line /\ con' = PaintPanel(e.con)
             /\ timers' = Noted(r, b, line.input, e.line.input)

NewLine == [input |-> <<>>, truncated |-> FALSE, index |-> NoIndex, draft |-> <<>>]

\* What a command does that the loop can tell, on a console: most print something
\* or clear the screen.
Effect(c) == [con |-> c, tasks |-> shellTasks, user |-> shellUser, keys |-> Tail(keys)]

Quiet(c) == {Effect(c)}

Printing(c) ==
    {Effect(d) : d \in {WriteStr(c, <<"o">>), WriteStr(c, <<"o", "\n">>), ClearScreen(c)}}

\* spawn_command: a task yields once and then runs to its end.
SpawnCommand(c) ==
    {[Effect(WriteStr(c, <<"o", "\n">>)) EXCEPT !.tasks = Append(@, 2)] :
        n \in {Len(shellTasks)} \cap 0..MaxTasks - 1}

\* start_gui polls the tasks with rendering off, takes the keys and leaves a
\* cleared screen.
StartGui(c) ==
    {[Effect(ClearScreen(c)) EXCEPT !.tasks = seq, !.keys = <<>>] :
        seq \in {shellTasks, Polled(shellTasks), Polled(Polled(shellTasks))}}

LogOut(c) == {[Effect(WriteStr(c, <<"o", "\n">>)) EXCEPT !.user = 0]}

Effects(c) == Quiet(c) \cup Printing(c) \cup SpawnCommand(c) \cup StartGui(c) \cup LogOut(c)

\* The line is submitted: the history, the command, then a new prompt, after
\* which the tail takes the emptied line for an edited one; or, once logged
\* out, the end of run.
Submit(r) ==
    LET c == Newline(HideInputCursor(PaintPanel(con))) IN
    \E e \in IF Trimmed(line.input) = <<>> THEN Quiet(c) ELSE Effects(c) :
        LET warned == IF line.truncated THEN WriteStr(e.con, <<"w", "\n">>) ELSE e.con IN
        /\ lineHistory' = PushLine(lineHistory, line.input)
        /\ line' = NewLine
        /\ shellTasks' = e.tasks /\ keys' = e.keys /\ shellUser' = e.user
        /\ IF e.user = 0
           THEN con' = warned /\ cursorOn' = FALSE /\ timers' = r
           ELSE /\ con' = PaintPanel(ShowInputCursor(WriteStr(warned, Prompt)))
                /\ cursorOn' = TRUE
                /\ timers' = Noted(NotePrompt(r, "reprompt"), "enter", line.input, <<>>)

\* dequeue_keypress and process_shell_byte; run goes on draining the keys.
ProcessByte ==
    LET b == Head(keys)
        r == [timers EXCEPT !.since = 0, !.fast = Until(Ticks.fast)]
    IN  IF b = "enter" THEN Submit(r) /\ pc' = IF shellUser' = 0 THEN "out" ELSE "burst"
        ELSE /\ Edit(b, r)
             /\ keys' = Tail(keys) /\ pc' = "burst"
             /\ UNCHANGED <<cursorOn, lineHistory, shellTasks, shellUser>>

\* The end of read_input: a key, or none yet or none in time; the first two
\* timeouts, and then one in 128, draw the panel.
Take ==
    /\ pc = "take"
    /\ drained' = 0
    /\ IF keys # <<>> THEN ProcessByte
       ELSE /\ pc' = "poll"
            /\ con' \in {con, PaintPanel(con)}
            /\ UNCHANGED <<cursorOn, line, lineHistory, timers, keys, shellTasks, shellUser>>

\* run takes what else is ready, a burst at most, before it services again (the
\* panel it then draws is the one the last key left).
Burst ==
    /\ pc = "burst"
    /\ IF keys # <<>> /\ drained < BurstLimit THEN ProcessByte /\ drained' = drained + 1
       ELSE /\ pc' = "poll" /\ drained' = 0
            /\ UNCHANGED <<con, cursorOn, line, lineHistory, timers, keys, shellTasks, shellUser>>

\* The kernel's main loop after run: shell::history::clear.
SessionEnd ==
    /\ pc = "out"
    /\ lineHistory' = <<>> /\ pc' = "login"
    /\ UNCHANGED <<con, cursorOn, line, timers, keys, shellTasks, shellUser, drained>>

\* A login, which takes the keys typed for it, and the start of run.
ShellLogin ==
    /\ pc = "login"
    /\ shellUser' \in ShellUsers /\ keys' = <<>>
    /\ \E c \in {WriteStr(con, <<"o", "\n">>), ClearScreen(con)} :
         con' = PaintPanel(ShowInputCursor(
                    WriteStr(PaintPanel(c), <<"\n", "o", "\n">> \o Prompt)))
    /\ cursorOn' = TRUE
    /\ line' = NewLine
    /\ timers' = NotePrompt(Enter(timers), "startup")
    /\ pc' = "poll" /\ drained' = 0
    /\ UNCHANGED <<lineHistory, shellTasks>>

\* A key is pressed and its byte queued.
Press(b) ==
    /\ shellUser # 0 /\ Len(keys) < KeyLimit
    /\ keys' = Append(keys, b)
    /\ UNCHANGED <<con, cursorOn, line, lineHistory, timers, shellTasks, shellUser, pc, drained>>

\* After boot, which no one has typed in: interactive's statics.
ShellInit ==
    /\ con = NewConsole /\ cursorOn = FALSE /\ line = NewLine /\ lineHistory = <<>>
    /\ timers = [since |-> Ticks.recent, fast |-> Over, active |-> FALSE, edited |-> Over,
                 warm |-> Over, armed |-> Over, reason |-> "none",
                 task |-> Never, net |-> Never, usb |-> Ticks.netEvery.idle]
    /\ keys = <<>> /\ shellTasks = <<>> /\ shellUser = 0 /\ pc = "login"
    /\ drained = 0

Loop == Service \/ Take \/ Burst \/ SessionEnd \/ ShellLogin

ShellNext == Loop \/ ShellTick \/ \E b \in KeyBytes : Press(b)

ShellSpec == ShellInit /\ [][ShellNext]_shellvars

-----------------------------------------------------------------------------
(* Properties. *)

AtPrompt == pc \in {"poll", "take", "burst"}

\* The prompt tells the truth.  Outside the debug panel, which is drawn over the
\* text after every key and hides what stands there, the user sees what Enter will
\* submit: in front of the cursor stand the prompt and the input, whatever was
\* typed, erased (backspace goes back over row ends), recalled or printed before,
\* no part of a panel that scrolled away is left in it, and the cursor covers no
\* text, which hide_input_cursor would erase.  A line counts as active exactly
\* while it has characters, and then none of the empty prompt's timers runs.  And
\* what can be recalled is the user's own, su aside ("Clear shell history at
\* session teardown to avoid cross-session leakage.").
PromptTellsTheTruth ==
    AtPrompt =>
        LET text == Prompt \o line.input
            at == con.row * Cols + con.col
            spot == Before(con, Len(text))
        IN
        /\ at >= Len(text)
        /\ \A i \in DOMAIN text : CellAt(spot[i]) \notin Panel => Shows(con, spot[i]) = text[i]
        /\ CellAt(at) \notin Panel => Shows(con, at) = Blank
        /\ timers.active <=> line.input # <<>>
        /\ timers.active => timers.warm = Over /\ timers.edited = Over /\ timers.armed = Over
        /\ \A i \in DOMAIN lineHistory : lineHistory[i].who = shellUser
============================================================================
