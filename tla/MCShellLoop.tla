---------------------------- MODULE MCShellLoop ----------------------------
(* Two parts of ShellLoop for TLC: lines are edited while the clock stands   *)
(* still, or little is typed and time passes.                                *)
EXTENDS ShellLoop, Parts

\* The grace periods and intervals of interactive.rs by rank: 25, 50, 64, 100,
\* 200, 256, 400, 600, 1200 and 4800 ticks.
TickRanks ==
    [fast |-> 3, recent |-> 4, editedFast |-> 6, reprompt |-> 8, warm |-> 9, armed |-> 10,
     taskEvery |-> [fast |-> 1, warm |-> 4, armed |-> 5, idle |-> 5],
     netEvery |-> [fast |-> 2, warm |-> 5, armed |-> 7, idle |-> 7]]

\* One column of three, in the two upper rows.
TopMiddle == {<<0, 1>>, <<1, 1>>}

LoopParts == {"edit", "time"}

\* Bounds: one user edits, without background tasks; lines are short where time
\* passes.
LoopPartsNext ==
    \/ /\ about = "edit"
       /\ Loop \/ \E b \in KeyBytes : Press(b)
       /\ shellUser' # 2 /\ shellTasks' = <<>>
    \/ /\ about = "time"
       /\ \/ Loop
          \/ ShellTick
          \/ line.input = <<>> /\ keys = <<>> /\ Press("a")
          \/ keys = <<>> /\ Press("enter")
============================================================================
