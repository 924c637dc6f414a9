----------------------------- MODULE AtomicDisk -----------------------------
(***************************************************************************)
(* What the file system may rely on in a disk: sectors that are read and   *)
(* written one at a time.  A sector whose write has failed may read as     *)
(* before or as written, until a write to it succeeds; every other sector  *)
(* reads as last written.                                                  *)
(***************************************************************************)
EXTENDS Naturals

CONSTANTS Sectors, Data, Blank

VARIABLES
    contents,  \* for each sector, the values a read may return
    writing,   \* the write under way, <<sector, data>>, or <<>>
    reply      \* the answer to the last call

vars == <<contents, writing, reply>>

Init ==
    /\ contents = [s \in Sectors |-> {Blank}]
    /\ writing = <<>>
    /\ reply = <<"none">>

Begin(s, d) ==
    /\ writing = <<>>
    /\ writing' = <<s, d>>
    /\ UNCHANGED <<contents, reply>>

\* The next contents are c, but for values a failed write had left in doubt and
\* of which some are forgotten.
Settles(c) ==
    /\ contents' \in [Sectors -> SUBSET Data]
    /\ \A s \in Sectors : contents'[s] # {} /\ contents'[s] \subseteq c[s]

\* The data is on its way: the old value, the new one or both may be there.
Transfer ==
    /\ writing # <<>>
    /\ Settles([contents EXCEPT ![writing[1]] = @ \cup {writing[2]}])
    /\ UNCHANGED <<writing, reply>>

Commit ==
    /\ writing # <<>>
    /\ Settles([contents EXCEPT ![writing[1]] = {writing[2]}])
    /\ reply' = <<"wrote", writing[1], writing[2]>>
    /\ writing' = <<>>

Fail ==
    /\ reply' = <<"failed">>
    /\ writing' = <<>>
    /\ UNCHANGED contents

Read(s) ==
    /\ writing = <<>>
    /\ \E v \in contents[s] : reply' = <<"read", s, v>>
    /\ Settles(contents)
    /\ UNCHANGED writing

Settle ==
    /\ Settles(contents)
    /\ UNCHANGED <<writing, reply>>

Next ==
    \/ \E s \in Sectors : Read(s) \/ \E d \in Data : Begin(s, d)
    \/ Transfer \/ Commit \/ Fail \/ Settle

Spec == Init /\ [][Next]_vars
=============================================================================
