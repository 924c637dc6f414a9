------------------------------- MODULE MCUsers ------------------------------
(***************************************************************************)
(* What users see, checked as a sum: accounts and the access pages, the    *)
(* keyboards, the line editor and its screen, the commands on files, and   *)
(* what a session's processes may do.  A behaviour is about one part.      *)
(***************************************************************************)
EXTENDS WarShell, Input, MCShellLoop, Access, Capabilities

-----------------------------------------------------------------------------
(* Files: one ordinary user beside root, at most three files of at most    *)
(* two tokens each.  A behaviour is about command lines, about aliases, or *)
(* about programs between a few command lines.                             *)

A == Absolute(<<"a">>)
F == Absolute(<<"d", "f">>)
D == Absolute(<<"d">>)
Mine == [from |-> "~", comps |-> <<"a">>]
Here == [from |-> ".", comps |-> <<"a">>]

TheUsers == {"u"}
MCValid == {"a", "d", "f", "tmp", ".pipe_buf", WarDir, "home", "root", "u", "sys"}
MCLineOf == [tok \in {"x", "q"} |-> IF tok = "x" THEN <<"write", A, <<"x">>>> ELSE <<"logout">>]
MCProgramPaths == {<<"d">>, <<"d", "f">>}
MCProgramBytes == {"x"}
MCSysInfo == {<<"i">>, <<"i", "i">>}

MCLines ==
  { <<"write", A, <<"x">>>>, <<"write", Mine, <<"x">>>>, <<"touch", A>>,
    <<"rm", A>>, <<"mkdir", D>>, <<"rmdir", D>>, <<"cd", D>>, <<"rm", Here>>,
    <<"cp", A, F>>, <<"mv", A, F>>, <<"mv", F, A>>, <<"mv", A, A>>,
    <<"chmod", <<"r", "w", "r", "w">>, A>>, <<"chmod", <<"-", "-", "x", "-">>, A>>,
    <<"su", "u", TRUE>>, <<"su", "root", FALSE>>, <<"logout">>, <<"source", A>>,
    <<"|", <<"cat", A>>, <<"grep", "x", PipeBuf>>>>, <<"|", <<"cat", A>>, <<"su", "u", FALSE>>>>,
    <<">", <<"|", <<"cat", A>>, <<"cat", PipeBuf>>>>, F>>,
    <<">>", <<"echo", <<"q">>>>, A>>, <<">", <<"source", A>>, A>>,
    <<"diff", A, F>>, <<">", <<"head", A, 1>>, A>>, <<">", <<"tail", A, 1>>, A>>,
    <<"wc", F>> }

AliasLines ==
  { <<"alias", "wc", <<"wc", A>>>>, <<"wc", F>>, <<"unalias", "wc">>,
    <<"alias", "lo", <<"source", A>>>>, <<">>", <<"lo">>, F>>, <<"mkdir", D>>,
    <<">>", <<"echo", <<"q">>>>, A>>, <<"write", A, <<"x">>>>, <<"su", "u", TRUE>>, <<"logout">> }

FewLines ==
  { <<"write", F, <<"x">>>>, <<"rm", F>>, <<"mkdir", D>>, <<"write", A, <<"x">>>>,
    <<"chmod", <<"r", "-", "-", "-">>, F>>, <<"su", "u", TRUE>>, <<"su", "root", TRUE>> }

FileParts == {"lines", "aliases", "fds"}
FilePartsNext ==
  \/ about \in FileParts /\ (Reboot \/ Login)
  \/ about = "lines" /\ LinesNext(CommandLines)
  \/ about = "aliases" /\ LinesNext(AliasLines)
  \/ about = "fds" /\ (LinesNext(FewLines) \/ ProgramNext)

\* Accounts: "bo" is too short for the login screen, and "a.b" has a dot, which
\* the database refuses.
\* A behaviour is about the accounts, with preferences that stay, or about the
\* preferences, with at most one account beside root.
AccessParts == {"accounts", "prefs"}
AccessPartsNext ==
  \/ about = "accounts" /\ AccessNext /\ UNCHANGED <<ui, uiFile>>
  \/ about = "prefs" /\ AccessNext /\ db'.next <= 2
Lengths == [abc |-> 3, waros |-> 5, changeme |-> 8]

-----------------------------------------------------------------------------
(* The sum.                                                                *)

FilesAtRest == \E info \in SysInfo : Len(info) = 1 /\ m = Booted(<<>>, info) /\ fds = <<>>
InputAtRest == InputInit /\ flags.present /\ ~flags.failed /\ ~usbKbd.plugged

\* Bounds: three taps on a USB keyboard alone, one key where both keyboards are
\* there, and on a PS/2 keyboard alone two, the second of an ordinary key (only
\* "a" where the controller did not answer).
SecondKeys == IF flags.failed THEN {"a"} ELSE {"a", "enter"}
KeysNext ==
  /\ InputNext
  /\ flags.present /\ usbKbd.plugged => tapped' <= 1
  /\ flags.present /\ tapped = 1 /\ tapped' = 2
     => typed'.ps2 # typed.ps2 /\ Last(typed'.ps2) \in SecondKeys

UsersInit ==
  \/ about = "fds" /\ Init /\ InputAtRest /\ ShellInit /\ AccessInit /\ CapsInit
  \/ about = "keys" /\ InputInit /\ FilesAtRest /\ ShellInit /\ AccessInit /\ CapsInit
  \/ about \in LoopParts \cup AccessParts \cup {"lines", "aliases", "caps"}
     /\ FilesAtRest /\ InputAtRest /\ ShellInit /\ AccessInit /\ CapsInit

\* Every part but the shell's loop may really stop.
UsersNext ==
  /\ UNCHANGED about
  /\ \/ FilePartsNext /\ UNCHANGED <<inputVars, shellvars, accessVars, capvars>>
     \/ about = "keys" /\ KeysNext /\ UNCHANGED <<vars, shellvars, accessVars, capvars>>
     \/ LoopPartsNext /\ UNCHANGED <<vars, inputVars, accessVars, capvars>>
     \/ AccessPartsNext /\ UNCHANGED <<vars, inputVars, shellvars, capvars>>
     \/ about = "caps" /\ CapsNext /\ UNCHANGED <<vars, inputVars, shellvars, accessVars>>
     \/ about \notin LoopParts
        /\ UNCHANGED <<vars, inputVars, shellvars, accessVars, capvars>>

UsersSpec ==
  /\ UsersInit
  /\ [][UsersNext]_<<about, vars, inputVars, shellvars, accessVars, capvars>>
=============================================================================
