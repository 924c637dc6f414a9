------------------------------- MODULE Access -------------------------------
(* Who may use the machine: the user database and the file it is saved in, the *)
(* first-boot setup, the login screen with its preferences page, the session,  *)
(* and the shell commands that change accounts, the session or the shared      *)
(* preferences. A save may be refused by the file system, or lost on the way   *)
(* to the disk, and the power may fail at any time.                            *)
EXTENDS Integers, FiniteSets, Functions

CONSTANTS
    Names,          \* the user names that are typed
    DatabaseNames,  \* names users.rs accepts: 1 to 32 letters, digits, underscores
    LoginNames,     \* names login.rs accepts: 3 to 32 of these, dots and dashes
    Passwords,      \* the passwords that are typed
    LengthOf,       \* and their lengths: users.rs asks for 4 characters, the setup for 8
    Languages,      \* the number of supported languages
    MaxUsers,       \* MAX_USERS
    LastUid,        \* accounts are no longer made at this value of next_uid: far from 65535
    MaxPowerCuts    \* how often the power fails

ASSUME AccessAssumption ==
    /\ Languages \in Nat \ {0} /\ MaxUsers \in Nat \ {0}
    /\ LastUid \in Nat \ {0} /\ MaxPowerCuts \in Nat
    /\ "root" \in DatabaseNames \cap LoginNames

VARIABLES
    db,        \* USER_DB: the accounts by uid, and next_uid
    dbFile,    \* users.db on the disk; NoFile when there is none that can be read
    behind,    \* the device failed in the last save of users.db, which nobody was told
    firstBoot, \* FIRST_BOOT_PENDING
    session,   \* CURRENT_SESSION
    ui,        \* UI_PREFERENCES
    uiFile,    \* the preferences file
    stage,     \* where the kernel's main loop is
    page,      \* the preferences page: the focus, and whether it changed something
    attempts,  \* failed_attempts of the login screen
    cuts,      \* power failures so far
    issued     \* every uid an account of this database was saved under (history)

accessVars ==
    <<db, dbFile, behind, firstBoot, session, ui, uiFile, stage, page, attempts, cuts, issued>>

NoFile == [users |-> <<>>, next |-> 0]
NoSession == [uid |-> -1, name |-> "", role |-> ""]
Recovery == [uid |-> 0, name |-> "recovery", role |-> "admin"]
NoPage == [focus |-> "", dirty |-> FALSE]

ValidInDatabase(name) == name \in DatabaseNames
ValidAtLogin(name) == name \in LoginNames
IsStrongEnough(pass) == LengthOf[pass] >= 8

-----------------------------------------------------------------------------
(* The database: operators from a database to a database.                     *)

UidsNamed(d, name) == {u \in DOMAIN d.users : d.users[u].name = name}
Known(d, name) == UidsNamed(d, name) # {}
FindByName(d, name) == CHOOSE u \in UidsNamed(d, name) : TRUE

CanCreate(d, name, pass) ==
    /\ ValidInDatabase(name) /\ LengthOf[pass] >= 4
    /\ ~Known(d, name) /\ Cardinality(DOMAIN d.users) < MaxUsers

\* A number is given out once.
UidFor(d) == d.next

Put(users, u, account) ==
    [v \in DOMAIN users \cup {u} |-> IF v = u THEN account ELSE users[v]]

CreateUser(d, name, pass, role) ==
    [users |-> Put(d.users, UidFor(d), [name |-> name, pass |-> pass, role |-> role]),
     next |-> d.next + 1]

CanDelete(d, u) == u # 0 /\ u \in DOMAIN d.users
DeleteUser(d, u) == [d EXCEPT !.users = Restrict(@, DOMAIN @ \ {u})]

\* The account goes back under its number. (Mutant: a failed deletion stands.)
BugRestoreUserForRollback(d, u, account) == d
RestoreUserForRollback(d, u, account) ==
    IF u \in DOMAIN d.users THEN d
    ELSE [users |-> Put(d.users, u, account),
          next |-> IF d.next > u THEN d.next ELSE u + 1]

ChangePassword(d, u, pass) == [d EXCEPT !.users[u].pass = pass]
Authenticate(d, name, pass) == Known(d, name) /\ d.users[FindByName(d, name)].pass = pass
SessionOf(d, u) == [uid |-> u, name |-> d.users[u].name, role |-> d.users[u].role]

WithDefaultRoot == CreateUser(NoFile, "root", "waros", "admin")

\* How a save ends: the file system refuses it; the device fails on the way, an
\* error that is dropped; or it is on the disk. The caller only sees the first fail.
Outcomes == {"refused", "dropped", "saved"}
Accepted(how) == how # "refused"

\* The blocks of users.db are overwritten in place and its entry, with the size,
\* is written last. A save that stops on the way leaves the old database or the
\* new one or, when accounts came or went, a file that cannot be read. (Records
\* of accounts are taken to lie each in one sector.)
Left(d) ==
    {dbFile, d} \cup (IF DOMAIN d.users = DOMAIN dbFile.users THEN {} ELSE {NoFile})

\* try_save_to_fs. When the power fails in the middle, the disk is as after a
\* dropped error. (Mutant: next_uid is not saved but taken to follow the highest
\* number in use.)
BugSave(d, how) ==
    LET e == [d EXCEPT !.next = CHOOSE k \in 1 .. d.next :
                  k - 1 \in DOMAIN d.users /\ DOMAIN d.users \subseteq 0 .. k - 1]
    IN /\ dbFile' = IF how = "saved" THEN e ELSE dbFile
       /\ behind' = (how = "dropped" \/ (how = "refused" /\ behind))
       /\ issued' = issued \cup DOMAIN dbFile'.users
Save(d, how) ==
    /\ \/ how = "refused" /\ UNCHANGED <<dbFile, behind>>
       \/ how = "dropped" /\ dbFile' \in Left(d) /\ behind' = TRUE
       \/ how = "saved" /\ dbFile' = d /\ behind' = FALSE
    /\ issued' = issued \cup DOMAIN dbFile'.users

-----------------------------------------------------------------------------
(* Boot, and the top of the main loop.                                        *)

DefaultPreferences == [lang |-> 0, zone |-> 0]

\* A line of the file that cannot be read counts as the default.
SavePreferences(prefs, how) ==
    uiFile' \in (CASE how = "refused" -> {uiFile}
                   [] how = "dropped" -> {uiFile, prefs, DefaultPreferences}
                   [] how = "saved" -> {prefs})
LoadPreferencesFromFs == uiFile

\* ui::init and auth::init: without a database that can be read the root account
\* is seeded and saved, and the setup is due. A refused save stops the boot.
Boot(how) ==
    /\ stage = "off"
    /\ ui' = LoadPreferencesFromFs
    /\ \/ /\ dbFile # NoFile
          /\ db' = dbFile /\ firstBoot' = FALSE /\ stage' = "choose"
          /\ UNCHANGED <<dbFile, behind, issued>>
       \/ /\ dbFile = NoFile
          /\ db' = WithDefaultRoot /\ Save(WithDefaultRoot, how)
          /\ firstBoot' = Accepted(how) /\ stage' = IF Accepted(how) THEN "choose" ELSE "halted"
    /\ UNCHANGED <<session, uiFile, page, attempts, cuts>>

OpenPage == page' = [focus |-> "language", dirty |-> FALSE]

\* Setup or login; after the first session, an update that is not confirmed may
\* ask for the recovery shell instead.
SelectAuth ==
    /\ stage \in {"choose", "again"}
    /\ \/ stage = "again" /\ session' = Recovery /\ stage' = "shell" /\ UNCHANGED <<page, attempts>>
       \/ firstBoot /\ stage' = "firstPage" /\ OpenPage /\ UNCHANGED <<session, attempts>>
       \/ ~firstBoot /\ stage' = "login" /\ attempts' = 0 /\ UNCHANGED <<session, page>>
    /\ UNCHANGED <<db, dbFile, behind, firstBoot, ui, uiFile, cuts, issued>>

\* With the power goes a database that cannot be read: the next one is new.
PowerCut ==
    /\ cuts < MaxPowerCuts /\ stage # "off"
    /\ cuts' = cuts + 1 /\ stage' = "off"
    /\ db' = NoFile /\ firstBoot' = FALSE /\ session' = NoSession
    /\ page' = NoPage /\ attempts' = 0 /\ ui' = DefaultPreferences
    /\ behind' = FALSE /\ issued' = IF dbFile = NoFile THEN {} ELSE issued
    /\ UNCHANGED <<dbFile, uiFile>>

-----------------------------------------------------------------------------
(* The preferences page, before the setup and from the login screen.          *)

OnPage == stage \in {"firstPage", "loginPage"}

NextFocus == [language |-> "layout", layout |-> "continue", continue |-> "language"]
FocusBack == [language |-> "continue", layout |-> "language", continue |-> "layout"]

StepWrapped(index, len, step) == (index + step) % len
CycleLanguage(step) == StepWrapped(ui.lang, Languages, step)
\* Of the layouts only US QWERTY is ready: cycling comes back to the one in use.
CycleReadyLayout == UNCHANGED <<ui, page>>

DirtyAfter(lang) == page.dirty \/ lang # ui.lang

\* Up and down: the language wraps around and counts as a change when it is one;
\* on "continue" the focus moves.
PageMove(step) ==
    LET lang == CycleLanguage(step)
    IN /\ OnPage
       /\ \/ /\ page.focus = "language"
             /\ ui' = [ui EXCEPT !.lang = lang]
             /\ page' = [page EXCEPT !.dirty = DirtyAfter(lang)]
          \/ page.focus = "layout" /\ CycleReadyLayout
          \/ /\ page.focus = "continue"
             /\ page' = [page EXCEPT !.focus = IF step = 1 THEN "language" ELSE "layout"]
             /\ UNCHANGED ui
       /\ UNCHANGED <<db, dbFile, behind, firstBoot, session, uiFile, stage, attempts, cuts, issued>>

PageFocus ==
    /\ OnPage
    /\ page' \in {[page EXCEPT !.focus = NextFocus[@]], [page EXCEPT !.focus = FocusBack[@]]}
    /\ UNCHANGED <<db, dbFile, behind, firstBoot, session, ui, uiFile, stage, attempts, cuts, issued>>

CommitOnboardingPreferences(how) ==
    IF page.dirty THEN SavePreferences(ui, how) ELSE UNCHANGED uiFile

\* Enter: what was changed on this visit is saved; a failing save only warns.
PageConfirm(how) ==
    /\ OnPage
    /\ CommitOnboardingPreferences(how)
    /\ stage' = IF stage = "firstPage" THEN "setup" ELSE "login"
    /\ page' = NoPage
    /\ UNCHANGED <<db, dbFile, behind, firstBoot, session, ui, attempts, cuts, issued>>

\* Escape: the setup insists; the login screen goes on with what is selected.
PageBack ==
    /\ stage = "loginPage" /\ stage' = "login" /\ page' = NoPage
    /\ UNCHANGED <<db, dbFile, behind, firstBoot, session, ui, uiFile, attempts, cuts, issued>>

-----------------------------------------------------------------------------
(* The setup and the login screen.                                            *)

\* first_boot_setup: one round of its loop that reaches create_user; an account
\* that cannot be saved is taken back and the round starts over.
FirstBootSetup(name, pass, how) ==
    LET made == CreateUser(db, name, pass, "admin")
    IN /\ stage = "setup" /\ ValidAtLogin(name) /\ IsStrongEnough(pass)
       /\ db.next < LastUid /\ CanCreate(db, name, pass)
       /\ Save(made, how)
       /\ \/ /\ Accepted(how) /\ db' = made /\ firstBoot' = FALSE
             /\ session' = SessionOf(made, UidFor(db)) /\ stage' = "shell"
          \/ /\ ~Accepted(how) /\ db' = DeleteUser(made, UidFor(db))
             /\ UNCHANGED <<firstBoot, session, stage>>
       /\ UNCHANGED <<ui, uiFile, page, attempts, cuts>>

OpenPreferences ==
    /\ stage = "login" /\ stage' = "loginPage" /\ OpenPage
    /\ UNCHANGED <<db, dbFile, behind, firstBoot, session, ui, uiFile, attempts, cuts, issued>>

\* A login is recorded in the database, whose save may fail without effect; the
\* third failure in a row waits and starts the count again.
LoginScreen(name, pass, how) ==
    /\ stage = "login" /\ ValidAtLogin(name)
    /\ \/ /\ Authenticate(db, name, pass)
          /\ Save(db, how)
          /\ session' = SessionOf(db, FindByName(db, name)) /\ stage' = "shell"
          /\ UNCHANGED attempts
       \/ /\ ~Authenticate(db, name, pass)
          /\ attempts' = (attempts + 1) % 3
          /\ UNCHANGED <<dbFile, behind, issued, session, stage>>
    /\ UNCHANGED <<db, firstBoot, ui, uiFile, page, cuts>>

-----------------------------------------------------------------------------
(* The shell's commands. A command the session has no right to changes nothing. *)

InShell == stage = "shell"
AdminAccount == session.role = "admin"
AccountsOnly == UNCHANGED <<firstBoot, session, ui, uiFile, stage, page, attempts, cuts>>

CmdUseradd(name, role, how) ==
    LET made == CreateUser(db, name, "changeme", role)
    IN /\ InShell /\ AdminAccount /\ db.next < LastUid /\ CanCreate(db, name, "changeme")
       /\ Save(made, how)
       /\ db' = IF Accepted(how) THEN made ELSE DeleteUser(made, UidFor(db))
       /\ AccountsOnly

CmdUserdel(name, how) ==
    LET u == FindByName(db, name)
        left == DeleteUser(db, u)
    IN /\ InShell /\ AdminAccount /\ Known(db, name) /\ CanDelete(db, u)
       /\ Save(left, how)
       /\ db' = IF Accepted(how) THEN left ELSE RestoreUserForRollback(left, u, db.users[u])
       /\ AccountsOnly

CmdPasswd(name, pass, how) ==
    LET u == FindByName(db, name)
        changed == ChangePassword(db, u, pass)
    IN /\ InShell /\ (name = session.name \/ AdminAccount)
       /\ Known(db, name) /\ LengthOf[pass] >= 4
       /\ Save(changed, how)
       /\ db' = IF Accepted(how) THEN changed ELSE ChangePassword(changed, u, db.users[u].pass)
       /\ AccountsOnly

\* An administrator becomes anyone, the others need the password.
AccessSu(name, pass, how) ==
    /\ InShell
    /\ IF AdminAccount THEN Known(db, name) ELSE Authenticate(db, name, pass)
    /\ Save(db, how)
    /\ session' = SessionOf(db, FindByName(db, name))
    /\ UNCHANGED <<db, firstBoot, ui, uiFile, stage, page, attempts, cuts>>

\* The shell returns to the main loop once the session is gone.
AccessLogout ==
    /\ InShell /\ session' = NoSession /\ stage' = "again"
    /\ UNCHANGED <<db, dbFile, behind, firstBoot, ui, uiFile, page, attempts, cuts, issued>>

PersistUiPreferencesIfAllowed(prefs, how) ==
    IF AdminAccount THEN SavePreferences(prefs, how) ELSE UNCHANGED uiFile

PrefsOnly == UNCHANGED <<db, dbFile, behind, firstBoot, session, stage, page, attempts, cuts, issued>>

CmdLanguage(lang, how) ==
    /\ InShell
    /\ ui' = [ui EXCEPT !.lang = lang]
    /\ PersistUiPreferencesIfAllowed(ui', how)
    /\ PrefsOnly

\* Only the layout in use is implemented: the command saves the preferences.
CmdKeyboard(how) ==
    /\ InShell /\ UNCHANGED ui
    /\ PersistUiPreferencesIfAllowed(ui, how)
    /\ PrefsOnly

CmdTimezone(zone, how) ==
    /\ InShell /\ AdminAccount
    /\ ui' = [ui EXCEPT !.zone = zone]
    /\ SavePreferences(ui', how)
    /\ PrefsOnly

-----------------------------------------------------------------------------
AccessInit ==
    /\ db = NoFile /\ dbFile = NoFile /\ behind = FALSE /\ firstBoot = FALSE
    /\ session = NoSession /\ ui = DefaultPreferences /\ uiFile = ui
    /\ stage = "off" /\ page = NoPage /\ attempts = 0 /\ cuts = 0 /\ issued = {}

AccessNext ==
    \/ SelectAuth \/ PowerCut \/ PageFocus \/ PageBack \/ OpenPreferences \/ AccessLogout
    \/ \E step \in {-1, 1} : PageMove(step)
    \/ \E how \in Outcomes :
        \/ Boot(how) \/ PageConfirm(how) \/ CmdKeyboard(how)
        \/ \E lang \in 0 .. Languages - 1 : CmdLanguage(lang, how)
        \/ \E zone \in {0, 1} : CmdTimezone(zone, how)
        \/ \E name \in Names :
            \/ \E role \in {"admin", "user"} : CmdUseradd(name, role, how)
            \/ CmdUserdel(name, how)
            \/ \E pass \in Passwords :
                \/ FirstBootSetup(name, pass, how) \/ LoginScreen(name, pass, how)
                \/ CmdPasswd(name, pass, how) \/ AccessSu(name, pass, how)

AccessSpec == AccessInit /\ [][AccessNext]_accessVars

-----------------------------------------------------------------------------
AccessRunning == stage \notin {"off", "halted"}

\* The type invariant: databases within MAX_USERS whose numbers lie below
\* next_uid and whose names differ (UserDB), and a session exactly in the shell.
AccessTypeOK ==
    /\ stage \in {"off", "halted", "choose", "again", "firstPage", "loginPage",
                  "setup", "login", "shell"}
    /\ \A d \in {db, dbFile} :
        /\ d.next \in 0 .. LastUid /\ DOMAIN d.users \subseteq 0 .. d.next - 1
        /\ Cardinality(DOMAIN d.users) <= MaxUsers
        /\ \A u, v \in DOMAIN d.users : d.users[u].name = d.users[v].name => u = v
    /\ (session = NoSession) <=> (stage # "shell")
    /\ ui.lang \in 0 .. Languages - 1 /\ attempts \in 0 .. 2

\* After every setup, login and command, whatever saves were refused, users.db
\* holds exactly the accounts and passwords in use: a useradd, userdel or passwd
\* that is not saved is undone in memory (cmd_useradd, cmd_userdel, cmd_passwd,
\* first_boot_setup), so no restart brings an account back or takes one away. A
\* device that fails in a save is not reported (maybe_sync_file_entry): then the
\* file may be behind, until the next save that gets through.
AccountsSaved ==
    AccessRunning /\ ~behind => db.users = dbFile.users /\ dbFile.next <= db.next

\* The number of a deleted account is never given to another one, over refused and
\* lost saves and restarts: files owned by it do not change hands (next_uid). Only
\* when users.db cannot be read does the boot start a new database, and the
\* numbers again (auth::init).
UidsFresh ==
    [][AccessRunning => \A u \in DOMAIN db'.users \ DOMAIN db.users : u \notin issued]_accessVars

\* The session is a copy of an account: as long as its number is in the database
\* it is still that account, however the accounts changed since (session::start).
SessionIsItsAccount ==
    session.uid \in DOMAIN db.users /\ session # Recovery
        => session = SessionOf(db, session.uid)

\* Someone can always log in and administer: root is in the database in use and
\* in every one that is on the disk, however its save ended, as an administrator
\* under a name the login screen takes (delete_user, with_default_root).
RootStays ==
    /\ AccessRunning => db # NoFile
    /\ \A d \in {db, dbFile} :
        d # NoFile => 0 \in DOMAIN d.users /\ d.users[0].role = "admin"
                      /\ ValidAtLogin(d.users[0].name)

\* The accounts in use, those in the file and the session agree, with root among
\* them.
AccountsAgree == AccountsSaved /\ SessionIsItsAccount /\ RootStays

=============================================================================
