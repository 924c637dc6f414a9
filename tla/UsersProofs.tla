---------------------------- MODULE UsersProofs -----------------------------
(***************************************************************************)
(* Accounts, sessions and user numbers for every set of names, passwords   *)
(* and languages, every limit on accounts, and any number of lost saves    *)
(* and power cuts.  Capability sets never grow, and the shell is the       *)
(* session's, for every set of capabilities and users and every size of    *)
(* the process table.                                                      *)
(***************************************************************************)
EXTENDS Access, Capabilities, FiniteSetTheorems, TLAPS

-----------------------------------------------------------------------------
(* Accounts and sessions.                                                  *)

Roles == {"admin", "user"}
Accounts == [name : Names \cup {"root"}, pass : Passwords \cup {"waros", "changeme"}, role : Roles]
Prefs == [lang : 0 .. Languages - 1, zone : {0, 1}]

\* Someone who can log in and administer.
RootIn(d) == 0 \in DOMAIN d.users /\ d.users[0].role = "admin" /\ ValidAtLogin(d.users[0].name)

\* What a database is, in memory and in the file.
Database(d) ==
    /\ d = [users |-> d.users, next |-> d.next]
    /\ d.next \in 0 .. LastUid
    /\ d.users \in [DOMAIN d.users -> Accounts]
    /\ DOMAIN d.users \subseteq 0 .. d.next - 1
    /\ Cardinality(DOMAIN d.users) <= MaxUsers
    /\ \A u, v \in DOMAIN d.users : d.users[u].name = d.users[v].name => u = v
    /\ d = NoFile \/ RootIn(d)

\* Every number that was saved lies below next_uid, in memory and in a file that
\* can be read, and a session's number has been given out, so that no account made
\* later has either. A file that cannot be read is forgotten with the power.
AccessInv ==
    /\ Database(db) /\ Database(dbFile)
    /\ stage \in {"off", "halted", "choose", "again", "firstPage", "loginPage",
                  "setup", "login", "shell"}
    /\ AccessRunning => RootIn(db) /\ issued \subseteq 0 .. db.next - 1
    /\ AccountsSaved
    /\ DOMAIN dbFile.users \subseteq issued
    /\ dbFile # NoFile => issued \subseteq 0 .. dbFile.next - 1
    /\ stage = "off" /\ dbFile = NoFile => issued = {}
    /\ session = NoSession <=> stage # "shell"
    /\ stage = "shell" => session.uid \in 0 .. db.next - 1
    /\ SessionIsItsAccount
    /\ ui \in Prefs /\ uiFile \in Prefs /\ attempts \in 0 .. 2

-----------------------------------------------------------------------------
(* The database.                                                           *)

LEMMA FiniteDatabase ==
    ASSUME NEW d, Database(d)
    PROVE  IsFiniteSet(DOMAIN d.users)
<1>1. d.next - 1 \in Int
  BY AccessAssumption DEF Database
<1>2. IsFiniteSet(0 .. d.next - 1)
  BY <1>1, FS_Interval
<1> QED
  BY <1>2, FS_Subset DEF Database

LEMMA EmptyDatabase == Database(NoFile) /\ DOMAIN NoFile.users = {} /\ NoFile.next = 0
<1>1. DOMAIN NoFile.users = {} /\ NoFile.next = 0 /\ NoFile.users = <<>>
  BY DEF NoFile
<1>2. Cardinality({}) = 0
  BY FS_EmptySet
<1>3. NoFile.users \in [DOMAIN NoFile.users -> Accounts]
  BY <1>1
<1>4. NoFile = [users |-> NoFile.users, next |-> NoFile.next]
  BY DEF NoFile
<1> QED
  BY <1>1, <1>2, <1>3, <1>4, AccessAssumption DEF Database

\* create_user adds an account under next_uid and changes no other.
LEMMA CreateFacts ==
    ASSUME NEW d, Database(d), NEW name, NEW pass, NEW role
    PROVE  LET made == CreateUser(d, name, pass, role) IN
           /\ made = [users |-> made.users, next |-> made.next]
           /\ made.next = d.next + 1
           /\ DOMAIN made.users = DOMAIN d.users \cup {d.next}
           /\ made.users[d.next] = [name |-> name, pass |-> pass, role |-> role]
           /\ \A u \in DOMAIN d.users : made.users[u] = d.users[u]
           /\ d.next \notin DOMAIN d.users
<1>1. d.next \notin DOMAIN d.users
  BY AccessAssumption DEF Database
<1> QED
  BY <1>1 DEF CreateUser, Put, UidFor

\* What create_user accepts leaves a database.
LEMMA CreateIsDatabase ==
    ASSUME NEW d, Database(d),
           NEW name \in Names \cup {"root"}, NEW pass \in Passwords \cup {"waros", "changeme"},
           NEW role \in Roles, d.next < LastUid,
           ~Known(d, name), Cardinality(DOMAIN d.users) < MaxUsers,
           RootIn(d) \/ (d = NoFile /\ name = "root" /\ role = "admin")
    PROVE  Database(CreateUser(d, name, pass, role)) /\ RootIn(CreateUser(d, name, pass, role))
<1> DEFINE made == CreateUser(d, name, pass, role)
<1>1. /\ made = [users |-> made.users, next |-> made.next]
      /\ made.next = d.next + 1
      /\ DOMAIN made.users = DOMAIN d.users \cup {d.next}
      /\ made.users[d.next] = [name |-> name, pass |-> pass, role |-> role]
      /\ \A u \in DOMAIN d.users : made.users[u] = d.users[u]
      /\ d.next \notin DOMAIN d.users
  BY CreateFacts
<1>2. made.users = [v \in DOMAIN made.users |-> made.users[v]]
  BY DEF CreateUser, Put
<1> HIDE DEF made
<1>3. made.next \in 0 .. LastUid /\ DOMAIN made.users \subseteq 0 .. made.next - 1
  BY <1>1, AccessAssumption DEF Database
<1>4. made.users \in [DOMAIN made.users -> Accounts]
  <2>1. \A v \in DOMAIN made.users : made.users[v] \in Accounts
    BY <1>1 DEF Database, Accounts
  <2> QED
    BY <2>1, <1>2
<1>5. Cardinality(DOMAIN made.users) <= MaxUsers
  <2>1. IsFiniteSet(DOMAIN d.users)
    BY FiniteDatabase
  <2>2. Cardinality(DOMAIN made.users) = Cardinality(DOMAIN d.users) + 1
    BY <1>1, <2>1, FS_AddElement, ZenonT(60)
  <2>3. Cardinality(DOMAIN d.users) \in Nat
    BY <2>1, FS_CardinalityType
  <2> QED
    BY <2>2, <2>3, AccessAssumption
<1>6. \A u, v \in DOMAIN made.users : made.users[u].name = made.users[v].name => u = v
  <2>1. \A u \in DOMAIN d.users : d.users[u].name # name
    BY DEF Known, UidsNamed
  <2> QED
    BY <1>1, <2>1 DEF Database
<1>7. RootIn(made)
  <2>1. CASE RootIn(d)
    BY <1>1, <2>1 DEF RootIn
  <2>2. CASE d = NoFile /\ name = "root" /\ role = "admin"
    BY <1>1, <2>2, EmptyDatabase, AccessAssumption DEF RootIn, ValidAtLogin
  <2> QED
    BY <2>1, <2>2
<1>8. Database(made)
  BY <1>1, <1>3, <1>4, <1>5, <1>6, <1>7 DEF Database
<1> QED
  BY <1>7, <1>8 DEF made

\* delete_user of any account but root's leaves a database with the same next_uid.
LEMMA DeleteIsDatabase ==
    ASSUME NEW d, Database(d), RootIn(d), NEW u \in DOMAIN d.users, u # 0
    PROVE  LET left == DeleteUser(d, u) IN
           /\ Database(left) /\ RootIn(left)
           /\ left.next = d.next /\ DOMAIN left.users = DOMAIN d.users \ {u}
           /\ \A v \in DOMAIN left.users : left.users[v] = d.users[v]
<1> DEFINE left == DeleteUser(d, u)
<1>1. /\ left = [users |-> left.users, next |-> left.next]
      /\ left.next = d.next /\ DOMAIN left.users = DOMAIN d.users \ {u}
      /\ \A v \in DOMAIN left.users : left.users[v] = d.users[v]
      /\ left.users = [v \in DOMAIN left.users |-> left.users[v]]
  BY DEF DeleteUser, Restrict, Database
<1> HIDE DEF left
<1>2. Cardinality(DOMAIN left.users) <= MaxUsers
  <2>1. IsFiniteSet(DOMAIN d.users)
    BY FiniteDatabase
  <2>2. Cardinality(DOMAIN left.users) <= Cardinality(DOMAIN d.users)
    BY <1>1, <2>1, FS_Subset
  <2>3. Cardinality(DOMAIN d.users) \in Nat /\ Cardinality(DOMAIN left.users) \in Nat
    BY <1>1, <2>1, FS_Subset, FS_CardinalityType
  <2> QED
    BY <2>2, <2>3, AccessAssumption DEF Database
<1>3. RootIn(left)
  BY <1>1 DEF RootIn
<1>4. left.users \in [DOMAIN left.users -> Accounts]
  BY <1>1 DEF Database
<1>5. Database(left)
  BY <1>1, <1>2, <1>3, <1>4 DEF Database
<1> QED
  BY <1>1, <1>3, <1>5 DEF left

\* Taking the account just made back leaves the accounts as they were; only
\* next_uid has moved on.
LEMMA CreateUndone ==
    ASSUME NEW d, Database(d), NEW name, NEW pass, NEW role
    PROVE  DeleteUser(CreateUser(d, name, pass, role), d.next)
             = [users |-> d.users, next |-> d.next + 1]
<1> DEFINE made == CreateUser(d, name, pass, role)
<1>1. /\ made = [users |-> made.users, next |-> made.next]
      /\ made.next = d.next + 1
      /\ DOMAIN made.users = DOMAIN d.users \cup {d.next}
      /\ made.users[d.next] = [name |-> name, pass |-> pass, role |-> role]
      /\ \A u \in DOMAIN d.users : made.users[u] = d.users[u]
      /\ d.next \notin DOMAIN d.users
  BY CreateFacts
<1> HIDE DEF made
<1>2. DOMAIN made.users \ {d.next} = DOMAIN d.users
  BY <1>1
<1>3. d.users = [u \in DOMAIN d.users |-> d.users[u]]
  BY DEF Database
<1>4. Restrict(made.users, DOMAIN made.users \ {d.next}) = d.users
  BY <1>1, <1>2, <1>3 DEF Restrict
<1>5. DeleteUser(made, d.next) = [users |-> d.users, next |-> d.next + 1]
  BY <1>1, <1>4 DEF DeleteUser
<1> QED
  BY <1>5 DEF made

\* restore_user_for_rollback after delete_user is the database before.
LEMMA DeleteUndone ==
    ASSUME NEW d, Database(d), NEW u \in DOMAIN d.users
    PROVE  RestoreUserForRollback(DeleteUser(d, u), u, d.users[u]) = d
<1> DEFINE left == DeleteUser(d, u)
<1>1. /\ left.next = d.next /\ DOMAIN left.users = DOMAIN d.users \ {u}
      /\ \A v \in DOMAIN left.users : left.users[v] = d.users[v]
  BY DEF DeleteUser, Restrict, Database
<1> HIDE DEF left
<1>2. d.users = [v \in DOMAIN d.users |-> d.users[v]]
  BY DEF Database
<1>3. Put(left.users, u, d.users[u]) = d.users
  <2>1. DOMAIN left.users \cup {u} = DOMAIN d.users
    BY <1>1
  <2> QED
    BY <1>1, <1>2, <2>1 DEF Put
<1>4. left.next > u
  BY <1>1, AccessAssumption DEF Database
<1>5. RestoreUserForRollback(left, u, d.users[u]) = [users |-> d.users, next |-> d.next]
  BY <1>1, <1>3, <1>4 DEF RestoreUserForRollback
<1> QED
  BY <1>5 DEF left, Database

\* change_password changes one password; with the old one it changes it back.
LEMMA PasswordChange ==
    ASSUME NEW d, Database(d), RootIn(d), NEW u \in DOMAIN d.users, NEW pass \in Passwords
    PROVE  LET changed == ChangePassword(d, u, pass) IN
           /\ Database(changed) /\ RootIn(changed)
           /\ changed.next = d.next /\ DOMAIN changed.users = DOMAIN d.users
           /\ \A v \in DOMAIN d.users : changed.users[v].name = d.users[v].name
                                     /\ changed.users[v].role = d.users[v].role
           /\ ChangePassword(changed, u, d.users[u].pass) = d
<1> DEFINE changed == ChangePassword(d, u, pass)
<1>0. d.users[u] \in Accounts /\ d.users = [v \in DOMAIN d.users |-> d.users[v]]
  BY DEF Database
<1>1. /\ changed = [users |-> changed.users, next |-> d.next]
      /\ changed.next = d.next /\ DOMAIN changed.users = DOMAIN d.users
      /\ \A v \in DOMAIN d.users : v # u => changed.users[v] = d.users[v]
      /\ changed.users[u] = [d.users[u] EXCEPT !.pass = pass]
      /\ changed.users = [v \in DOMAIN d.users |-> changed.users[v]]
  BY DEF ChangePassword, Database
<1> HIDE DEF changed
<1>2. changed.users[u] = [name |-> d.users[u].name, pass |-> pass, role |-> d.users[u].role]
  BY <1>0, <1>1 DEF Accounts
<1>3. \A v \in DOMAIN d.users : changed.users[v].name = d.users[v].name
                             /\ changed.users[v].role = d.users[v].role
  BY <1>1, <1>2
<1>4. \A v \in DOMAIN d.users : changed.users[v] \in Accounts
  BY <1>0, <1>1, <1>2 DEF Accounts, Database
<1>5. RootIn(changed)
  BY <1>1, <1>3 DEF RootIn
<1>6. Database(changed)
  BY <1>1, <1>3, <1>4, <1>5 DEF Database
<1>7. ChangePassword(changed, u, d.users[u].pass) = d
  <2>1. [changed.users[u] EXCEPT !.pass = d.users[u].pass] = d.users[u]
    BY <1>0, <1>2 DEF Accounts
  <2>2. [changed.users EXCEPT ![u].pass = d.users[u].pass] = d.users
    BY <1>0, <1>1, <2>1
  <2>3. ChangePassword(changed, u, d.users[u].pass) = [users |-> d.users, next |-> d.next]
    BY <1>1, <2>2 DEF ChangePassword
  <2> QED
    BY <2>3 DEF Database
<1> QED
  BY <1>1, <1>3, <1>5, <1>6, <1>7 DEF changed

LEMMA FindFacts ==
    ASSUME NEW d, NEW name, Known(d, name)
    PROVE  FindByName(d, name) \in DOMAIN d.users
<1>1. \E u \in UidsNamed(d, name) : TRUE
  BY DEF Known
<1>2. FindByName(d, name) \in UidsNamed(d, name)
  BY <1>1 DEF FindByName
<1> QED
  BY <1>2 DEF UidsNamed

\* try_save_to_fs of a database whose next_uid lies above every number saved: the
\* file is a database again, and is the saved one unless the device failed.
LEMMA SaveFacts ==
    ASSUME AccessInv, NEW d, Database(d), NEW how \in Outcomes, Save(d, how),
           issued \subseteq 0 .. d.next - 1
    PROVE  /\ ~behind' => \/ Accepted(how) /\ dbFile' = d
                          \/ ~Accepted(how) /\ ~behind /\ dbFile' = dbFile
           /\ Database(dbFile')
           /\ DOMAIN dbFile'.users \subseteq issued'
           /\ issued' \subseteq 0 .. d.next - 1
           /\ dbFile' # NoFile => issued' \subseteq 0 .. dbFile'.next - 1
<1>0. Database(dbFile) /\ Database(NoFile) /\ DOMAIN NoFile.users = {}
  BY EmptyDatabase DEF AccessInv
<1>1. dbFile' = dbFile \/ dbFile' = d \/ dbFile' = NoFile
  BY DEF Save, Left
<1>2. issued' = issued \cup DOMAIN dbFile'.users
  BY DEF Save
<1>3. DOMAIN d.users \subseteq 0 .. d.next - 1
  BY DEF Database
<1>4. Database(dbFile') /\ DOMAIN dbFile'.users \subseteq issued'
  BY <1>0, <1>1, <1>2
<1>5. ~behind' => \/ Accepted(how) /\ dbFile' = d
                  \/ ~Accepted(how) /\ ~behind /\ dbFile' = dbFile
  <2>1. CASE how = "refused"
    <3>1. dbFile' = dbFile /\ behind' = behind /\ ~Accepted(how)
      BY <2>1 DEF Save, Accepted
    <3> QED
      BY <3>1, Zenon
  <2>2. CASE how # "refused"
    <3>1. (behind' = TRUE \/ dbFile' = d) /\ Accepted(how)
      BY <2>2 DEF Save, Accepted
    <3> QED
      BY <3>1, Zenon
  <2> QED
    BY <2>1, <2>2
<1>6. issued' \subseteq 0 .. d.next - 1 /\ (dbFile' # NoFile => issued' \subseteq 0 .. dbFile'.next - 1)
  <2>1. CASE dbFile' = dbFile
    <3>1. issued' = issued
      BY <1>2, <2>1 DEF AccessInv
    <3> QED
      BY <2>1, <3>1 DEF AccessInv
  <2>2. CASE dbFile' = d
    BY <1>2, <1>3, <2>2, Zenon
  <2>3. CASE dbFile' = NoFile
    BY <1>0, <1>2, <2>3, Zenon
  <2> QED
    BY <1>1, <2>1, <2>2, <2>3
<1> QED
  BY <1>4, <1>5, <1>6

\* A saved preference file can be read as preferences, lost or not.
LEMMA SavedPreferences ==
    ASSUME uiFile \in Prefs, NEW prefs \in Prefs, NEW how \in Outcomes, SavePreferences(prefs, how)
    PROVE  uiFile' \in Prefs
<1>1. DefaultPreferences \in Prefs
  BY AccessAssumption DEF DefaultPreferences, Prefs
<1>2. uiFile' \in {uiFile, prefs, DefaultPreferences}
  BY DEF SavePreferences, Outcomes
<1> QED
  BY <1>1, <1>2

LEMMA NoSessionUid == NoSession.uid = -1
BY DEF NoSession

\* A session from the database is one of its accounts.
LEMMA SessionFacts ==
    ASSUME NEW d, Database(d), NEW u \in DOMAIN d.users
    PROVE  /\ SessionOf(d, u).uid = u /\ SessionOf(d, u) # NoSession
           /\ u \in 0 .. d.next - 1
<1>1. SessionOf(d, u).uid = u /\ NoSession.uid = -1
  BY DEF SessionOf, NoSession
<1>2. u \in 0 .. d.next - 1 /\ u # -1
  BY AccessAssumption DEF Database
<1> QED
  BY <1>1, <1>2

-----------------------------------------------------------------------------
(* Every step keeps the invariant and gives out fresh numbers only.        *)

\* A new account has a number that no account was saved under.
Fresh == AccessRunning => \A u \in DOMAIN db'.users \ DOMAIN db.users : u \notin issued

\* Steps that leave the databases and the session alone.
LEMMA QuietStep ==
    ASSUME AccessInv, UNCHANGED <<db, dbFile, behind, session, issued>>,
           stage' = stage \/ {stage, stage'} \subseteq
               {"choose", "again", "firstPage", "loginPage", "setup", "login"},
           ui' \in Prefs, uiFile' \in Prefs, attempts' \in 0 .. 2
    PROVE  AccessInv' /\ Fresh
<1>1. Fresh
  BY DEF Fresh
<1>2. AccessRunning' = AccessRunning /\ (stage' = "shell") = (stage = "shell")
  BY DEF AccessRunning, AccessInv
<1>3. SessionIsItsAccount'
  BY DEF AccessInv, SessionIsItsAccount, SessionOf
<1>4. Database(db)' /\ Database(dbFile)' /\ RootIn(db)' = RootIn(db)
  BY DEF AccessInv, Database, RootIn
<1>5. AccountsSaved' /\ (stage' = "off" <=> stage = "off")
  BY <1>2 DEF AccessInv, AccountsSaved
<1> QED
  BY <1>1, <1>2, <1>3, <1>4, <1>5 DEF AccessInv

\* Moving around the list of languages stays in it.
LEMMA Wrapped ==
    ASSUME AccessInv, NEW step \in {-1, 1}
    PROVE  CycleLanguage(step) \in 0 .. Languages - 1
<1>1. \A a \in Int : \A n \in Nat \ {0} : a % n \in 0 .. n - 1
  OBVIOUS
<1>2. ui.lang + step \in Int
  BY AccessAssumption DEF AccessInv, Prefs
<1> QED
  BY <1>1, <1>2, AccessAssumption, Zenon DEF CycleLanguage, StepWrapped

LEMMA AccessBootStep ==
    ASSUME AccessInv, NEW how \in Outcomes, Boot(how)
    PROVE  AccessInv' /\ Fresh
<1>0. Fresh
  BY DEF Boot, Fresh, AccessRunning
<1>1. session' = NoSession /\ stage' # "shell" /\ stage' \in {"choose", "halted"}
  BY DEF Boot, AccessInv
<1>2. ui' \in Prefs /\ uiFile' \in Prefs /\ attempts' \in 0 .. 2
  BY DEF Boot, AccessInv, LoadPreferencesFromFs
<1>3. CASE dbFile # NoFile
  <2>1. db' = dbFile /\ dbFile' = dbFile /\ issued' = issued
    BY <1>3 DEF Boot
  <2>2. RootIn(dbFile) /\ issued \subseteq 0 .. dbFile.next - 1
    BY <1>3 DEF AccessInv, Database
  <2>3. dbFile.next \in Int /\ -1 \notin DOMAIN dbFile.users
    BY AccessAssumption DEF AccessInv, Database
  <2>4. SessionIsItsAccount'
    BY <1>1, <2>1, <2>3, Zenon DEF SessionIsItsAccount, NoSession
  <2>5. AccountsSaved'
    BY <2>1, <2>3 DEF AccountsSaved
  <2>6. Database(db)' /\ Database(dbFile)' /\ RootIn(db)'
    BY <2>1, <2>2 DEF AccessInv, Database, RootIn
  <2> QED
    BY <1>0, <1>1, <1>2, <2>1, <2>2, <2>4, <2>5, <2>6 DEF AccessInv
<1>4. CASE dbFile = NoFile
  <2> DEFINE seeded == WithDefaultRoot
  <2>1. db' = seeded /\ Save(seeded, how) /\ (AccessRunning' => Accepted(how))
    BY <1>4 DEF Boot, AccessRunning
  <2>2. /\ seeded.next = 1 /\ DOMAIN seeded.users = {0}
    <3> DEFINE made == CreateUser(NoFile, "root", "waros", "admin")
    <3>1. /\ made = [users |-> made.users, next |-> made.next]
          /\ made.next = NoFile.next + 1
          /\ DOMAIN made.users = DOMAIN NoFile.users \cup {NoFile.next}
      BY EmptyDatabase DEF CreateUser, Put, UidFor
    <3> QED
      BY <3>1, EmptyDatabase DEF WithDefaultRoot
  <2>3. Database(seeded) /\ RootIn(seeded)
    <3>1. ~Known(NoFile, "root") /\ Cardinality(DOMAIN NoFile.users) < MaxUsers
      BY EmptyDatabase, FS_EmptySet, AccessAssumption DEF Known, UidsNamed
    <3> QED
      BY <3>1, EmptyDatabase, CreateIsDatabase, AccessAssumption DEF WithDefaultRoot, Roles
  <2> HIDE DEF seeded
  <2>4. issued = {}
    BY <1>4 DEF AccessInv, Boot
  <2>5. /\ ~behind' => \/ Accepted(how) /\ dbFile' = seeded
                       \/ ~Accepted(how) /\ ~behind /\ dbFile' = dbFile
        /\ Database(dbFile')
        /\ DOMAIN dbFile'.users \subseteq issued'
        /\ issued' \subseteq 0 .. seeded.next - 1
        /\ dbFile' # NoFile => issued' \subseteq 0 .. dbFile'.next - 1
    BY <2>1, <2>3, <2>4, SaveFacts
  <2>6. SessionIsItsAccount'
    <3>1. session'.uid = -1
      BY <1>1, Zenon DEF NoSession
    <3>2. session'.uid \notin DOMAIN db'.users
      BY <2>1, <2>2, <3>1
    <3> QED
      BY <3>2 DEF SessionIsItsAccount
  <2>7. AccountsSaved'
    BY <2>1, <2>2, <2>5 DEF AccountsSaved
  <2>8. Database(db)' /\ Database(dbFile)' /\ RootIn(db)'
    BY <2>1, <2>3, <2>5 DEF Database, RootIn
  <2>9. issued' \subseteq 0 .. db'.next - 1
    BY <2>1, <2>5
  <2> QED
    BY <1>0, <1>1, <1>2, <2>5, <2>6, <2>7, <2>8, <2>9 DEF AccessInv
<1> QED
  BY <1>3, <1>4

LEMMA PowerCutStep ==
    ASSUME AccessInv, PowerCut
    PROVE  AccessInv' /\ Fresh
<1>1. Database(NoFile) /\ DOMAIN NoFile.users = {}
  BY EmptyDatabase
<1>2. SessionIsItsAccount'
  BY <1>1 DEF PowerCut, SessionIsItsAccount
<1>3. ui' \in Prefs
  BY AccessAssumption DEF PowerCut, Prefs, DefaultPreferences
<1>4. Database(db)' /\ Database(dbFile)'
  BY <1>1 DEF PowerCut, AccessInv, Database
<1>5. Fresh /\ AccountsSaved' /\ ~AccessRunning'
  BY <1>1 DEF PowerCut, Fresh, AccountsSaved, AccessRunning
<1>6. /\ DOMAIN dbFile'.users \subseteq issued'
      /\ dbFile' # NoFile => issued' \subseteq 0 .. dbFile'.next - 1
      /\ dbFile' = NoFile => issued' = {}
  BY <1>1 DEF PowerCut, AccessInv
<1> QED
  BY <1>2, <1>3, <1>4, <1>5, <1>6 DEF PowerCut, AccessInv

\* Steps that keep the accounts and put a session in place or take it away,
\* saving the database or not.
LEMMA SessionStep ==
    ASSUME AccessInv, AccessRunning, db' = db,
           \/ UNCHANGED <<dbFile, behind, issued>>
           \/ \E how \in Outcomes : Save(db, how),
           \/ session' = NoSession /\ stage' = "again"
           \/ session' = Recovery /\ stage' = "shell"
           \/ \E u \in DOMAIN db.users : session' = SessionOf(db, u) /\ stage' = "shell",
           ui' = ui, uiFile' = uiFile, attempts' \in 0 .. 2
    PROVE  AccessInv' /\ Fresh
<1>1. RootIn(db) /\ Database(db) /\ db.next \in Nat /\ issued \subseteq 0 .. db.next - 1
  BY AccessAssumption DEF AccessInv, Database
<1>2. /\ ~behind' => dbFile' = db \/ (~behind /\ dbFile' = dbFile)
      /\ Database(dbFile')
      /\ DOMAIN dbFile'.users \subseteq issued'
      /\ issued' \subseteq 0 .. db.next - 1
      /\ dbFile' # NoFile => issued' \subseteq 0 .. dbFile'.next - 1
  <2>1. CASE UNCHANGED <<dbFile, behind, issued>>
    BY <1>1, <2>1 DEF AccessInv
  <2>2. ASSUME NEW how \in Outcomes, Save(db, how)
        PROVE  /\ ~behind' => dbFile' = db \/ (~behind /\ dbFile' = dbFile)
               /\ Database(dbFile')
               /\ DOMAIN dbFile'.users \subseteq issued'
               /\ issued' \subseteq 0 .. db.next - 1
               /\ dbFile' # NoFile => issued' \subseteq 0 .. dbFile'.next - 1
    BY <1>1, <2>2, SaveFacts
  <2> QED
    BY <2>1, <2>2
<1>3. Fresh /\ AccountsSaved'
  <2>1. AccountsSaved'
    BY <1>1, <1>2 DEF AccessInv, AccountsSaved
  <2> QED
    BY <2>1 DEF Fresh
<1>4. /\ stage' \in {"again", "shell"}
      /\ session' = NoSession <=> stage' # "shell"
      /\ stage' = "shell" => session'.uid \in 0 .. db.next - 1
      /\ SessionIsItsAccount'
  <2>1. CASE session' = NoSession /\ stage' = "again"
    <3>1. -1 \notin DOMAIN db.users /\ session'.uid = -1
      BY <1>1, <2>1, NoSessionUid DEF AccessInv, Database
    <3> QED
      BY <2>1, <3>1 DEF SessionIsItsAccount
  <2>2. CASE session' = Recovery /\ stage' = "shell"
    <3>1. Recovery.uid = 0 /\ NoSession.uid = -1 /\ 0 \in DOMAIN db.users
      BY <1>1, Zenon DEF Recovery, NoSession, RootIn
    <3>2. 0 \in 0 .. db.next - 1 /\ Recovery # NoSession
      BY <3>1 DEF AccessInv, Database
    <3> QED
      BY <2>2, <3>1, <3>2 DEF SessionIsItsAccount
  <2>3. ASSUME NEW u \in DOMAIN db.users, session' = SessionOf(db, u), stage' = "shell"
        PROVE  /\ session' # NoSession /\ session'.uid \in 0 .. db.next - 1
               /\ SessionIsItsAccount'
    <3>1. Database(db)
      BY DEF AccessInv
    <3>2. /\ SessionOf(db, u).uid = u /\ SessionOf(db, u) # NoSession
          /\ u \in 0 .. db.next - 1
      BY <3>1, SessionFacts
    <3>3. SessionOf(db, u)' = SessionOf(db, u)
      BY DEF SessionOf
    <3>4. session'.uid = u /\ session' = SessionOf(db', u)
      BY <2>3, <3>2
    <3> QED
      BY <2>3, <3>2, <3>4 DEF SessionIsItsAccount
  <2> QED
    BY <2>1, <2>2, <2>3
<1>5. RootIn(db)' /\ Database(db)' /\ Database(dbFile)'
  BY <1>1, <1>2 DEF AccessInv, Database, RootIn
<1> QED
  BY <1>1, <1>2, <1>3, <1>4, <1>5 DEF AccessInv

\* Making an account, in the setup or by useradd, and taking it back when it is
\* not saved.
LEMMA CreateStep ==
    ASSUME AccessInv, AccessRunning,
           NEW name \in Names, NEW pass \in Passwords \cup {"changeme"}, NEW role \in Roles,
           NEW how \in Outcomes,
           db.next < LastUid, CanCreate(db, name, pass),
           Save(CreateUser(db, name, pass, role), how),
           Accepted(how) => db' = CreateUser(db, name, pass, role),
           ~Accepted(how) => db' = DeleteUser(CreateUser(db, name, pass, role), UidFor(db)),
           \/ session' = session /\ stage' = stage
           \/ Accepted(how) /\ session' = SessionOf(CreateUser(db, name, pass, role), UidFor(db))
                 /\ stage' = "shell",
           ui' = ui, uiFile' = uiFile, attempts' = attempts
    PROVE  AccessInv' /\ Fresh
<1> DEFINE made == CreateUser(db, name, pass, role)
           ok == Accepted(how)
<1>0. Database(db) /\ Database(dbFile) /\ RootIn(db) /\ AccountsSaved
      /\ db.next \in Nat /\ dbFile.next \in Nat
      /\ issued \subseteq 0 .. db.next - 1
  BY AccessAssumption DEF AccessInv, Database
<1>1. /\ made = [users |-> made.users, next |-> made.next]
      /\ made.next = db.next + 1
      /\ DOMAIN made.users = DOMAIN db.users \cup {db.next}
      /\ made.users[db.next] = [name |-> name, pass |-> pass, role |-> role]
      /\ \A u \in DOMAIN db.users : made.users[u] = db.users[u]
      /\ db.next \notin DOMAIN db.users
  BY <1>0, CreateFacts
<1>2. Database(made) /\ RootIn(made)
  BY <1>0, CreateIsDatabase DEF CanCreate
<1>3. DeleteUser(made, db.next) = [users |-> db.users, next |-> db.next + 1]
  BY <1>0, CreateUndone
<1>4. UidFor(db) = db.next
  BY DEF UidFor
<1> HIDE DEF made
<1>5. /\ ~behind' => (ok /\ dbFile' = made) \/ (~ok /\ ~behind /\ dbFile' = dbFile)
      /\ Database(dbFile')
      /\ DOMAIN dbFile'.users \subseteq issued'
      /\ issued' \subseteq 0 .. made.next - 1
      /\ dbFile' # NoFile => issued' \subseteq 0 .. dbFile'.next - 1
  <2>1. issued \subseteq 0 .. made.next - 1 /\ Save(made, how)
    BY <1>0, <1>1 DEF made
  <2> QED
    BY <1>2, <2>1, SaveFacts
<1>6. /\ ok => db' = made
      /\ ~ok => db' = [users |-> db.users, next |-> db.next + 1]
  BY <1>3, <1>4, SMTT(60) DEF made
<1> HIDE DEF ok
<1>7. /\ Database(db') /\ RootIn(db') /\ db'.next = db.next + 1
      /\ DOMAIN db'.users \subseteq DOMAIN db.users \cup {db.next}
      /\ \A u \in DOMAIN db.users : u \in DOMAIN db'.users /\ db'.users[u] = db.users[u]
  <2>1. CASE ok
    BY <1>0, <1>1, <1>2, <1>6, <2>1
  <2>2. CASE ~ok
    <3>1. db'.users = db.users /\ db'.next = db.next + 1
          /\ db' = [users |-> db'.users, next |-> db'.next]
      BY <1>6, <2>2
    <3>2. RootIn(db')
      BY <1>0, <3>1 DEF RootIn
    <3>3. db'.next \in 0 .. LastUid /\ DOMAIN db'.users \subseteq 0 .. db'.next - 1
      BY <1>0, <3>1, AccessAssumption DEF Database
    <3>4. Database(db')
      BY <1>0, <3>1, <3>2, <3>3 DEF Database
    <3> QED
      BY <1>0, <2>2, <3>1, <3>2, <3>4
  <2> QED
    BY <2>1, <2>2
<1>8. /\ Fresh /\ AccountsSaved'
      /\ issued' \subseteq 0 .. db'.next - 1
  <2>1. Fresh
    BY <1>0, <1>7, SMTT(60) DEF Fresh
  <2>2. AccountsSaved'
    <3>1. CASE ok
      BY <1>0, <1>1, <1>5, <1>6, <3>1, SMTT(60) DEF AccountsSaved
    <3>2. CASE ~ok
      BY <1>0, <1>5, <1>6, <3>2, SMTT(60) DEF AccountsSaved
    <3> QED
      BY <3>1, <3>2
  <2>3. issued' \subseteq 0 .. db'.next - 1
    BY <1>1, <1>5, <1>7
  <2> QED
    BY <2>1, <2>2, <2>3
<1>9. CASE session' = session /\ stage' = stage
  <2>1. session.uid # db.next
    <3>1. CASE stage = "shell"
      BY <1>0, <3>1 DEF AccessInv
    <3>2. CASE stage # "shell"
      BY <1>0, <3>2, NoSessionUid, SMTT(60) DEF AccessInv
    <3> QED
      BY <3>1, <3>2
  <2>2. session.uid \in DOMAIN db'.users
          => session.uid \in DOMAIN db.users /\ db'.users[session.uid] = db.users[session.uid]
    BY <1>7, <2>1
  <2>3. SessionIsItsAccount'
    BY <1>9, <2>2, SMTT(60) DEF AccessInv, SessionIsItsAccount, SessionOf
  <2>4. stage = "shell" => session'.uid \in 0 .. db'.next - 1
    BY <1>0, <1>7, <1>9, SMTT(30) DEF AccessInv
  <2>5. /\ stage' \in {"off", "halted", "choose", "again", "firstPage", "loginPage",
                     "setup", "login", "shell"}
        /\ ui' \in Prefs /\ uiFile' \in Prefs /\ attempts' \in 0 .. 2
    BY <1>9 DEF AccessInv
  <2>6. session' = NoSession <=> stage' # "shell"
    BY <1>9 DEF AccessInv
  <2>7. stage' = "shell" => session'.uid \in 0 .. db'.next - 1
    BY <1>9, <2>4
  <2>8. stage' # "off"
    BY <1>9 DEF AccessRunning
  <2> QED
    BY <1>5, <1>7, <1>8, <2>3, <2>5, <2>6, <2>7, <2>8, ZenonT(60) DEF AccessInv
<1>10. CASE ok /\ session' = SessionOf(made, UidFor(db)) /\ stage' = "shell"
  <2>1. /\ session'.uid = db.next /\ session' # NoSession
        /\ db.next \in 0 .. made.next - 1
    BY <1>1, <1>2, <1>4, <1>10, SessionFacts
  <2>2. session' = SessionOf(db', session'.uid)
    BY <1>4, <1>6, <1>10, <2>1
  <2>3. SessionIsItsAccount'
    BY <2>2 DEF SessionIsItsAccount
  <2> QED
    BY <1>1, <1>5, <1>6, <1>7, <1>8, <1>10, <2>1, <2>3 DEF AccessInv
<1> QED
  BY <1>9, <1>10 DEF made, ok

\* Changing the accounts without adding one, and changing them back when that is
\* not saved.
LEMMA ChangeStep ==
    ASSUME AccessInv, AccessRunning, NEW d, Database(d), RootIn(d), d.next = db.next,
           DOMAIN d.users \subseteq DOMAIN db.users,
           \A u \in DOMAIN d.users : d.users[u].name = db.users[u].name
                                  /\ d.users[u].role = db.users[u].role,
           NEW how \in Outcomes, Save(d, how),
           Accepted(how) => db' = d, ~Accepted(how) => db' = db,
           session' = session, stage' = stage,
           ui' = ui, uiFile' = uiFile, attempts' = attempts
    PROVE  AccessInv' /\ Fresh
<1>0. Database(db) /\ Database(dbFile) /\ RootIn(db) /\ AccountsSaved
      /\ db.next \in Nat /\ issued \subseteq 0 .. d.next - 1
  BY AccessAssumption DEF AccessInv, Database
<1>1. /\ ~behind' => \/ Accepted(how) /\ dbFile' = d
                     \/ ~Accepted(how) /\ ~behind /\ dbFile' = dbFile
      /\ Database(dbFile')
      /\ DOMAIN dbFile'.users \subseteq issued'
      /\ issued' \subseteq 0 .. d.next - 1
      /\ dbFile' # NoFile => issued' \subseteq 0 .. dbFile'.next - 1
  BY <1>0, SaveFacts
<1>2. Database(db') /\ RootIn(db') /\ db'.next = db.next /\ AccountsSaved' /\ Fresh
  <2>1. CASE Accepted(how)
    BY <1>0, <1>1, <2>1 DEF AccountsSaved, Fresh
  <2>2. CASE ~Accepted(how)
    BY <1>0, <1>1, <2>2 DEF AccountsSaved, Fresh
  <2> QED
    BY <2>1, <2>2
<1>4. SessionIsItsAccount'
  <2>1. CASE Accepted(how)
    BY <2>1 DEF AccessInv, SessionIsItsAccount, SessionOf
  <2>2. CASE ~Accepted(how)
    BY <2>2 DEF AccessInv, SessionIsItsAccount, SessionOf
  <2> QED
    BY <2>1, <2>2
<1> QED
  BY <1>0, <1>1, <1>2, <1>4 DEF AccessInv, AccessRunning

LEMMA UserdelStep ==
    ASSUME AccessInv, NEW name \in Names, NEW how \in Outcomes, CmdUserdel(name, how)
    PROVE  AccessInv' /\ Fresh
<1> DEFINE u == FindByName(db, name)
           left == DeleteUser(db, u)
<1>1. Database(db) /\ AccessRunning /\ RootIn(db) /\ u \in DOMAIN db.users /\ u # 0
  BY DEF CmdUserdel, InShell, AccessInv, AccessRunning, CanDelete
<1>2. /\ Database(left) /\ RootIn(left)
      /\ left.next = db.next /\ DOMAIN left.users = DOMAIN db.users \ {u}
      /\ \A v \in DOMAIN left.users : left.users[v] = db.users[v]
  BY <1>1, DeleteIsDatabase
<1>3. RestoreUserForRollback(left, u, db.users[u]) = db
  BY <1>1, DeleteUndone
<1>4. /\ Save(left, how) /\ (Accepted(how) => db' = left) /\ (~Accepted(how) => db' = db)
      /\ session' = session /\ stage' = stage
      /\ ui' = ui /\ uiFile' = uiFile /\ attempts' = attempts
  BY <1>3 DEF CmdUserdel, AccountsOnly
<1> HIDE DEF left, u
<1> QED
  BY <1>1, <1>2, <1>4, ChangeStep

LEMMA PasswdStep ==
    ASSUME AccessInv, NEW name \in Names, NEW pass \in Passwords, NEW how \in Outcomes,
           CmdPasswd(name, pass, how)
    PROVE  AccessInv' /\ Fresh
<1> DEFINE u == FindByName(db, name)
           changed == ChangePassword(db, u, pass)
<1>1. Database(db) /\ AccessRunning /\ RootIn(db) /\ u \in DOMAIN db.users
  BY FindFacts DEF CmdPasswd, InShell, AccessInv, AccessRunning
<1>2. /\ Database(changed) /\ RootIn(changed)
      /\ changed.next = db.next /\ DOMAIN changed.users = DOMAIN db.users
      /\ \A v \in DOMAIN db.users : changed.users[v].name = db.users[v].name
                                 /\ changed.users[v].role = db.users[v].role
      /\ ChangePassword(changed, u, db.users[u].pass) = db
  BY <1>1, PasswordChange, SMTT(60)
<1>3. /\ Save(changed, how) /\ (Accepted(how) => db' = changed) /\ (~Accepted(how) => db' = db)
      /\ session' = session /\ stage' = stage
      /\ ui' = ui /\ uiFile' = uiFile /\ attempts' = attempts
  BY <1>2 DEF CmdPasswd, AccountsOnly
<1> HIDE DEF changed, u
<1> QED
  BY <1>1, <1>2, <1>3, ChangeStep

LEMMA PreferenceStep ==
    ASSUME AccessInv,
           \/ (SelectAuth /\ stage' # "shell") \/ PageFocus \/ PageBack \/ OpenPreferences
           \/ \E step \in {-1, 1} : PageMove(step)
           \/ \E how \in Outcomes :
               \/ PageConfirm(how) \/ CmdKeyboard(how)
               \/ \E lang \in 0 .. Languages - 1 : CmdLanguage(lang, how)
               \/ \E zone \in {0, 1} : CmdTimezone(zone, how)
    PROVE  AccessInv' /\ Fresh
<1>0. ui \in Prefs /\ uiFile \in Prefs /\ attempts \in 0 .. 2
  BY DEF AccessInv
<1>1. CASE SelectAuth /\ stage' # "shell"
  <2>1. /\ UNCHANGED <<db, dbFile, behind, session, issued, ui, uiFile>> /\ attempts' \in {0, attempts}
        /\ {stage, stage'} \subseteq {"choose", "again", "firstPage", "login"}
    BY <1>1 DEF SelectAuth
  <2> QED
    BY <1>0, <2>1, QuietStep
<1>2. CASE PageFocus \/ PageBack \/ OpenPreferences
  BY <1>0, <1>2, QuietStep DEF PageFocus, PageBack, OpenPreferences
<1>3. ASSUME NEW step \in {-1, 1}, PageMove(step)
      PROVE  AccessInv' /\ Fresh
  <2>1. UNCHANGED <<db, dbFile, behind, session, issued, uiFile, stage, attempts>>
    BY <1>3 DEF PageMove
  <2>2. ui' = ui \/ ui' = [ui EXCEPT !.lang = CycleLanguage(step)]
    BY <1>3 DEF PageMove, CycleReadyLayout
  <2>3. ui' \in Prefs
    BY <1>0, <2>2, Wrapped DEF Prefs
  <2> QED
    BY <1>0, <2>1, <2>3, QuietStep
<1>4. ASSUME NEW how \in Outcomes, PageConfirm(how)
      PROVE  AccessInv' /\ Fresh
  <2>1. uiFile' \in Prefs
    BY <1>0, <1>4, SavedPreferences DEF PageConfirm, CommitOnboardingPreferences
  <2> QED
    BY <1>0, <1>4, <2>1, QuietStep DEF PageConfirm, OnPage
<1>5. ASSUME NEW how \in Outcomes, CmdKeyboard(how)
      PROVE  AccessInv' /\ Fresh
  <2>1. uiFile' \in Prefs
    BY <1>0, <1>5, SavedPreferences DEF CmdKeyboard, PersistUiPreferencesIfAllowed
  <2> QED
    BY <1>0, <1>5, <2>1, QuietStep DEF CmdKeyboard, PrefsOnly
<1>6. ASSUME NEW how \in Outcomes, NEW lang \in 0 .. Languages - 1, CmdLanguage(lang, how)
      PROVE  AccessInv' /\ Fresh
  <2>1. ui' \in Prefs
    BY <1>0, <1>6 DEF CmdLanguage, Prefs
  <2>2. uiFile' \in Prefs
    BY <1>0, <1>6, <2>1, SavedPreferences DEF CmdLanguage, PersistUiPreferencesIfAllowed
  <2> QED
    BY <1>0, <1>6, <2>1, <2>2, QuietStep DEF CmdLanguage, PrefsOnly
<1>7. ASSUME NEW how \in Outcomes, NEW zone \in {0, 1}, CmdTimezone(zone, how)
      PROVE  AccessInv' /\ Fresh
  <2>1. ui' \in Prefs
    BY <1>0, <1>7 DEF CmdTimezone, Prefs
  <2>2. uiFile' \in Prefs
    BY <1>0, <1>7, <2>1, SavedPreferences DEF CmdTimezone
  <2> QED
    BY <1>0, <1>7, <2>1, <2>2, QuietStep DEF CmdTimezone, PrefsOnly
<1> QED
  BY <1>1, <1>2, <1>3, <1>4, <1>5, <1>6, <1>7

LEMMA AccessInvStep ==
    ASSUME AccessInv, [AccessNext]_accessVars
    PROVE  AccessInv' /\ Fresh
<1>1. CASE UNCHANGED accessVars
  <2>1. UNCHANGED <<db, dbFile, behind, session, issued, stage, ui, uiFile, attempts>>
    BY <1>1 DEF accessVars
  <2> QED
    BY <2>1, QuietStep DEF AccessInv
<1>2. ASSUME SelectAuth PROVE AccessInv' /\ Fresh
  <2>1. CASE stage' # "shell"
    BY <1>2, <2>1, PreferenceStep
  <2>2. CASE stage' = "shell"
    <3>1. /\ AccessRunning /\ db' = db /\ UNCHANGED <<dbFile, behind, issued>>
          /\ session' = Recovery /\ ui' = ui /\ uiFile' = uiFile /\ attempts' = attempts
      BY <1>2, <2>2 DEF SelectAuth, AccessRunning
    <3> QED
      BY <2>2, <3>1, SessionStep DEF AccessInv
  <2> QED
    BY <2>1, <2>2
<1>3. ASSUME AccessLogout PROVE AccessInv' /\ Fresh
  BY <1>3, SessionStep DEF AccessLogout, InShell, AccessRunning, AccessInv
<1>4. ASSUME NEW name \in Names, NEW role \in Roles, NEW how \in Outcomes,
             CmdUseradd(name, role, how)
      PROVE  AccessInv' /\ Fresh
  BY <1>4, CreateStep DEF CmdUseradd, InShell, AccessRunning, AccountsOnly
<1>5. ASSUME NEW name \in Names, NEW pass \in Passwords, NEW how \in Outcomes,
             FirstBootSetup(name, pass, how)
      PROVE  AccessInv' /\ Fresh
  <2>1. "admin" \in Roles
    BY DEF Roles
  <2> QED
    BY <1>5, <2>1, CreateStep DEF FirstBootSetup, AccessRunning
<1>6. ASSUME NEW name \in Names, NEW pass \in Passwords, NEW how \in Outcomes,
             LoginScreen(name, pass, how)
      PROVE  AccessInv' /\ Fresh
  <2>0. AccessRunning /\ attempts \in 0 .. 2 /\ ui \in Prefs /\ uiFile \in Prefs
    BY <1>6 DEF LoginScreen, AccessRunning, AccessInv
  <2>1. CASE Authenticate(db, name, pass)
    <3>1. FindByName(db, name) \in DOMAIN db.users
      BY <2>1, FindFacts DEF Authenticate
    <3>2. /\ db' = db /\ Save(db, how) /\ ui' = ui /\ uiFile' = uiFile /\ attempts' = attempts
          /\ session' = SessionOf(db, FindByName(db, name)) /\ stage' = "shell"
      BY <1>6, <2>1 DEF LoginScreen
    <3> QED
      BY <2>0, <3>1, <3>2, SessionStep
  <2>2. CASE ~Authenticate(db, name, pass)
    <3>1. /\ UNCHANGED <<db, dbFile, behind, session, issued>> /\ stage' = stage
          /\ ui' = ui /\ uiFile' = uiFile /\ attempts' = (attempts + 1) % 3
      BY <1>6, <2>2 DEF LoginScreen
    <3>2. attempts' \in 0 .. 2
      BY <2>0, <3>1
    <3> QED
      BY <2>0, <3>1, <3>2, QuietStep
  <2> QED
    BY <2>1, <2>2
<1>7. ASSUME NEW name \in Names, NEW pass \in Passwords, NEW how \in Outcomes,
             AccessSu(name, pass, how)
      PROVE  AccessInv' /\ Fresh
  <2>1. FindByName(db, name) \in DOMAIN db.users
    BY <1>7, FindFacts DEF AccessSu, Authenticate
  <2>2. AccessRunning /\ attempts \in 0 .. 2 /\ attempts' = attempts
    BY <1>7 DEF AccessSu, InShell, AccessRunning, AccessInv
  <2> QED
    BY <1>7, <2>1, <2>2, SessionStep DEF AccessSu, InShell
<1> QED
  BY <1>1, <1>2, <1>3, <1>4, <1>5, <1>6, <1>7, PowerCutStep, AccessBootStep, UserdelStep,
     PasswdStep, PreferenceStep, SMTT(60) DEF AccessNext, Roles

LEMMA AccessInvStart == AccessInit => AccessInv
<1> SUFFICES ASSUME AccessInit PROVE AccessInv
  OBVIOUS
<1>1. Database(db) /\ Database(dbFile) /\ DOMAIN db.users = {}
  BY EmptyDatabase DEF AccessInit
<1>2. ui \in Prefs /\ uiFile \in Prefs
  BY AccessAssumption DEF AccessInit, Prefs, DefaultPreferences
<1> QED
  BY <1>1, <1>2 DEF AccessInit, AccessInv, AccessRunning, AccountsSaved, SessionIsItsAccount

LEMMA AccessInvHolds == AccessSpec => []AccessInv
BY AccessInvStart, AccessInvStep, PTL DEF AccessSpec

-----------------------------------------------------------------------------
(* What follows.                                                           *)

\* Both databases stay within MAX_USERS, with distinct names and with every
\* number below next_uid; a session exists exactly in the shell; the language
\* is one of the list (UserDB, CURRENT_SESSION, UI_PREFERENCES).
THEOREM AccessTypesHold == AccessSpec => []AccessTypeOK
<1>1. AccessInv => AccessTypeOK
  <2> SUFFICES ASSUME AccessInv PROVE AccessTypeOK
    OBVIOUS
  <2>1. \A d \in {db, dbFile} :
        /\ d.next \in 0 .. LastUid /\ DOMAIN d.users \subseteq 0 .. d.next - 1
        /\ Cardinality(DOMAIN d.users) <= MaxUsers
        /\ \A u, v \in DOMAIN d.users : d.users[u].name = d.users[v].name => u = v
    BY DEF AccessInv, Database
  <2>2. ui.lang \in 0 .. Languages - 1
    BY DEF AccessInv, Prefs
  <2> QED
    BY <2>1, <2>2 DEF AccessInv, AccessTypeOK
<1> QED
  BY <1>1, AccessInvHolds, PTL

\* Whatever saves are refused or lost and whenever the power fails: the file holds
\* exactly the accounts in use unless the device failed in the last save, the
\* session is one of them while its number is, and root can log in and administer
\* (the undo paths of cmd_useradd, cmd_userdel, cmd_passwd and first_boot_setup).
THEOREM AccountsAgreeHolds == AccessSpec => []AccountsAgree
<1>1. AccessInv => AccountsAgree
  <2> SUFFICES ASSUME AccessInv PROVE AccountsAgree
    OBVIOUS
  <2>1. \A d \in {db, dbFile} : d # NoFile => RootIn(d)
    BY DEF AccessInv, Database
  <2>2. AccessRunning => db # NoFile
    BY EmptyDatabase DEF AccessInv, RootIn
  <2> QED
    BY <2>1, <2>2 DEF AccessInv, AccountsAgree, RootStays, RootIn
<1> QED
  BY <1>1, AccessInvHolds, PTL

\* A number that was once saved with an account is never given to another
\* (next_uid), over refused and lost saves and power cuts, as long as the database
\* lives: a file that cannot be read is replaced by a new one.
THEOREM UidsFreshHolds == AccessSpec => UidsFresh
<1>1. AccessInv /\ [AccessNext]_accessVars => [Fresh]_accessVars
  BY AccessInvStep
<1>2. AccessSpec => [][Fresh]_accessVars
  BY <1>1, AccessInvHolds, PTL DEF AccessSpec
<1> QED
  BY <1>2 DEF Fresh, UidsFresh

-----------------------------------------------------------------------------
(* Capabilities and the shell's process.                                   *)

Process == [uid : Uids, parent : Nat, live : BOOLEAN,
            kind : {"shell", "job", "program"}, caps : SUBSET Caps]

Sessions == {NoOne, RecoverySession} \cup {LoginOf(u) : u \in Uids}

\* An ordinary user's process holds no more than USER_DEFAULT.
Bounded(p) == p.uid \notin AdminUids \cup {0} => p.caps \subseteq UserDefault

\* A machine: no pid is given twice, and shell_pid is a shell or no process.
Machine(m) ==
  /\ m = [table |-> m.table, next |-> m.next, shell |-> m.shell, current |-> m.current,
          ready |-> m.ready]
  /\ m.next \in Nat /\ m.shell \in Nat /\ m.ready \subseteq 1 .. (m.next - 1)
  /\ DOMAIN m.table \subseteq 1 .. (m.next - 1)
  /\ m.shell < m.next
  /\ Cardinality(DOMAIN m.table) <= MaxProcesses
  /\ m.table \in [DOMAIN m.table -> Process]
  /\ \A p \in DOMAIN m.table : Bounded(m.table[p])
  /\ m.shell \in DOMAIN m.table => m.table[m.shell].kind = "shell"

\* The shell process of the boot is gone, so that pid 1 is no process.
AfterFirst(m) == 1 \notin DOMAIN m.table /\ m.next > 1

\* The shell's process, when there is one, is of the session's user.
ShellFor(m, s) == m.shell \in DOMAIN m.table => m.table[m.shell].uid = s.uid

CapsInv ==
  /\ users \subseteq Uids /\ capSession \in Sessions /\ first \in BOOLEAN /\ ensured \in BOOLEAN
  /\ phase \in {"boot", "login", "shell"}
  /\ Machine(machine)
  /\ phase = "boot"
       => machine = [table |-> <<>>, next |-> 1, shell |-> 0, current |-> 0, ready |-> {}]
  /\ phase = "boot" => first /\ program = 0 /\ job = 0
  /\ first /\ phase # "boot" => machine.shell = 1 /\ machine.next > 1
  /\ ~first => AfterFirst(machine)
  /\ phase = "shell" => ~first
  /\ program # 0 => phase = "shell" /\ program \in DOMAIN machine.table
                      /\ program # machine.shell
  /\ job # 0 => job \in DOMAIN machine.table /\ job # program
  /\ ensured => phase = "shell" /\ ShellFor(machine, capSession)
  /\ ensured /\ program = 0 => machine.current \in {0, machine.shell}

-----------------------------------------------------------------------------
(* Capability sets.                                                        *)

\* What a user starts with.
LEMMA DefaultFacts ==
  ASSUME NEW s \in Sessions
  PROVE  /\ s.uid \in Uids
         /\ DefaultForUid(s, s.uid) \subseteq Caps
         /\ s.uid \notin AdminUids \cup {0} => DefaultForUid(s, s.uid) = UserDefault
<1>1. CASE s \in {NoOne, RecoverySession}
  <2>1. s.uid = 0
    BY <1>1 DEF NoOne, RecoverySession
  <2> QED
    BY <2>1, CapsAssumption DEF DefaultForUid
<1>2. ASSUME NEW u \in Uids, s = LoginOf(u)
      PROVE  /\ s.uid \in Uids
             /\ DefaultForUid(s, s.uid) \subseteq Caps
             /\ s.uid \notin AdminUids \cup {0} => DefaultForUid(s, s.uid) = UserDefault
  <2>1. s.uid = u /\ s.open /\ s.admin = (u \in AdminUids)
    BY <1>2 DEF LoginOf
  <2> QED
    BY <2>1, CapsAssumption, Zenon DEF DefaultForUid, AdminRole
<1> QED
  BY <1>1, <1>2 DEF Sessions

\* spawn_capabilities gives a child no more than its parent has.
LEMMA ChildFacts ==
  ASSUME NEW m, Machine(m), NEW parent \in Nat, NEW s \in Sessions,
         NEW kind \in {"job", "program"}
  PROVE  LET c == ChildOf(m, parent, s, kind) IN
         /\ c \in Process /\ Bounded(c) /\ c.uid = s.uid /\ c.kind = kind
         /\ parent \in DOMAIN m.table => c.caps \subseteq m.table[parent].caps
<1> DEFINE c == ChildOf(m, parent, s, kind)
<1>1. /\ c.uid = s.uid /\ c.kind = kind /\ c.caps = SpawnCapabilities(m, parent, s)
      /\ c = [uid |-> c.uid, parent |-> parent, kind |-> kind, live |-> TRUE, caps |-> c.caps]
  BY DEF ChildOf
<1> HIDE DEF c
<1>2. /\ c.caps \subseteq DefaultForUid(s, s.uid)
      /\ parent \in DOMAIN m.table => c.caps \subseteq m.table[parent].caps
  BY <1>1 DEF SpawnCapabilities
<1>3. c \in Process
  <2>1. s.uid \in Uids /\ SpawnCapabilities(m, parent, s) \in SUBSET Caps
    BY <1>1, <1>2, DefaultFacts
  <2>2. kind \in {"shell", "job", "program"}
    OBVIOUS
  <2> QED
    BY <2>1, <2>2 DEF Process, c, ChildOf
<1> QED
  BY <1>1, <1>2, <1>3, DefaultFacts DEF Bounded, c

LEMMA ShellFacts ==
  ASSUME NEW s \in Sessions
  PROVE  ShellOf(s) \in Process /\ Bounded(ShellOf(s)) /\ ShellOf(s).uid = s.uid
           /\ ShellOf(s).kind = "shell"
<1>1. ShellOf(s).uid = s.uid /\ ShellOf(s).caps = DefaultForUid(s, s.uid)
        /\ ShellOf(s).kind = "shell"
  BY DEF ShellOf
<1>2. ShellOf(s) \in Process
  BY <1>1, DefaultFacts DEF ShellOf, Process
<1> QED
  BY <1>1, <1>2, DefaultFacts DEF Bounded

-----------------------------------------------------------------------------
(* The process table.                                                      *)

LEMMA FiniteTable ==
  ASSUME NEW m, Machine(m)
  PROVE  IsFiniteSet(DOMAIN m.table) /\ Cardinality(DOMAIN m.table) \in Nat
<1>1. m.next - 1 \in Int
  BY DEF Machine
<1>2. IsFiniteSet(1 .. (m.next - 1))
  BY <1>1, FS_Interval
<1> QED
  BY <1>2, FS_Subset, FS_CardinalityType DEF Machine

\* create_process, when the table has room.
LEMMA AddedFacts ==
  ASSUME NEW m, Machine(m), ~ProcessesFull(m), NEW p \in Process, Bounded(p), m.next > 0
  PROVE  LET n == Added(m, p) IN
         /\ Machine(n) /\ n.next = m.next + 1 /\ n.shell = m.shell /\ n.current = m.current
         /\ n.ready = m.ready /\ DOMAIN n.table = DOMAIN m.table \cup {m.next}
         /\ n.table[m.next] = p /\ m.next \notin DOMAIN m.table
         /\ \A q \in DOMAIN m.table : n.table[q] = m.table[q]
<1> DEFINE n == Added(m, p)
<1>0. m.next \notin DOMAIN m.table /\ m.next \in Nat
  BY DEF Machine
<1>1. /\ n.next = m.next + 1 /\ n.shell = m.shell /\ n.current = m.current
      /\ n.ready = m.ready
      /\ n.table = [q \in DOMAIN m.table \cup {m.next} |-> IF q = m.next THEN p ELSE m.table[q]]
      /\ n = [table |-> n.table, next |-> n.next, shell |-> n.shell, current |-> n.current,
              ready |-> n.ready]
  <2>1. m = [table |-> m.table, next |-> m.next, shell |-> m.shell, current |-> m.current,
              ready |-> m.ready]
    BY DEF Machine
  <2> DEFINE t == [q \in DOMAIN m.table \cup {m.next} |-> IF q = m.next THEN p ELSE m.table[q]]
  <2>2. n = [[m EXCEPT !.table = t] EXCEPT !.next = m.next + 1]
    BY <2>1 DEF Added
  <2> HIDE DEF t, n
  <2>3. n = [table |-> t, next |-> m.next + 1, shell |-> m.shell, current |-> m.current,
             ready |-> m.ready]
    BY <2>1, <2>2, Zenon
  <2> QED
    BY <2>3 DEF t
<1> HIDE DEF n
<1>2. /\ DOMAIN n.table = DOMAIN m.table \cup {m.next}
      /\ n.table[m.next] = p
      /\ \A q \in DOMAIN m.table : n.table[q] = m.table[q]
  BY <1>0, <1>1
<1>3. n.table \in [DOMAIN n.table -> Process] /\ \A q \in DOMAIN n.table : Bounded(n.table[q])
  <2>1. \A q \in DOMAIN n.table : n.table[q] \in Process
    BY <1>0, <1>2 DEF Machine
  <2> QED
    BY <1>0, <1>1, <1>2, <2>1 DEF Machine
<1>4. Cardinality(DOMAIN n.table) <= MaxProcesses
  <2>1. Cardinality(DOMAIN n.table) = Cardinality(DOMAIN m.table) + 1
    BY <1>0, <1>2, FiniteTable, FS_AddElement, Zenon
  <2> QED
    BY <2>1, FiniteTable, CapsAssumption DEF ProcessesFull
<1>5. /\ DOMAIN n.table \subseteq 1 .. (n.next - 1) /\ n.next \in Nat /\ n.shell < n.next
      /\ n.ready \subseteq 1 .. (n.next - 1)
  BY <1>0, <1>1, <1>2 DEF Machine
<1>6. n.shell \in Nat /\ (n.shell \in DOMAIN n.table => n.table[n.shell].kind = "shell")
  BY <1>0, <1>1, <1>2 DEF Machine
<1>7. Machine(n)
  BY <1>1, <1>3, <1>4, <1>5, <1>6 DEF Machine
<1> QED
  BY <1>0, <1>1, <1>2, <1>7 DEF n

LEMMA RemovedFacts ==
  ASSUME NEW m, Machine(m), NEW pid
  PROVE  LET n == Removed(m, pid) IN
         /\ Machine(n) /\ n.next = m.next /\ n.shell = m.shell /\ n.current = m.current
         /\ n.ready = m.ready /\ DOMAIN n.table = DOMAIN m.table \ {pid}
         /\ \A q \in DOMAIN n.table : n.table[q] = m.table[q]
<1> DEFINE n == Removed(m, pid)
<1>1. /\ n = [table |-> n.table, next |-> n.next, shell |-> n.shell, current |-> n.current,
              ready |-> n.ready]
      /\ n.next = m.next /\ n.shell = m.shell /\ n.current = m.current /\ n.ready = m.ready
      /\ n.table = [q \in DOMAIN m.table \ {pid} |-> m.table[q]]
  BY DEF Removed, Restrict, Machine
<1> HIDE DEF n
<1>2. /\ DOMAIN n.table = DOMAIN m.table \ {pid}
      /\ \A q \in DOMAIN n.table : n.table[q] = m.table[q]
  BY <1>1
<1>3. Cardinality(DOMAIN n.table) <= MaxProcesses
  <2>1. DOMAIN n.table \subseteq DOMAIN m.table
    BY <1>2
  <2>2. Cardinality(DOMAIN n.table) <= Cardinality(DOMAIN m.table)
          /\ Cardinality(DOMAIN n.table) \in Nat
    BY <2>1, FiniteTable, FS_Subset, FS_CardinalityType
  <2> QED
    BY <2>2, FiniteTable, CapsAssumption DEF Machine
<1>4. n.table \in [DOMAIN n.table -> Process]
  BY <1>1, <1>2 DEF Machine
<1>5. Machine(n)
  BY <1>1, <1>2, <1>3, <1>4 DEF Machine
<1> QED
  BY <1>1, <1>2, <1>5 DEF n

\* The entry of a process is replaced by r, current_pid by c and the queues by q.
With(m, pid, r, c, q) ==
  [table |-> [m.table EXCEPT ![pid] = r], next |-> m.next, shell |-> m.shell, current |-> c,
   ready |-> q]

\* From m to n the processes stay the same ones, with the same bits or fewer.
Narrows(m, n) ==
  /\ Machine(n) /\ n.next = m.next /\ n.shell = m.shell /\ DOMAIN n.table = DOMAIN m.table
  /\ \A p \in DOMAIN m.table :
       /\ n.table[p].caps \subseteq m.table[p].caps
       /\ n.table[p].uid = m.table[p].uid /\ n.table[p].kind = m.table[p].kind

LEMMA WithFacts ==
  ASSUME NEW m, Machine(m), NEW pid \in DOMAIN m.table, NEW r \in Process, NEW c,
         NEW q, q \subseteq m.ready,
         r.caps \subseteq m.table[pid].caps, r.uid = m.table[pid].uid,
         r.kind = m.table[pid].kind
  PROVE  Narrows(m, With(m, pid, r, c, q)) /\ With(m, pid, r, c, q).current = c
<1> DEFINE n == With(m, pid, r, c, q)
<1>1. /\ n = [table |-> n.table, next |-> n.next, shell |-> n.shell, current |-> n.current,
              ready |-> n.ready]
      /\ n.next = m.next /\ n.shell = m.shell /\ n.current = c /\ n.ready = q
      /\ n.table = [m.table EXCEPT ![pid] = r]
  BY DEF With
<1> HIDE DEF n
<1>2. /\ DOMAIN n.table = DOMAIN m.table /\ n.table[pid] = r
      /\ \A k \in DOMAIN m.table : k # pid => n.table[k] = m.table[k]
  BY <1>1
<1>3. n.table \in [DOMAIN n.table -> Process]
  BY <1>1 DEF Machine
<1>4. \A k \in DOMAIN n.table : Bounded(n.table[k])
  BY <1>2 DEF Machine, Bounded
<1>5. n.shell \in DOMAIN n.table => n.table[n.shell].kind = "shell"
  BY <1>1, <1>2 DEF Machine
<1>6. Machine(n)
  BY <1>1, <1>2, <1>3, <1>4, <1>5 DEF Machine
<1> QED
  BY <1>1, <1>2, <1>6 DEF n, Narrows

LEMMA NarrowsRefl ==
  ASSUME NEW m, Machine(m), NEW c
  PROVE  Narrows(m, [m EXCEPT !.current = c]) /\ [m EXCEPT !.current = c].current = c
<1> DEFINE n == [m EXCEPT !.current = c]
<1>1. /\ n = [table |-> n.table, next |-> n.next, shell |-> n.shell, current |-> n.current,
              ready |-> n.ready]
      /\ n.table = m.table /\ n.next = m.next /\ n.shell = m.shell /\ n.current = c
      /\ n.ready = m.ready
  BY DEF Machine
<1> HIDE DEF n
<1>2. Machine(n)
  BY <1>1 DEF Machine
<1>3. Narrows(m, n) /\ n.current = c
  BY <1>1, <1>2 DEF Narrows
<1> QED
  BY <1>3 DEF n

\* timer_tick takes a process from the queues and puts the current one back.
LEMMA TickFacts ==
  ASSUME NEW m, Machine(m), NEW expired, NEW pid
  PROVE  Narrows(m, TimerTick(m, expired, pid)) /\ TimerTick(m, expired, pid).current = pid
<1> DEFINE n == TimerTick(m, expired, pid)
<1>0. Waiting(m, expired) \subseteq 1 .. (m.next - 1)
  BY DEF Waiting, Machine
<1>1. /\ n = [table |-> n.table, next |-> n.next, shell |-> n.shell, current |-> n.current,
              ready |-> n.ready]
      /\ n.table = m.table /\ n.next = m.next /\ n.shell = m.shell /\ n.current = pid
      /\ n.ready = Waiting(m, expired) \ {pid}
  <2> DEFINE w == Waiting(m, expired) \ {pid}
  <2>1. n = [m EXCEPT !.current = pid, !.ready = w]
    BY DEF TimerTick
  <2> HIDE DEF w, n
  <2>2. n = [table |-> m.table, next |-> m.next, shell |-> m.shell, current |-> pid, ready |-> w]
    BY <2>1, Zenon DEF Machine
  <2> QED
    BY <2>2 DEF w
<1> HIDE DEF n
<1>2. Machine(n)
  BY <1>0, <1>1 DEF Machine
<1>3. Narrows(m, n) /\ n.current = pid
  BY <1>1, <1>2 DEF Narrows
<1> QED
  BY <1>3 DEF n

\* set_process_capabilities with a smaller set, and drop_capabilities.
LEMMA SetFacts ==
  ASSUME NEW m, Machine(m), NEW pid \in DOMAIN m.table, NEW caps,
         caps \subseteq m.table[pid].caps
  PROVE  /\ Narrows(m, SetProcessCapabilities(m, pid, caps))
         /\ SetProcessCapabilities(m, pid, caps).current = m.current
         /\ SetProcessCapabilities(m, pid, caps).table[pid].caps = caps
<1> DEFINE r == [m.table[pid] EXCEPT !.caps = caps]
<1>1. m.table[pid] \in Process
  BY DEF Machine
<1>2. r \in Process /\ r.caps = caps /\ r.uid = m.table[pid].uid /\ r.kind = m.table[pid].kind
  BY <1>1 DEF Process
<1>3. SetProcessCapabilities(m, pid, caps) = With(m, pid, r, m.current, m.ready)
  BY DEF SetProcessCapabilities, With, Machine
<1> HIDE DEF r
<1>4. With(m, pid, r, m.current, m.ready).table[pid] = r
  BY DEF With
<1> QED
  BY <1>2, <1>3, <1>4, WithFacts

LEMMA DropFacts ==
  ASSUME NEW m, Machine(m), NEW caps
  PROVE  Narrows(m, DropCapabilities(m, caps)) /\ DropCapabilities(m, caps).current = m.current
<1>1. CASE m.current \in DOMAIN m.table
  <2> DEFINE r == [m.table[m.current] EXCEPT !.caps = m.table[m.current].caps \ caps]
  <2>1. m.table[m.current] \in Process
    BY <1>1 DEF Machine
  <2>2. /\ r \in Process /\ r.caps \subseteq m.table[m.current].caps
        /\ r.uid = m.table[m.current].uid /\ r.kind = m.table[m.current].kind
    BY <2>1 DEF Process
  <2>3. DropCapabilities(m, caps) = With(m, m.current, r, m.current, m.ready)
    BY <1>1, Zenon DEF DropCapabilities, With, Machine
  <2> HIDE DEF r
  <2> QED
    BY <1>1, <2>2, <2>3, WithFacts
<1>2. CASE m.current \notin DOMAIN m.table
  BY <1>2 DEF DropCapabilities, Narrows, Machine
<1> QED
  BY <1>1, <1>2

\* mark_running and mark_exit.
LEMMA MarkFacts ==
  ASSUME NEW m, Machine(m), NEW pid \in DOMAIN m.table
  PROVE  /\ Narrows(m, MarkRunning(m, pid)) /\ Narrows(m, MarkExit(m, pid))
         /\ MarkExit(m, pid).current \in {0, m.current}
<1>1. m.table[pid] \in Process
  BY DEF Machine
<1> DEFINE up == [m.table[pid] EXCEPT !.live = TRUE]
           down == [m.table[pid] EXCEPT !.live = FALSE]
           c == IF m.current = pid THEN 0 ELSE m.current
<1>2. /\ up \in Process /\ up.caps = m.table[pid].caps
      /\ up.uid = m.table[pid].uid /\ up.kind = m.table[pid].kind
  BY <1>1, Zenon DEF Process
<1>3. /\ down \in Process /\ down.caps = m.table[pid].caps
      /\ down.uid = m.table[pid].uid /\ down.kind = m.table[pid].kind
  BY <1>1, Zenon DEF Process
<1>4. MarkRunning(m, pid) = With(m, pid, up, pid, m.ready)
  BY Zenon DEF MarkRunning, With, Machine
<1>5. MarkExit(m, pid) = With(m, pid, down, c, m.ready \ {pid})
  BY Zenon DEF MarkExit, With, Machine, Dequeue
<1>8. c \in {0, m.current}
  OBVIOUS
<1> HIDE DEF up, down, c
<1>6. Narrows(m, With(m, pid, up, pid, m.ready))
  BY <1>2, WithFacts
<1>7. /\ Narrows(m, With(m, pid, down, c, m.ready \ {pid}))
      /\ With(m, pid, down, c, m.ready \ {pid}).current = c
  BY <1>3, WithFacts, SMTT(30)
<1> QED
  BY <1>4, <1>5, <1>6, <1>7, <1>8

\* ensure_shell_process once the boot's shell is gone: the current process is the
\* shell, which is of the session's user or no process at all, and nothing else
\* has changed.
LEMMA EnsureFacts ==
  ASSUME NEW m, Machine(m), AfterFirst(m), NEW s \in Sessions
  PROVE  LET n == EnsureShellProcess(m, s) IN
         /\ Machine(n) /\ AfterFirst(n) /\ n.current = n.shell /\ ShellFor(n, s)
         /\ n.next >= m.next /\ DOMAIN m.table \subseteq DOMAIN n.table
         /\ \A p \in DOMAIN m.table : n.table[p] = m.table[p]
         /\ \A p \in DOMAIN n.table \ DOMAIN m.table : p >= m.next /\ n.table[p].kind = "shell"
<1> DEFINE n == EnsureShellProcess(m, s)
           Goal(x) == /\ Machine(x) /\ AfterFirst(x) /\ x.current = x.shell /\ ShellFor(x, s)
                      /\ x.next >= m.next /\ DOMAIN m.table \subseteq DOMAIN x.table
                      /\ \A p \in DOMAIN m.table : x.table[p] = m.table[p]
                      /\ \A p \in DOMAIN x.table \ DOMAIN m.table :
                           p >= m.next /\ x.table[p].kind = "shell"
<1>0. m.next \in Nat /\ m.next > 1
  BY SMTT(30) DEF Machine, AfterFirst
<1>1. CASE m.shell \in DOMAIN m.table /\ m.table[m.shell].uid = s.uid
  <2>1. n = [m EXCEPT !.current = m.shell]
    BY <1>1 DEF EnsureShellProcess
  <2>2. n.table = m.table /\ n.next = m.next /\ n.shell = m.shell /\ n.current = m.shell
    BY <2>1 DEF Machine
  <2>3. Machine(n)
    BY <2>1, NarrowsRefl DEF Narrows
  <2> HIDE DEF n
  <2>4. Goal(n)
    BY <1>0, <1>1, <2>2, <2>3 DEF AfterFirst, ShellFor
  <2> QED
    BY <2>4 DEF n
<1>2. CASE ~(m.shell \in DOMAIN m.table /\ m.table[m.shell].uid = s.uid) /\ ProcessesFull(m)
  <2>1. n = [m EXCEPT !.shell = 1, !.current = 1]
    BY <1>2 DEF EnsureShellProcess, WithShell
  <2>2. /\ n.table = m.table /\ n.next = m.next /\ n.shell = 1 /\ n.current = 1
        /\ n.ready = m.ready
        /\ n = [table |-> n.table, next |-> n.next, shell |-> n.shell, current |-> n.current,
              ready |-> n.ready]
    BY <2>1, Zenon DEF Machine
  <2> HIDE DEF n
  <2>3. Machine(n)
    BY <1>0, <2>2 DEF Machine, AfterFirst
  <2>4. Goal(n)
    BY <1>0, <2>2, <2>3 DEF AfterFirst, ShellFor
  <2> QED
    BY <2>4 DEF n
<1>3. CASE ~(m.shell \in DOMAIN m.table /\ m.table[m.shell].uid = s.uid) /\ ~ProcessesFull(m)
  <2> DEFINE a == Added(m, ShellOf(s))
  <2>1. n = [a EXCEPT !.shell = m.next, !.current = m.next]
    BY <1>3 DEF EnsureShellProcess, WithShell
  <2>2. /\ Machine(a) /\ a.next = m.next + 1
        /\ DOMAIN a.table = DOMAIN m.table \cup {m.next}
        /\ a.table[m.next] = ShellOf(s) /\ m.next \notin DOMAIN m.table
        /\ \A q \in DOMAIN m.table : a.table[q] = m.table[q]
    <3>1. ShellOf(s) \in Process /\ Bounded(ShellOf(s))
      BY ShellFacts, ZenonT(40)
    <3>2. m.next > 0
      BY <1>0, SMTT(30)
    <3>3. ~ProcessesFull(m)
      BY <1>3, ZenonT(40)
    <3> QED
      BY <3>1, <3>2, <3>3, AddedFacts, ZenonT(60)
  <2> HIDE DEF a
  <2>3. /\ n.table = a.table /\ n.next = a.next /\ n.shell = m.next /\ n.current = m.next
        /\ n.ready = a.ready
        /\ n = [table |-> n.table, next |-> n.next, shell |-> n.shell, current |-> n.current,
              ready |-> n.ready]
    BY <2>1, <2>2, Zenon DEF Machine
  <2> HIDE DEF n
  <2>4. Machine(n)
    BY <1>0, <2>2, <2>3, ShellFacts DEF Machine
  <2>5. Goal(n)
    BY <1>0, <2>2, <2>3, <2>4, ShellFacts DEF AfterFirst, ShellFor
  <2> QED
    BY <2>5 DEF n
<1> QED
  BY <1>1, <1>2, <1>3

\* From m to n processes are removed or lose bits, and nothing else happens.
Within(m, n) ==
  /\ Machine(n) /\ n.next = m.next /\ DOMAIN n.table \subseteq DOMAIN m.table
  /\ \A p \in DOMAIN n.table : n.table[p].caps \subseteq m.table[p].caps

LEMMA NarrowsIsWithin ==
  ASSUME NEW m, NEW n, Narrows(m, n)
  PROVE  Within(m, n) /\ (AfterFirst(m) => AfterFirst(n))
BY DEF Narrows, Within, AfterFirst

\* reset_shell_process.
LEMMA ResetFacts ==
  ASSUME NEW m, Machine(m)
  PROVE  /\ Within(m, ResetShellProcess(m))
         /\ DOMAIN ResetShellProcess(m).table = DOMAIN m.table \ {m.shell}
<1>0. 0 \notin DOMAIN m.table
  BY DEF Machine
<1>1. CASE m.shell = 0
  BY <1>0, <1>1 DEF ResetShellProcess, Within
<1>2. CASE m.shell # 0
  <2> DEFINE r == Removed(m, m.shell)
             n == ResetShellProcess(m)
  <2>1. /\ Machine(r) /\ r.next = m.next
        /\ DOMAIN r.table = DOMAIN m.table \ {m.shell}
        /\ \A q \in DOMAIN r.table : r.table[q] = m.table[q]
    BY RemovedFacts
  <2>2. n = [Dequeue(r, m.shell) EXCEPT !.shell = 0]
    BY <1>2 DEF ResetShellProcess
  <2> HIDE DEF r, n
  <2>3. /\ n.table = r.table /\ n.next = r.next /\ n.shell = 0 /\ n.ready \subseteq r.ready
        /\ n = [table |-> n.table, next |-> n.next, shell |-> n.shell, current |-> n.current,
              ready |-> n.ready]
    BY <2>1, <2>2, Zenon DEF Machine, Dequeue
  <2>4. 0 < n.next
    BY <1>2, <2>1, <2>3 DEF Machine
  <2>5. Machine(n)
    BY <1>0, <2>1, <2>3, <2>4 DEF Machine
  <2> QED
    BY <2>1, <2>3, <2>5 DEF Within, n
<1> QED
  BY <1>1, <1>2

-----------------------------------------------------------------------------
(* Every step keeps the invariant and gives no bit back.                   *)

OneWay ==
  /\ \A p \in DOMAIN machine.table \cap DOMAIN machine'.table :
       machine'.table[p].caps \subseteq machine.table[p].caps
  /\ \A p \in DOMAIN machine'.table \ DOMAIN machine.table :
       LET q == machine'.table[p]
       IN  (q.kind # "shell" /\ machine'.shell \in DOMAIN machine'.table)
             => q.caps \subseteq machine'.table[machine'.shell].caps

\* The top of the shell's loop, after a turn that removed or narrowed processes.
LEMMA TurnStep ==
  ASSUME CapsInv, phase # "boot", NEW m, Within(machine, m), AfterFirst(m),
         NEW s \in Sessions, capSession' = s, machine' = EnsureShellProcess(m, s),
         phase' = "shell", program' = 0, first' = FALSE, users' \subseteq Uids,
         job' = 0 \/ job' \in DOMAIN m.table, ensured' = TRUE
  PROVE  CapsInv' /\ OneWay
<1>0. Machine(m) /\ m.next = machine.next /\ Machine(machine)
  BY DEF Within, CapsInv
<1> DEFINE n == EnsureShellProcess(m, s)
<1>1. /\ Machine(n) /\ AfterFirst(n) /\ n.current = n.shell /\ ShellFor(n, s)
      /\ n.next >= m.next /\ DOMAIN m.table \subseteq DOMAIN n.table
      /\ \A p \in DOMAIN m.table : n.table[p] = m.table[p]
      /\ \A p \in DOMAIN n.table \ DOMAIN m.table : p >= m.next /\ n.table[p].kind = "shell"
  BY <1>0, EnsureFacts
<1>2. machine' = n
  OBVIOUS
<1> HIDE DEF n
<1>3. \A p \in DOMAIN machine.table : p < m.next
  BY <1>0, SMTT(30) DEF Machine
<1>4. OneWay
  <2>1. ASSUME NEW p \in DOMAIN machine.table \cap DOMAIN machine'.table
        PROVE  machine'.table[p].caps \subseteq machine.table[p].caps
    <3>1. p \in Nat /\ m.next \in Nat /\ ~(p >= m.next)
      BY <1>0, <1>3 DEF Machine
    <3>2. p \in DOMAIN m.table
      BY <1>1, <1>2, <3>1
    <3> QED
      BY <1>1, <1>2, <3>2 DEF Within
  <2>2. ASSUME NEW p \in DOMAIN machine'.table \ DOMAIN machine.table
        PROVE  machine'.table[p].kind = "shell"
    <3>1. p \notin DOMAIN m.table
      BY DEF Within
    <3> QED
      BY <1>1, <1>2, <3>1
  <2> QED
    BY <2>1, <2>2 DEF OneWay
<1>5. Machine(machine)' /\ AfterFirst(machine)' /\ ShellFor(machine, capSession)'
  BY <1>1, <1>2, SMTT(60)
<1>6. job' # 0 => job' \in DOMAIN machine'.table /\ job' # program'
  BY <1>1, <1>2
<1>7. machine'.current \in {0, machine'.shell} /\ ensured' \in BOOLEAN
  BY <1>1, <1>2
<1> QED
  BY <1>4, <1>5, <1>6, <1>7, Zenon DEF CapsInv

\* A job or a program is made after the top of the loop, its parent the shell.
LEMMA SpawnStep ==
  ASSUME CapsInv, phase = "shell", program = 0, NEW kind \in {"job", "program"}, NEW m,
         m = EnsureShellProcess(machine, capSession), ~ProcessesFull(m),
         NEW n, n = Added(m, ChildOf(m, m.shell, capSession, kind)),
         \/ machine' = [n EXCEPT !.ready = n.ready \cup {m.next}] /\ program' = 0
         \/ machine' = [n EXCEPT !.current = m.next] /\ program' = m.next,
         UNCHANGED <<users, capSession, job, first, phase>>, ensured' = TRUE
  PROVE  CapsInv' /\ OneWay
<1>0. Machine(machine) /\ AfterFirst(machine) /\ capSession \in Sessions /\ ~first
  BY DEF CapsInv
<1>1. /\ Machine(m) /\ AfterFirst(m) /\ m.current = m.shell /\ ShellFor(m, capSession)
      /\ m.next >= machine.next /\ DOMAIN machine.table \subseteq DOMAIN m.table
      /\ \A p \in DOMAIN machine.table : m.table[p] = machine.table[p]
      /\ \A p \in DOMAIN m.table \ DOMAIN machine.table :
           p >= machine.next /\ m.table[p].kind = "shell"
  BY <1>0, EnsureFacts
<1> DEFINE c == ChildOf(m, m.shell, capSession, kind)
<1>2. /\ c \in Process /\ Bounded(c) /\ c.uid = capSession.uid /\ c.kind = kind
      /\ m.shell \in DOMAIN m.table => c.caps \subseteq m.table[m.shell].caps
  <2>1. m.shell \in Nat
    BY <1>1 DEF Machine
  <2> QED
    BY <1>0, <1>1, <2>1, ChildFacts
<1>3. n = Added(m, c)
  OBVIOUS
<1> HIDE DEF c
<1>4. /\ Machine(n) /\ n.next = m.next + 1 /\ n.shell = m.shell /\ n.current = m.current
      /\ DOMAIN n.table = DOMAIN m.table \cup {m.next}
      /\ n.table[m.next] = c /\ m.next \notin DOMAIN m.table
      /\ \A q \in DOMAIN m.table : n.table[q] = m.table[q]
  <2>1. m.next > 0
    BY <1>1 DEF AfterFirst, Machine
  <2> QED
    BY <1>1, <1>2, <1>3, <2>1, AddedFacts
<1>5. /\ Machine(machine') /\ machine'.shell = m.shell /\ machine'.next = m.next + 1
      /\ machine'.table = n.table
      /\ program' = 0 => machine'.current = machine'.shell
  <2>1. CASE machine' = [n EXCEPT !.ready = n.ready \cup {m.next}] /\ program' = 0
    <3> DEFINE w == n.ready \cup {m.next}
    <3>1. w \subseteq 1 .. (n.next - 1)
      BY <1>1, <1>4 DEF Machine, AfterFirst
    <3>2. machine' = [n EXCEPT !.ready = w]
      BY <2>1
    <3> HIDE DEF w
    <3>3. machine' = [table |-> n.table, next |-> n.next, shell |-> n.shell,
                      current |-> n.current, ready |-> w]
      BY <1>4, <3>2, Zenon DEF Machine
    <3>4. Machine(machine')
      BY <1>4, <3>1, <3>3 DEF Machine
    <3> QED
      BY <1>1, <1>4, <3>3, <3>4
  <2>2. CASE machine' = [n EXCEPT !.current = m.next] /\ program' = m.next
    <3>1. /\ machine'.table = n.table /\ machine'.shell = n.shell /\ machine'.next = n.next
      BY <1>4, <2>2 DEF Machine
    <3>2. Machine(machine')
      BY <1>4, <2>2, NarrowsRefl DEF Narrows
    <3>3. m.next # 0
      BY <1>1 DEF AfterFirst, Machine
    <3> QED
      BY <1>4, <2>2, <3>1, <3>2, <3>3, SMTT(30)
  <2> QED
    BY <2>1, <2>2
<1>6. AfterFirst(machine') /\ ShellFor(machine', capSession)
  <2>1. m.next \in Nat /\ m.next > 1 /\ m.shell # m.next
    BY <1>1, SMTT(30) DEF AfterFirst, Machine
  <2> QED
    BY <1>1, <1>4, <1>5, <2>1 DEF AfterFirst, ShellFor
<1>7. program' # 0 => program' = m.next /\ program' \in DOMAIN machine'.table
                        /\ program' # machine'.shell
  BY <1>1, <1>4, <1>5 DEF Machine
<1>8. OneWay
  <2>1. ASSUME NEW p \in DOMAIN machine.table \cap DOMAIN machine'.table
        PROVE  machine'.table[p].caps \subseteq machine.table[p].caps
    BY <1>1, <1>4, <1>5, SMTT(30)
  <2>2. ASSUME NEW p \in DOMAIN machine'.table \ DOMAIN machine.table,
               machine'.table[p].kind # "shell", machine'.shell \in DOMAIN machine'.table
        PROVE  machine'.table[p].caps \subseteq machine'.table[machine'.shell].caps
    <3>1. p = m.next
      BY <1>1, <1>4, <1>5, <2>2, SMTT(30)
    <3>2. m.shell \in DOMAIN m.table
      BY <1>1, <1>4, <1>5, <2>2 DEF Machine
    <3> QED
      BY <1>2, <1>4, <1>5, <3>1, <3>2
  <2> QED
    BY <2>1, <2>2 DEF OneWay
<1>9. job' # 0 => job' \in DOMAIN machine'.table /\ job' # program'
  <2>1. job # 0 => job \in DOMAIN machine.table
    BY DEF CapsInv
  <2>2. job # 0 => job \in DOMAIN m.table /\ job # m.next
    BY <1>1, <1>4, <2>1
  <2> QED
    BY <1>4, <1>5, <2>2
<1>10. Machine(machine)' /\ AfterFirst(machine)' /\ ShellFor(machine, capSession)'
  BY <1>5, <1>6 DEF Machine, AfterFirst, ShellFor, Bounded
<1> QED
  BY <1>0, <1>5, <1>7, <1>8, <1>9, <1>10 DEF CapsInv

\* A step that removes no process and gives none a bit. Only the top of the loop
\* makes the shell sure of its process again.
LEMMA NarrowStep ==
  ASSUME CapsInv, phase # "boot", Narrows(machine, machine'),
         UNCHANGED <<program, first, phase>>, users' \subseteq Uids, capSession' \in Sessions,
         job' # 0 => job' \in DOMAIN machine.table /\ job' # program, ensured' \in BOOLEAN,
         ensured' => ensured /\ capSession' = capSession,
         ensured' /\ program = 0 => machine'.current \in {0, machine.shell}
  PROVE  CapsInv' /\ OneWay
<1>1. /\ Machine(machine') /\ machine'.next = machine.next /\ machine'.shell = machine.shell
      /\ DOMAIN machine'.table = DOMAIN machine.table
  BY DEF Narrows
<1>2. OneWay
  BY DEF OneWay, Narrows
<1>3. Machine(machine)'
  BY <1>1
<1>4. ~first => AfterFirst(machine)'
  BY <1>1 DEF CapsInv, AfterFirst
<1>5. ensured' => phase = "shell" /\ ShellFor(machine, capSession)'
  <2>1. ShellFor(machine, capSession) /\ capSession' = capSession
          => ShellFor(machine, capSession)'
    BY <1>1 DEF ShellFor, Narrows
  <2>2. ensured => phase = "shell" /\ ShellFor(machine, capSession)
    BY Zenon DEF CapsInv
  <2> QED
    BY <2>1, <2>2, Zenon
<1>6. /\ program' # 0 => phase' = "shell" /\ program' \in DOMAIN machine'.table
                          /\ program' # machine'.shell
      /\ job' # 0 => job' \in DOMAIN machine'.table /\ job' # program'
      /\ first /\ phase # "boot" => machine'.shell = 1 /\ machine'.next > 1
  BY <1>1 DEF CapsInv
<1> QED
  BY <1>1, <1>2, <1>3, <1>4, <1>5, <1>6, Zenon DEF CapsInv

\* The boot: a shell for uid 0, and run_transition_proof, which gives the shell
\* its set back.
LEMMA CapsBootStep ==
  ASSUME CapsInv, CapsBoot
  PROVE  CapsInv' /\ OneWay
<1>0. /\ machine = [table |-> <<>>, next |-> 1, shell |-> 0, current |-> 0, ready |-> {}]
      /\ Machine(machine) /\ first /\ program = 0 /\ job = 0 /\ NoOne \in Sessions
  BY DEF CapsInv, CapsBoot, Sessions
<1>1. /\ machine.table = <<>> /\ machine.next = 1 /\ machine.shell = 0
      /\ DOMAIN machine.table = {} /\ ~ProcessesFull(machine)
  BY <1>0, FS_EmptySet, CapsAssumption DEF ProcessesFull
<1> DEFINE a == Added(machine, ShellOf(NoOne))
           m == EnsureShellProcess(machine, NoOne)
<1>2. /\ Machine(a) /\ a.next = 2 /\ DOMAIN a.table = {1} /\ a.table[1] = ShellOf(NoOne)
  <2>1. /\ Machine(a) /\ a.next = machine.next + 1
        /\ DOMAIN a.table = DOMAIN machine.table \cup {machine.next}
        /\ a.table[machine.next] = ShellOf(NoOne)
    <3>1. /\ ShellOf(NoOne) \in Process /\ Bounded(ShellOf(NoOne)) /\ machine.next > 0
          /\ Machine(machine) /\ ~ProcessesFull(machine)
      BY <1>0, <1>1, ShellFacts
    <3> QED
      BY <3>1, AddedFacts, ZenonT(60)
  <2> HIDE DEF a
  <2>2. /\ Machine(a) /\ a.next = 1 + 1 /\ DOMAIN a.table = {} \cup {1}
        /\ a.table[1] = ShellOf(NoOne)
    BY <1>1, <2>1, ZenonT(60)
  <2>3. {} \cup {1} = {1} /\ 1 + 1 = 2
    OBVIOUS
  <2> QED
    BY <2>2, <2>3, ZenonT(60)
<1>3. m = [a EXCEPT !.shell = 1, !.current = 1]
  BY <1>1 DEF EnsureShellProcess, WithShell
<1> HIDE DEF a, m
<1>4. /\ Machine(m) /\ m.next = 2 /\ DOMAIN m.table = {1} /\ m.table[1] = ShellOf(NoOne)
      /\ m.shell = 1
  <2>1. /\ m.table = a.table /\ m.next = a.next /\ m.shell = 1 /\ m.ready = a.ready
        /\ m = [table |-> m.table, next |-> m.next, shell |-> m.shell, current |-> m.current,
              ready |-> m.ready]
    BY <1>2, <1>3, Zenon DEF Machine
  <2>2. Machine(m)
    BY <1>0, <1>2, <2>1, ShellFacts DEF Machine
  <2> QED
    BY <1>2, <2>1, <2>2
<1>5. ShellOf(NoOne) \in Process /\ ShellOf(NoOne).uid = 0 /\ ShellOf(NoOne).kind = "shell"
  BY <1>0, ShellFacts DEF NoOne
<1> DEFINE less == Narrowed(m, "PKG_INSTALL")
           child == Spawned(less)
           gone == Removed(child, m.next)
           done == TransitionProof(m, "PKG_INSTALL")
<1>6. Narrows(m, less)
  BY <1>4, SetFacts DEF Narrowed
<1>7. /\ Machine(child) /\ child.next = 3 /\ child.shell = 1 /\ DOMAIN child.table = {1, 2}
      /\ child.table[1] = less.table[1]
  <2> DEFINE c == ChildOf(less, less.shell, capSession, "program")
  <2>1. /\ Machine(less) /\ less.next = 2 /\ less.shell = 1 /\ DOMAIN less.table = {1}
    BY <1>4, <1>6 DEF Narrows
  <2> HIDE DEF less
  <2>2. c \in Process /\ Bounded(c)
    BY <2>1, ChildFacts DEF CapsInv
  <2>3. ~ProcessesFull(less)
    BY <2>1, FS_Singleton, CapsAssumption DEF ProcessesFull
  <2>4. child = Added(less, c)
    BY DEF Spawned
  <2> HIDE DEF c, child
  <2>5. /\ Machine(child) /\ child.next = less.next + 1 /\ child.shell = less.shell
        /\ DOMAIN child.table = DOMAIN less.table \cup {less.next}
        /\ \A q \in DOMAIN less.table : child.table[q] = less.table[q]
    <3>1. less.next > 0
      BY <2>1
    <3> QED
      BY <2>1, <2>2, <2>3, <2>4, <3>1, AddedFacts, ZenonT(60)
  <2> QED
    BY <2>1, <2>5
<1>8. done = SetProcessCapabilities(gone, m.shell, m.table[m.shell].caps)
  BY DEF TransitionProof
<1>9. /\ Machine(gone) /\ gone.next = 3 /\ gone.shell = 1 /\ DOMAIN gone.table = {1}
      /\ gone.table[1] = less.table[1]
  <2> HIDE DEF child
  <2>1. /\ Machine(gone) /\ gone.next = child.next /\ gone.shell = child.shell
        /\ DOMAIN gone.table = DOMAIN child.table \ {m.next}
        /\ \A q \in DOMAIN gone.table : gone.table[q] = child.table[q]
    BY <1>7, RemovedFacts
  <2> QED
    BY <1>4, <1>7, <2>1
<1>10. less.table[1].uid = 0 /\ less.table[1].kind = "shell"
  BY <1>4, <1>5, <1>6 DEF Narrows
<1> HIDE DEF less, child, gone, done
<1>11. /\ done.next = 3 /\ done.shell = 1 /\ DOMAIN done.table = {1}
       /\ done = [table |-> done.table, next |-> done.next, shell |-> done.shell,
                  current |-> done.current, ready |-> done.ready]
       /\ done.ready = gone.ready
       /\ done.table = [gone.table EXCEPT ![1].caps = m.table[1].caps]
  BY <1>4, <1>8, <1>9 DEF SetProcessCapabilities, Machine
<1>12. /\ done.table[1] \in Process /\ done.table[1].uid = 0 /\ done.table[1].kind = "shell"
  <2>1. gone.table[1] \in Process /\ m.table[1].caps \in SUBSET Caps
    BY <1>4, <1>5, <1>9 DEF Machine, Process
  <2>2. done.table[1] = [gone.table[1] EXCEPT !.caps = m.table[1].caps]
    BY <1>9, <1>11
  <2> QED
    BY <1>9, <1>10, <2>1, <2>2 DEF Process
<1>13. Machine(done)
  <2>1. Cardinality({1}) = 1
    BY FS_Singleton, Zenon
  <2>2. done.table \in [DOMAIN done.table -> Process]
    BY <1>9, <1>11, <1>12 DEF Machine
  <2>3. done.ready \subseteq 1 .. (done.next - 1)
    BY <1>9, <1>11 DEF Machine
  <2> QED
    BY <1>11, <1>12, <2>1, <2>2, <2>3, CapsAssumption DEF Machine, Bounded
<1>14. /\ machine' = done /\ phase' = "login"
       /\ UNCHANGED <<users, capSession, program, job, first, ensured>> /\ ~ensured
  BY DEF CapsBoot, CapsInv, m, done
<1>15. OneWay
  BY <1>1, <1>11, <1>12, <1>14 DEF OneWay
<1>16. Machine(machine)'
  BY <1>13, <1>14
<1> QED
  BY <1>0, <1>11, <1>14, <1>15, <1>16 DEF CapsInv

LEMMA LogoutStep ==
  ASSUME CapsInv, CapsLogout
  PROVE  CapsInv' /\ OneWay
<1> DEFINE n == ResetShellProcess(machine)
<1>0. Machine(machine) /\ AfterFirst(machine) /\ ~first
  BY DEF CapsInv, CapsLogout
<1>1. Within(machine, n) /\ machine' = n /\ phase' = "login" /\ program' = 0 /\ program = 0
        /\ capSession' = NoOne /\ job' = 0 /\ ensured' = FALSE /\ UNCHANGED <<users, first>>
  BY <1>0, ResetFacts DEF CapsLogout
<1> HIDE DEF n
<1>2. OneWay
  BY <1>1 DEF OneWay, Within
<1>3. Machine(machine)' /\ AfterFirst(machine)'
  BY <1>0, <1>1 DEF Within, AfterFirst
<1> QED
  BY <1>0, <1>1, <1>2, <1>3, Zenon DEF CapsInv, Sessions

LEMMA ExecveStep ==
  ASSUME CapsInv, SysExecve
  PROVE  CapsInv' /\ OneWay
<1> DEFINE caps == ExecCapabilities(machine.table[program].caps, machine.table[program].uid)
<1>0. /\ Machine(machine) /\ phase # "boot" /\ program \in DOMAIN machine.table /\ program # 0
  BY DEF CapsInv, SysExecve
<1>1. caps \subseteq machine.table[program].caps
  BY DEF ExecCapabilities
<1>2. /\ machine' = SetProcessCapabilities(machine, program, caps)
      /\ UNCHANGED <<users, capSession, program, job, first, phase, ensured>>
  BY DEF SysExecve
<1> HIDE DEF caps
<1>3. Narrows(machine, machine')
  BY <1>0, <1>1, <1>2, SetFacts
<1>4. /\ users' \subseteq Uids /\ capSession' \in Sessions /\ ensured' \in BOOLEAN
      /\ job' # 0 => job' \in DOMAIN machine.table /\ job' # program
  BY <1>2 DEF CapsInv
<1>5. ensured' => ensured /\ capSession' = capSession
  BY <1>2, Zenon
<1> QED
  BY <1>0, <1>2, <1>3, <1>4, <1>5, NarrowStep, Zenon

LEMMA LoginStep ==
  ASSUME CapsInv, NEW u \in Uids, CapsLogin(LoginOf(u))
  PROVE  CapsInv' /\ OneWay
<1> DEFINE m == IF first THEN ResetShellProcess(machine) ELSE machine
<1>0. Machine(machine) /\ phase = "login" /\ program = 0 /\ LoginOf(u) \in Sessions
  BY DEF CapsInv, CapsLogin, AtLogin, Sessions
<1>1. Within(machine, m) /\ AfterFirst(m)
  <2>1. CASE first
    <3>1. machine.shell = 1 /\ machine.next > 1
      BY <1>0, <2>1 DEF CapsInv
    <3> QED
      BY <1>0, <2>1, <3>1, ResetFacts DEF AfterFirst, Within
  <2>2. CASE ~first
    BY <1>0, <2>2 DEF CapsInv, Within
  <2> QED
    BY <2>1, <2>2
<1>2. /\ capSession' = LoginOf(u) /\ machine' = EnsureShellProcess(m, LoginOf(u))
      /\ phase' = "shell" /\ program' = 0 /\ first' = FALSE /\ users' \subseteq Uids
      /\ job' = 0 /\ ensured' = TRUE
  BY <1>0 DEF CapsLogin, AtLogin, CapsInv
<1> HIDE DEF m
<1> QED
  BY <1>0, <1>1, <1>2, TurnStep, Zenon

LEMMA ExitStep ==
  ASSUME CapsInv, CapsExit
  PROVE  CapsInv' /\ OneWay
<1> DEFINE r == Removed(machine, program)
           m == [Dequeue(r, program) EXCEPT !.current = machine.shell]
<1>0. /\ Machine(machine) /\ AfterFirst(machine) /\ ~first /\ phase = "shell"
      /\ program # 0 /\ program # machine.shell
  BY DEF CapsInv, CapsExit
<1>1. /\ Machine(r) /\ r.next = machine.next /\ r.shell = machine.shell
      /\ DOMAIN r.table = DOMAIN machine.table \ {program}
      /\ \A q \in DOMAIN r.table : r.table[q] = machine.table[q]
  BY <1>0, RemovedFacts
<1>2. /\ machine' = m /\ program' = 0
      /\ UNCHANGED <<users, capSession, job, first, phase, ensured>>
  BY DEF CapsExit
<1> HIDE DEF r
<1>3. m = [table |-> r.table, next |-> r.next, shell |-> r.shell, current |-> r.shell,
           ready |-> r.ready \ {program}]
  <2> DEFINE c == IF r.current = program THEN 0 ELSE r.current
             q == r.ready \ {program}
             d == Dequeue(r, program)
  <2>1. d = [r EXCEPT !.current = c, !.ready = q]
    BY Zenon DEF Dequeue
  <2> HIDE DEF c, q, d
  <2>2. d = [table |-> r.table, next |-> r.next, shell |-> r.shell, current |-> c, ready |-> q]
    BY <1>1, <2>1, Zenon DEF Machine
  <2>3. m = [d EXCEPT !.current = r.shell]
    BY <1>1 DEF d
  <2> HIDE DEF m
  <2>4. m = [table |-> r.table, next |-> r.next, shell |-> r.shell, current |-> r.shell,
             ready |-> q]
    BY <2>2, <2>3, Zenon
  <2> QED
    BY <2>4 DEF q
<1> HIDE DEF m
<1>4. /\ m.table = r.table /\ m.next = r.next /\ m.shell = r.shell /\ m.current = r.shell
      /\ Machine(m)
  BY <1>1, <1>3 DEF Machine
<1>5. OneWay
  BY <1>1, <1>2, <1>4 DEF OneWay
<1>6. Machine(machine)' /\ AfterFirst(machine)'
  BY <1>0, <1>1, <1>2, <1>4 DEF AfterFirst
<1>7. ShellFor(machine, capSession) => ShellFor(machine, capSession)'
  BY <1>1, <1>2, <1>4 DEF ShellFor
<1>8. job' # 0 => job' \in DOMAIN machine'.table /\ job' # program'
  BY <1>1, <1>2, <1>4 DEF CapsInv
<1>9. ensured' => phase' = "shell" /\ ShellFor(machine, capSession)'
  BY <1>0, <1>2, <1>7 DEF CapsInv
<1>10. machine'.current \in {0, machine'.shell}
  BY <1>2, <1>4
<1> QED
  BY <1>0, <1>2, <1>5, <1>6, <1>8, <1>9, <1>10 DEF CapsInv

\* The recovery shell, and the top of the shell's loop.
LEMMA RecoveryOrTurnStep ==
  ASSUME CapsInv, EnterRecovery \/ ShellTurn
  PROVE  CapsInv' /\ OneWay
<1>0. /\ Machine(machine) /\ AfterFirst(machine) /\ ~first /\ phase # "boot"
      /\ capSession \in Sessions /\ RecoverySession \in Sessions /\ program = 0
  BY Zenon DEF CapsInv, EnterRecovery, AtLogin, ShellTurn, CapsPrompt, Sessions
<1>1. /\ phase' = "shell" /\ program' = 0 /\ first' = FALSE /\ users' \subseteq Uids
      /\ job' = 0 /\ ensured' = TRUE
  BY <1>0 DEF CapsInv, EnterRecovery, AtLogin, ShellTurn, CapsPrompt
<1>2. Within(machine, machine)
  BY <1>0 DEF Within
<1>3. \E s \in Sessions : capSession' = s /\ machine' = EnsureShellProcess(machine, s)
  BY <1>0, Zenon DEF EnterRecovery, ShellTurn
<1> QED
  BY <1>0, <1>1, <1>2, <1>3, TurnStep, Zenon

\* su and userdel change sessions and accounts only.
LEMMA AccountStep ==
  ASSUME CapsInv, NEW u \in Uids, CapsSu(u) \/ CapsUserdel(u)
  PROVE  CapsInv' /\ OneWay
<1>0. /\ Machine(machine) /\ phase # "boot" /\ users' \subseteq Uids /\ machine' = machine
      /\ UNCHANGED <<program, job, first, phase>>
  BY DEF CapsInv, CapsSu, CapsUserdel, CapsPrompt
<1>1. Narrows(machine, machine') /\ capSession' \in Sessions
  BY <1>0 DEF Narrows, CapsInv, CapsSu, CapsUserdel, Sessions
<1>2. job' # 0 => job' \in DOMAIN machine.table /\ job' # program
  BY <1>0 DEF CapsInv
<1>3. CASE CapsSu(u)
  <2>1. ensured' = FALSE
    BY <1>3 DEF CapsSu
  <2>2. /\ ensured' \in BOOLEAN /\ (ensured' => ensured /\ capSession' = capSession)
        /\ ensured' /\ program = 0 => machine'.current \in {0, machine.shell}
    BY <2>1, Zenon
  <2> QED
    BY <1>0, <1>1, <1>2, <2>2, NarrowStep, Zenon
<1>4. CASE CapsUserdel(u)
  <2>1. ensured' = ensured /\ capSession' = capSession
    BY <1>4 DEF CapsUserdel
  <2>2. ensured \in BOOLEAN /\ (ensured /\ program = 0 => machine.current \in {0, machine.shell})
    BY Zenon DEF CapsInv
  <2>3. /\ ensured' \in BOOLEAN /\ (ensured' => ensured /\ capSession' = capSession)
        /\ ensured' /\ program = 0 => machine'.current \in {0, machine.shell}
    BY <1>0, <2>1, <2>2, Zenon
  <2> QED
    BY <1>0, <1>1, <1>2, <2>3, NarrowStep, Zenon
<1> QED
  BY <1>3, <1>4

\* drop and kill, the timer, and a job's first and last step.
LEMMA ProcessStep ==
  ASSUME CapsInv,
         \/ \E c \in Caps : CmdDrop({c})
         \/ JobEnds
         \/ \E p \in DOMAIN machine.table :
              CmdKill(p) \/ JobStarts(p) \/ \E expired \in BOOLEAN : CapsTick(expired, p)
  PROVE  CapsInv' /\ OneWay
<1>0. /\ Machine(machine) /\ users \subseteq Uids /\ capSession \in Sessions
      /\ ensured \in BOOLEAN
      /\ ensured /\ program = 0 => machine.current \in {0, machine.shell}
  BY Zenon DEF CapsInv
<1>1. job # 0 => job \in DOMAIN machine.table /\ job # program /\ phase # "boot"
  BY DEF CapsInv
<1>2. UNCHANGED <<users, capSession, program, first, phase>> /\ phase # "boot"
  BY <1>1, Zenon DEF CmdDrop, JobEnds, CmdKill, JobStarts, CapsTick, CapsPrompt
<1>3. users' \subseteq Uids /\ capSession' \in Sessions /\ capSession' = capSession
  BY <1>0, <1>2
<1>4. ASSUME NEW c \in Caps, CmdDrop({c}) PROVE CapsInv' /\ OneWay
  <2>1. /\ Narrows(machine, machine') /\ machine'.current = machine.current
        /\ job' = job /\ ensured' = ensured
    BY <1>0, <1>4, DropFacts DEF CmdDrop
  <2>2. /\ ensured' \in BOOLEAN /\ (ensured' => ensured)
        /\ ensured' /\ program = 0 => machine'.current \in {0, machine.shell}
    BY <1>0, <2>1, Zenon
  <2>3. job' # 0 => job' \in DOMAIN machine.table /\ job' # program
    BY <1>1, <2>1
  <2> QED
    BY <1>2, <1>3, <2>1, <2>2, <2>3, NarrowStep, Zenon
<1>5. CASE JobEnds
  <2>1. /\ machine' = MarkExit(machine, job) /\ job \in DOMAIN machine.table
        /\ job' = 0 /\ ensured' = ensured
    BY <1>1, <1>5 DEF JobEnds
  <2>2. Narrows(machine, machine') /\ machine'.current \in {0, machine.current}
    BY <1>0, <2>1, MarkFacts
  <2>3. machine.current \in {0, machine.shell} => machine'.current \in {0, machine.shell}
    BY <2>2
  <2>4. /\ ensured' \in BOOLEAN /\ (ensured' => ensured)
        /\ ensured' /\ program = 0 => machine'.current \in {0, machine.shell}
    BY <1>0, <2>1, <2>3, Zenon
  <2> QED
    BY <1>2, <1>3, <2>1, <2>2, <2>4, NarrowStep, Zenon
<1>6. ASSUME NEW p \in DOMAIN machine.table, CmdKill(p) PROVE CapsInv' /\ OneWay
  <2>1. machine' = MarkExit(machine, p) /\ job' = job /\ ensured' = ensured
    BY <1>6 DEF CmdKill
  <2>2. Narrows(machine, machine') /\ machine'.current \in {0, machine.current}
    BY <1>0, <2>1, MarkFacts
  <2>3. machine.current \in {0, machine.shell} => machine'.current \in {0, machine.shell}
    BY <2>2
  <2>4. /\ ensured' \in BOOLEAN /\ (ensured' => ensured)
        /\ ensured' /\ program = 0 => machine'.current \in {0, machine.shell}
    BY <1>0, <2>1, <2>3, Zenon
  <2>5. job' # 0 => job' \in DOMAIN machine.table /\ job' # program
    BY <1>1, <2>1
  <2> QED
    BY <1>2, <1>3, <2>2, <2>4, <2>5, NarrowStep, Zenon
<1>7. ASSUME NEW p \in DOMAIN machine.table, JobStarts(p) PROVE CapsInv' /\ OneWay
  <2>1. /\ machine' = MarkRunning(machine, p) /\ job' = p /\ ensured' = FALSE /\ program = 0
    BY <1>7 DEF JobStarts
  <2>2. Narrows(machine, machine')
    BY <1>0, <2>1, MarkFacts
  <2>3. /\ ensured' \in BOOLEAN /\ (ensured' => ensured)
        /\ ensured' /\ program = 0 => machine'.current \in {0, machine.shell}
    BY <2>1, Zenon
  <2>4. job' # 0 => job' \in DOMAIN machine.table /\ job' # program
    BY <2>1
  <2> QED
    BY <1>2, <1>3, <2>2, <2>3, <2>4, NarrowStep, Zenon
<1>8. ASSUME NEW p \in DOMAIN machine.table, NEW expired \in BOOLEAN, CapsTick(expired, p)
      PROVE  CapsInv' /\ OneWay
  <2>1. /\ machine' = TimerTick(machine, expired, p) /\ job' = job
        /\ ensured' = (ensured /\ p = machine.current)
    BY <1>8, Zenon DEF CapsTick
  <2>2. Narrows(machine, machine') /\ machine'.current = p
    BY <1>0, <2>1, TickFacts, Zenon
  <2>3. /\ ensured' \in BOOLEAN /\ (ensured' => ensured)
        /\ ensured' /\ program = 0 => machine'.current \in {0, machine.shell}
    BY <1>0, <2>1, <2>2, Zenon
  <2>4. job' # 0 => job' \in DOMAIN machine.table /\ job' # program
    BY <1>1, <2>1, Zenon
  <2> QED
    BY <1>2, <1>3, <2>2, <2>3, <2>4, NarrowStep, Zenon
<1> QED
  BY <1>4, <1>5, <1>6, <1>7, <1>8, Zenon

\* spawn and exec; a full table only makes them fail.
LEMMA ChildStep ==
  ASSUME CapsInv, CmdSpawn \/ CapsExec
  PROVE  CapsInv' /\ OneWay
<1> DEFINE m == EnsureShellProcess(machine, capSession)
<1>0. /\ Machine(machine) /\ AfterFirst(machine) /\ ~first /\ phase = "shell" /\ program = 0
      /\ capSession \in Sessions /\ users \subseteq Uids /\ phase # "boot"
      /\ job = 0 \/ job \in DOMAIN machine.table
  BY DEF CapsInv, CmdSpawn, CapsExec, CapsPrompt
<1>1. UNCHANGED <<users, capSession, job, first, phase>> /\ first' = FALSE /\ ensured' = TRUE
  BY <1>0 DEF CmdSpawn, CapsExec, CapsInv
<1>2. CASE ProcessesFull(m)
  <2>1. machine' = m /\ program' = 0
    BY <1>0, <1>2 DEF CmdSpawn, CapsExec
  <2>2. Within(machine, machine)
    BY <1>0 DEF Within
  <2>3. /\ capSession' = capSession /\ phase' = "shell" /\ users' \subseteq Uids
        /\ job' = 0 \/ job' \in DOMAIN machine.table
    BY <1>0, <1>1
  <2> QED
    BY <1>0, <1>1, <2>1, <2>2, <2>3, TurnStep, Zenon
<1>3. CASE ~ProcessesFull(m)
  <2>1. CASE CmdSpawn
    <3> DEFINE n == Added(m, ChildOf(m, m.shell, capSession, "job"))
    <3>1. machine' = [n EXCEPT !.ready = n.ready \cup {m.next}] /\ program' = 0
      BY <1>0, <1>3, <2>1 DEF CmdSpawn
    <3> HIDE DEF m, n
    <3> QED
      BY <1>0, <1>1, <1>3, <3>1, SpawnStep, Zenon DEF m, n
  <2>2. CASE CapsExec
    <3> DEFINE n == Added(m, ChildOf(m, m.shell, capSession, "program"))
    <3>1. machine' = [n EXCEPT !.current = m.next] /\ program' = m.next
      BY <1>0, <1>3, <2>2 DEF CapsExec
    <3> HIDE DEF m, n
    <3> QED
      BY <1>0, <1>1, <1>3, <3>1, SpawnStep, Zenon DEF m, n
  <2> QED
    BY <2>1, <2>2
<1> QED
  BY <1>2, <1>3

LEMMA CapsInvStep ==
  ASSUME CapsInv, [CapsNext]_capvars
  PROVE  CapsInv' /\ [OneWay]_capvars
<1>1. CASE UNCHANGED capvars
  BY <1>1 DEF capvars, CapsInv, Machine, AfterFirst, ShellFor, Bounded
<1> QED
  BY <1>1, CapsBootStep, LogoutStep, ExecveStep, LoginStep, ExitStep, RecoveryOrTurnStep,
     AccountStep, ProcessStep, ChildStep, Zenon
     DEF CapsNext

LEMMA CapsInvStart == CapsInit => CapsInv
<1> SUFFICES ASSUME CapsInit PROVE CapsInv
  OBVIOUS
<1>1. /\ machine.table = <<>> /\ machine.next = 1 /\ machine.shell = 0 /\ machine.current = 0
      /\ DOMAIN machine.table = {} /\ machine.ready = {}
      /\ machine = [table |-> machine.table, next |-> machine.next, shell |-> machine.shell,
                    current |-> machine.current, ready |-> machine.ready]
  BY DEF CapsInit
<1>2. machine.table \in [DOMAIN machine.table -> Process]
  BY <1>1
<1>3. Machine(machine)
  BY <1>1, <1>2, FS_EmptySet, CapsAssumption DEF Machine
<1> QED
  BY <1>3, Zenon DEF CapsInit, CapsInv, Sessions

LEMMA CapsInvHolds == CapsSpec => []CapsInv
BY CapsInvStart, CapsInvStep, PTL DEF CapsSpec

-----------------------------------------------------------------------------
(* What follows.                                                           *)

\* The machine and the sessions have their types, and the table its limit.
THEOREM CapsTypesHold == CapsSpec => []CapsTypeOK
<1>1. \A s \in Sessions : s \in [uid : Uids, admin : BOOLEAN, open : BOOLEAN]
  <2> DEFINE S == [uid : Uids, admin : BOOLEAN, open : BOOLEAN]
  <2>1. NoOne \in S /\ RecoverySession \in S
    BY CapsAssumption DEF NoOne, RecoverySession
  <2>2. ASSUME NEW u \in Uids PROVE LoginOf(u) \in S
    <3>1. (u \in AdminUids) \in BOOLEAN
      OBVIOUS
    <3> QED
      BY <3>1, Zenon DEF LoginOf
  <2> QED
    BY <2>1, <2>2 DEF Sessions
<1>2. CapsInv => CapsTypeOK
  BY <1>1 DEF CapsInv, CapsTypeOK, Machine, Process
<1> QED
  BY <1>2, CapsInvHolds, PTL

\* From the top of a turn of the shell's loop until a tick, a job or su takes its
\* place the current process, when there is one, is a shell of the session's user,
\* and at no time does a process of an ordinary user hold a bit outside
\* USER_DEFAULT (ensure_shell_process, default_for_uid, spawn_capabilities).
THEOREM ShellIsTheSessionsHolds == CapsSpec => []ShellIsTheSessions
<1>1. CapsInv => ShellIsTheSessions
  BY DEF CapsInv, ShellIsTheSessions, Machine, ShellFor, Bounded
<1> QED
  BY <1>1, CapsInvHolds, PTL

\* drop_capabilities is one-way: no step of any process gives a bit back, and a
\* child starts within its parent's set (spawn_capabilities, exec_capabilities).
THEOREM DropsAreOneWayHolds == CapsSpec => DropsAreOneWay
<1>1. CapsInv /\ [CapsNext]_capvars => [OneWay]_capvars
  BY CapsInvStep
<1>2. CapsSpec => [][OneWay]_capvars
  BY <1>1, CapsInvHolds, PTL DEF CapsSpec
<1> QED
  BY <1>2 DEF OneWay, DropsAreOneWay

=============================================================================
