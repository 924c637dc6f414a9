------------------------------ MODULE WarFiles ------------------------------
(***************************************************************************)
(* WarFS as the shell and user programs see it: kernel/src/fs/mod.rs, the  *)
(* permission checks of kernel/src/auth and the session's paths.           *)
(*                                                                         *)
(* A path is the sequence of its components: "/" is <<>>, "/d/f" is        *)
(* <<"d", "f">> and "//f" is <<"", "f">>.  The contents of a file are a    *)
(* sequence of tokens.  Every operation is an operator from a machine      *)
(* state m to a result [m |-> state, err |-> "Ok" or the FsError].  In a   *)
(* machine state                                                           *)
(*   ram   maps the path of every file to its FileEntry,                   *)
(*   disk  maps paths to the entry last handed to the disk layer,          *)
(*   user  is the session's user, or Nobody,                               *)
(*   cwd   is the session's working directory.                             *)
(* Time stamps and the audit log are left out.                             *)
(***************************************************************************)
EXTENDS Naturals, FiniteSets, SequencesExt

CONSTANTS
  Users,          \* the ordinary accounts; "root" is the administrator
  Valid,          \* the components validate_canonical_component accepts
  MaxFiles,       \* WarFS::max_files
  MaxFileSize,    \* MAX_FILE_SIZE, in tokens
  TotalCapacity,  \* TOTAL_CAPACITY, in tokens
  MaxPathLen      \* MAX_PATH_LEN, in components

Nobody == "nobody"
WarDir == ".wardir"

(* The session: without one the kernel answers uid 0 and the role Admin.   *)
Uid(m) == IF m.user = Nobody THEN "root" ELSE m.user
Admin(m) == Uid(m) = "root"
Home(m) == CASE m.user = Nobody -> <<>>
             [] m.user = "root" -> <<"root">>
             [] OTHER           -> <<"home", m.user>>

-----------------------------------------------------------------------------
(* Paths                                                                   *)

(* An input is an absolute path, a path below "~", or a relative one.  At  *)
(* the root a relative name resolves to "//name".                          *)
ResolvePath(m, in) ==
  CASE in.from = "~" /\ m.user = Nobody -> <<"~">> \o in.comps
    [] in.from = "/" \/ m.user = Nobody -> in.comps
    [] in.from = "~"                    -> Home(m) \o in.comps
    [] in.comps = <<>>                  -> m.cwd
    [] m.cwd = <<>>                     -> <<"">> \o in.comps
    [] OTHER                            -> m.cwd \o in.comps

Absolute(p) == [from |-> "/", comps |-> p]

CanonicalPath(p) == SelectSeq(p, LAMBDA c : c \notin {"", "."})

(* The first check that fails decides the error of an operation.           *)
FirstErr(checks) ==
  LET i == SelectInSeq(checks, LAMBDA c : c[1])
  IN  IF i = 0 THEN "Ok" ELSE checks[i][2]

PathErr(p) ==
  FirstErr(<< <<\E c \in Range(CanonicalPath(p)) : c \notin Valid, "InvalidFilename">>,
              <<Len(CanonicalPath(p)) > MaxPathLen, "FilenameTooLong">> >>)

(* What the program interface accepts: nothing is normalised away.         *)
WarexecPathErr(p) ==
  FirstErr(<< <<\E c \in Range(p) : c \notin Valid, "InvalidFilename">>,
              <<Len(p) > MaxPathLen, "FilenameTooLong">> >>)

ParentDirectory(p) ==
  IF p = <<>> \/ Front(p) = <<"">> THEN <<>> ELSE Front(p)

DirectoryMarker(p) == Append(p, WarDir)

(* /root and the home of a known user belong to somebody.                  *)
ProtectedPathOwner(p) ==
  CASE p # <<>> /\ p[1] = "root"                          -> "root"
    [] Len(p) > 1 /\ p[1] = "home" /\ p[2] \in Users      -> p[2]
    [] OTHER                                              -> Nobody

CanAccessPath(m, p) ==
  \/ Admin(m)
  \/ ProtectedPathOwner(p) \in {Nobody, m.user}

-----------------------------------------------------------------------------
(* Permissions                                                             *)

Private(u) == [owner |-> u, ownerRead |-> TRUE, ownerWrite |-> TRUE,
               othersRead |-> FALSE, othersWrite |-> FALSE]
Shared(u) == [Private(u) EXCEPT !.othersRead = TRUE]
System == Shared("root")

DefaultPermissionsFor(p, u) ==
  IF p # <<>> /\ (p[1] = "root" \/ (p[1] = "home" /\ Len(p) > 1))
  THEN Private(u) ELSE Shared(u)

CanRead(m, perm) ==
  Admin(m) \/ (IF perm.owner = m.user THEN perm.ownerRead ELSE perm.othersRead)

CanWrite(m, perm) ==
  Admin(m) \/ (IF perm.owner = m.user THEN perm.ownerWrite ELSE perm.othersWrite)

(* The four characters are applied before they are checked.                *)
ApplyMode(perm, mode) ==
  IF Len(mode) # 4 THEN perm
  ELSE [perm EXCEPT !.ownerRead  = mode[1] = "r", !.ownerWrite  = mode[2] = "w",
                    !.othersRead = mode[3] = "r", !.othersWrite = mode[4] = "w"]

ModeOk(mode) ==
  Len(mode) = 4 /\ \A i \in 1..4 : mode[i] \in {"-", IF i % 2 = 1 THEN "r" ELSE "w"}

-----------------------------------------------------------------------------
(* The file table                                                          *)

Entry(data, readonly, owner, perm) ==
  [data |-> data, readonly |-> readonly, owner |-> owner, perm |-> perm]

Has(m, p) == p \in DOMAIN m.ram

Used(ram, paths) == MapThenSumSet(LAMBDA p : Len(ram[p].data), paths)

UsedWithout(m, p) == Used(m.ram, DOMAIN m.ram \ {p})

TableFull(m, p) == ~Has(m, p) /\ Cardinality(DOMAIN m.ram) >= MaxFiles

Ok(m) == [m |-> m, err |-> "Ok"]
Err(m, e) == [m |-> m, err |-> e]

(* Put the entry in the table and hand it to the disk layer.               *)
Store(m, p, e) == [m EXCEPT !.ram = (p :> e) @@ @, !.disk = (p :> e) @@ @]

WriteInternal(m, raw, data, perm, readonly) ==
  LET p == CanonicalPath(raw)
      err == FirstErr(<<
        <<Len(data) > MaxFileSize, "FileTooLarge">>,
        <<PathErr(raw) # "Ok", PathErr(raw)>>,
        <<p = <<>>, "InvalidFilename">>,
        <<UsedWithout(m, p) + Len(data) > TotalCapacity, "FilesystemFull">>,
        <<Has(m, p) /\ m.ram[p].readonly, "ReadOnly">>,
        <<Has(m, p) /\ ~CanWrite(m, m.ram[p].perm), "PermissionDenied">>,
        <<TableFull(m, p), "FilesystemFull">> >>)
  IN  IF err # "Ok" THEN Err(m, err)
      ELSE Ok(Store(m, p, IF Has(m, p)
                          THEN [m.ram[p] EXCEPT !.data = data, !.readonly = readonly]
                          ELSE Entry(data, readonly, perm.owner, perm)))

SeedSystem(m, p, data) ==
  LET err == FirstErr(<<
        <<Len(data) > MaxFileSize, "FileTooLarge">>,
        <<UsedWithout(m, p) + Len(data) > TotalCapacity, "FilesystemFull">>,
        <<TableFull(m, p), "FilesystemFull">> >>)
  IN  IF err # "Ok" THEN Err(m, err)
      ELSE Ok(Store(m, p, Entry(data, TRUE, "root", System)))

LoadFileFromDisk(m, p, e) ==
  IF \/ Len(e.data) > MaxFileSize \/ PathErr(p) # "Ok" \/ p = <<>>
     \/ UsedWithout(m, p) + Len(e.data) > TotalCapacity \/ TableFull(m, p)
  THEN m
  ELSE [m EXCEPT !.ram = (p :> [e EXCEPT !.perm.owner = e.owner]) @@ @]

CreateNewAs(m, p, data, perm) ==
  LET err == FirstErr(<<
        <<Len(data) > MaxFileSize, "FileTooLarge">>,
        <<PathErr(p) # "Ok", PathErr(p)>>,
        <<p = <<>>, "InvalidFilename">>,
        <<Has(m, p), "AlreadyExists">>,
        <<~\/ Len(p) <= 1
           \/ \E q \in DOMAIN m.ram : IsStrictPrefix(ParentDirectory(p), q), "FileNotFound">>,
        <<TableFull(m, p), "FilesystemFull">>,
        <<UsedWithout(m, p) + Len(data) > TotalCapacity, "FilesystemFull">> >>)
  IN  IF err # "Ok" THEN Err(m, err) ELSE Ok(Store(m, p, Entry(data, FALSE, Uid(m), perm)))

(* Mutant: the file is not deleted from the disk.                          *)
BugDeleteAs(m, raw) ==
  LET p == CanonicalPath(raw)
  IN  IF Has(m, p) /\ ~m.ram[p].readonly /\ (Admin(m) \/ m.ram[p].owner = m.user)
      THEN Ok([m EXCEPT !.ram = [q \in DOMAIN @ \ {p} |-> @[q]]]) ELSE Err(m, "FileNotFound")

DeleteAs(m, raw) ==
  LET p == CanonicalPath(raw)
      err == FirstErr(<<
        <<PathErr(raw) # "Ok", PathErr(raw)>>,
        <<~Has(m, p), "FileNotFound">>,
        <<Has(m, p) /\ m.ram[p].readonly, "ReadOnly">>,
        <<Has(m, p) /\ ~Admin(m) /\ m.ram[p].owner # m.user, "PermissionDenied">> >>)
      Without(files) == [q \in DOMAIN files \ {p} |-> files[q]]
  IN  IF err # "Ok" THEN Err(m, err)
      ELSE Ok([m EXCEPT !.ram = Without(@), !.disk = Without(@)])

(* Mutant: everyone may change the mode.                                   *)
BugChmodAs(m, raw, mode) ==
  LET p == CanonicalPath(raw)
  IN  IF Has(m, p) /\ ~m.ram[p].readonly
      THEN Ok(Store(m, p, [m.ram[p] EXCEPT !.perm = ApplyMode(@, mode)]))
      ELSE Err(m, "FileNotFound")

(* A mode that is refused has changed the bits in memory, not on disk.     *)
ChmodAs(m, raw, mode) ==
  LET p == CanonicalPath(raw)
      err == FirstErr(<<
        <<PathErr(raw) # "Ok", PathErr(raw)>>,
        <<~Has(m, p), "FileNotFound">>,
        <<Has(m, p) /\ m.ram[p].readonly, "ReadOnly">>,
        <<Has(m, p) /\ ~Admin(m) /\ m.ram[p].owner # m.user, "PermissionDenied">> >>)
      e == [m.ram[p] EXCEPT !.perm = ApplyMode(@, mode)]
  IN  CASE err # "Ok"    -> Err(m, err)
        [] ModeOk(mode)  -> Ok(Store(m, p, e))
        [] OTHER         -> Err([m EXCEPT !.ram[p] = e], "InvalidFilename")

-----------------------------------------------------------------------------
(* The operations of the current session, which the shell calls            *)

WriteCurrent(m, in, data) ==
  LET p == ResolvePath(m, in)
  IN  IF CanAccessPath(m, p)
      THEN WriteInternal(m, p, data, DefaultPermissionsFor(p, Uid(m)), FALSE)
      ELSE Err(m, "PermissionDenied")

(* touch writes no bytes: it empties a file that exists.                   *)
TouchCurrent(m, in) == WriteCurrent(m, in, <<>>)

ReadErr(m, in) ==
  LET raw == ResolvePath(m, in)
      p == CanonicalPath(raw)
  IN  FirstErr(<< <<~CanAccessPath(m, raw), "PermissionDenied">>,
                  <<PathErr(raw) # "Ok", PathErr(raw)>>,
                  <<~Has(m, p), "FileNotFound">>,
                  <<Has(m, p) /\ ~CanRead(m, m.ram[p].perm), "PermissionDenied">> >>)

ReadCurrent(m, in) == m.ram[CanonicalPath(ResolvePath(m, in))].data

DeleteCurrent(m, in) ==
  LET p == ResolvePath(m, in)
  IN  IF CanAccessPath(m, p) THEN DeleteAs(m, p) ELSE Err(m, "PermissionDenied")

ChmodCurrent(m, in, mode) ==
  LET p == ResolvePath(m, in)
  IN  IF CanAccessPath(m, p) THEN ChmodAs(m, p, mode) ELSE Err(m, "PermissionDenied")

(* A directory exists when it has a marker or a file below it.             *)
DirectoryExists(m, p) == p = <<>> \/ \E q \in DOMAIN m.ram : IsStrictPrefix(p, q)

ValidateCreateNew(m, p) ==
  FirstErr(<< <<~CanAccessPath(m, p), "PermissionDenied">>,
              <<PathErr(p) # "Ok", PathErr(p)>>,
              <<p = <<>>, "InvalidFilename">>,
              <<Has(m, p), "AlreadyExists">>,
              <<~DirectoryExists(m, ParentDirectory(p)), "FileNotFound">> >>)

CreateNewCurrent(m, p, data) ==
  LET err == ValidateCreateNew(m, p)
  IN  IF err # "Ok" THEN Err(m, err)
      ELSE CreateNewAs(m, p, data, DefaultPermissionsFor(p, Uid(m)))

ChangeDirectory(m, in) ==
  LET p == ResolvePath(m, in)
  IN  CASE ~CanAccessPath(m, p)    -> Err(m, "PermissionDenied")
        [] ~DirectoryExists(m, p)  -> Err(m, "FileNotFound")
        [] m.user = Nobody         -> Ok(m)
        [] OTHER                   -> Ok([m EXCEPT !.cwd = p])

MkdirCurrent(m, in) ==
  LET p == ResolvePath(m, in)
  IN  CASE ~CanAccessPath(m, p) -> Err(m, "PermissionDenied")
        [] ~DirectoryExists(m, ParentDirectory(p)) -> Err(m, "FileNotFound")
        [] OTHER -> WriteInternal(m, DirectoryMarker(p), <<>>,
                                  DefaultPermissionsFor(p, Uid(m)), FALSE)

(* No name begins with "//": the root counts as empty.                     *)
RmdirCurrent(m, in) ==
  LET p == ResolvePath(m, in)
  IN  CASE ~CanAccessPath(m, p) -> Err(m, "PermissionDenied")
        [] p # <<>> /\ \E q \in DOMAIN m.ram : IsStrictPrefix(p, q) /\ q # DirectoryMarker(p) ->
             Err(m, "ReadOnly")
        [] OTHER -> DeleteAs(m, DirectoryMarker(p))

CopyCurrent(m, from, to) ==
  IF ReadErr(m, from) # "Ok" THEN Err(m, ReadErr(m, from))
  ELSE WriteCurrent(m, to, ReadCurrent(m, from))

(* Copy, then delete: a refused delete leaves the copy, and a file moved   *)
(* to its own name is deleted.                                             *)
MoveCurrent(m, from, to) ==
  LET copied == CopyCurrent(m, from, to)
  IN  IF copied.err # "Ok" THEN copied ELSE DeleteCurrent(copied.m, from)

(* The names in a directory that have an entry this session may read.      *)
ListErr(m, p) ==
  FirstErr(<< <<~CanAccessPath(m, p), "PermissionDenied">>,
              <<~DirectoryExists(m, p), "FileNotFound">> >>)

ListEntries(m, p) ==
  { [name |-> q[Len(p) + 1], isDir |-> Len(q) > Len(p) + 1] :
      q \in { q \in DOMAIN m.ram : /\ IsStrictPrefix(p, q)
                                   /\ q[Len(p) + 1] # WarDir
                                   /\ CanRead(m, m.ram[q].perm) } }

=============================================================================
