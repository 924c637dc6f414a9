--------------------------- MODULE MCWarPkgUpdate ---------------------------
(* Instances of WarPkgUpdate for TLC. *)
EXTENDS WarPkgUpdate, TLC

CONSTANTS h1, h2,   \* two versions of one package
          d1,       \* the only version of its dependency
          a, b      \* file paths

\* One package in two versions: the second drops a file of the first,
\* or replaces the file's content.
OnePkgOf == [x \in {h1, h2} |-> "hello"]
OneFilesOf == (h1 :> {a, b}) @@ (h2 :> {b})
SameFilesOf == (h1 :> {a}) @@ (h2 :> {a})
OneIndex == [p \in {"hello"} |-> h1]
OneOrder == [p \in {"hello"} |-> <<"hello">>]

\* A package in two versions and its dependency.
DepPkgOf == (h1 :> "hello") @@ (h2 :> "hello") @@ (d1 :> "dep")
DepFilesOf == (h1 :> {a}) @@ (h2 :> {a}) @@ (d1 :> {b})
DepIndex == ("hello" :> h1) @@ ("dep" :> d1)
DepOrder == ("hello" :> <<"dep", "hello">>) @@ ("dep" :> <<"dep">>)
=============================================================================
