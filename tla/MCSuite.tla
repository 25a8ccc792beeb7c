------------------------------ MODULE MCSuite ------------------------------
(***************************************************************************)
(* A small instance of Suite: two updates of one system, the new image of  *)
(* the first being the old image of the second, as in                      *)
(* smartota-alpine-expanded.json, where only the first is enabled, and two *)
(* policies of which the learned one carries the name of the other.        *)
(***************************************************************************)
EXTENDS Suite

CONSTANTS v1, v2, v3

Published == {v1, v2, v3}
Archives == {"a.tgz", "b.tgz", "c.tgz"}
Tars == {"a.tar", "b.tar", "c.tar"}
TwoUpdates == <<"first", "second">>
FirstOnly == {"first"}
Both == {"first", "second"}
Files6 == Archives \cup Tars

TarOf ==
  [f \in Files6 |-> CASE f = "a.tgz" -> "a.tar" [] f = "b.tgz" -> "b.tar"
                      [] f = "c.tgz" -> "c.tar" [] OTHER -> f]

OldNew(x, y) == [s \in Side |-> IF s = "old" THEN x ELSE y]

Shipped ==
  [p \in Both |->
     IF p = "first"
     THEN [file |-> OldNew("a.tgz", "b.tgz"), declared |-> OldNew(v1, v2),
           documents |-> Document, enabled |-> TRUE]
     ELSE [file |-> OldNew("b.tgz", "c.tgz"),
           declared |-> OldNew(Undeclared, Undeclared),
           documents |-> {"source"}, enabled |-> FALSE]]

(* Nothing there yet, or what the maintainer put there by hand.            *)
Disks ==
  {[f \in Files6 |-> Absent],
   [f \in Files6 |-> CASE f = "a.tgz" -> v1 [] f = "b.tgz" -> v2
                       [] f = "c.tgz" -> v3 [] OTHER -> Absent]}

Registering ==
  {[pair |-> p, file |-> f, documents |-> ds, enable |-> en] :
     p \in Both,
     f \in {OldNew("a.tgz", "b.tgz"), OldNew("b.tgz", "c.tgz")},
     ds \in {{}, Document}, en \in {TRUE}}

OneManifest == {<<"source">>, <<"rootfs">>}
OneSetting == <<"default">>
TwoPolicies ==
  <<[name |-> "greedy", learned |-> FALSE],
    [name |-> "greedy", learned |-> TRUE]>>

SomeOutcomes ==
  {[errors |-> TRUE, valid |-> FALSE, completed |-> TRUE, better |-> FALSE],
   [errors |-> FALSE, valid |-> FALSE, completed |-> TRUE, better |-> TRUE],
   [errors |-> FALSE, valid |-> TRUE, completed |-> FALSE, better |-> FALSE],
   [errors |-> FALSE, valid |-> TRUE, completed |-> TRUE, better |-> FALSE],
   [errors |-> FALSE, valid |-> TRUE, completed |-> TRUE, better |-> TRUE]}

=============================================================================
