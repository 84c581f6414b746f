---------------------------- MODULE MCParamText ----------------------------
(* Instances of ParamText for TLC. *)
EXTENDS ParamText

Node(parent, name) == [parent |-> parent, name |-> name]
Leaf(group, name, type, labels, late) ==
  [group |-> group, name |-> name, type |-> type, labels |-> labels, late |-> late]

\* Full names that differ only in what is escaped: a/b and a^/b; ^^ and ^.
Old ==
  [groups |-> <<Node(0, <<"a">>), Node(1, <<"^">>)>>,
   params |-> <<Leaf(0, <<"a", "/", "b">>, "float", <<>>, FALSE),
                Leaf(1, <<"b">>, "enum", <<"x", "y">>, FALSE),
                Leaf(2, <<"/", "^">>, "boolean", <<>>, TRUE)>>]

\* The labels have moved, one is new, one number has another type and the other
\* has become an enum.
New ==
  [groups |-> <<Node(0, <<"c">>), Node(0, <<"a">>), Node(2, <<"^">>)>>,
   params |-> <<Leaf(2, <<"b">>, "enum", <<"z", "x">>, FALSE),
                Leaf(3, <<"/", "^">>, "int", <<>>, FALSE),
                Leaf(0, <<"a", "/", "b">>, "enum", <<"x">>, FALSE)>>]

Versions == {Old, New}

Unreadable == {Text("b", "", 7)}

(* Versions for the disagreements. *)

\* A group and an unnamed parameter in it, next to a parameter of its name.
Unnamed ==
  {[groups |-> <<Node(0, <<"a">>)>>,
    params |-> <<Leaf(1, <<>>, "boolean", <<>>, FALSE),
                 Leaf(0, <<"a">>, "boolean", <<>>, FALSE)>>]}

\* Two groups of one name.
Twins ==
  {[groups |-> <<Node(0, <<"a">>), Node(0, <<"a">>)>>,
    params |-> <<Leaf(1, <<"b">>, "boolean", <<>>, FALSE),
                 Leaf(2, <<"c">>, "boolean", <<>>, FALSE)>>]}

\* The versions of the run are such that restoring works, these are not.
ASSUME AgreementAssumption ==
  VersionsAgree <=> Layouts \notin {Unnamed, Twins}
=============================================================================
