--------------------------- MODULE MCClassRegistry ---------------------------
(* A program with a hierarchy of two levels, a plug-in that adds a third level *)
(* and a class of the name of another, and the entries the tests queue: two    *)
(* classes of another hierarchy whose resolvers form a circle, of which one    *)
(* shares its name with a class of the program, and an entry without storage.  *)
EXTENDS ClassRegistry

MCClasses == {"object", "mesh", "gear", "mesh2", "loopA", "loopB", "stub"}

MCLibrary == [c \in MCClasses |->
    CASE c \in {"object", "mesh"} -> "program"
      [] c \in {"gear", "mesh2"} -> "plugin"
      [] OTHER -> "test"]

MCModule == [c \in MCClasses |-> IF c = "gear" THEN "gears" ELSE "swr"]

MCName == [object |-> 1, mesh |-> 2, gear |-> 3, mesh2 |-> 2,
           loopA |-> 2, loopB |-> 4, stub |-> 5]

MCHierarchy == [c \in MCClasses |-> IF MCLibrary[c] = "test" THEN "tests" ELSE "object"]

MCSuper == [object |-> "none", mesh |-> "object", gear |-> "mesh", mesh2 |-> "object",
            loopA |-> "loopB", loopB |-> "loopA", stub |-> "none"]

MCDeclared == [object |-> <<"id">>, mesh |-> <<"lod", "shape">>, gear |-> <<"teeth">>,
               mesh2 |-> <<>>, loopA |-> <<"loop">>, loopB |-> <<>>, stub |-> <<>>]

MCBroken == {"stub"}
=============================================================================
