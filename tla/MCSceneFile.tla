---------------------------- MODULE MCSceneFile -----------------------------
(* Meshes, lights and gears with properties of every kind, two objects at    *)
(* most; files in which any one value, entry or field is wrong.             *)
EXTENDS SceneFile

MCClasses == {"mesh", "light", "gear"}

MCId == Property("object_id", "uint", TRUE, Unlimited)

MCPropertiesOf ==
    [mesh |-> <<MCId, Property("name", "text", FALSE, Unlimited),
                Property("path", "path", FALSE, Unlimited),
                Property("materials", "list", FALSE, Unlimited)>>,
     light |-> <<MCId, Property("visible", "flag", FALSE, Unlimited),
                 Property("brightness", "float", FALSE, RangeOf(0, 2, FALSE)),
                 Property("color", "vec", FALSE, Unlimited)>>,
     gear |-> <<MCId, Property("teeth", "int", FALSE, RangeOf(1, 2, TRUE)),
                Property("transform", "mat", FALSE, Unlimited)>>]

MCDefault ==
    [mesh |-> [object_id |-> Num(0), name |-> Str(""), path |-> Str("m"),
               materials |-> Arr(<<Str("m")>>)],
     light |-> [object_id |-> Num(0), visible |-> <<"bool", TRUE>>, brightness |-> Num(1),
                color |-> Nums(<<1, 0>>)],
     gear |-> [object_id |-> Num(0), teeth |-> Num(1),
               transform |-> Arr(<<Nums(<<1, 0>>), Nums(<<0, 1>>)>>)]]

\* The texts the model has, with what is left of them when they are cut to two
\* bytes.  The oe of "moe" is one character of two bytes.
MCTexts ==
    {"", "m", "moe", "none", "mesh", "light", "gear", "Animation", "name", "path",
     "materials", "visible", "brightness", "color", "teeth", "transform", "class",
     "object_id", "spin_animation", "angular_speed", "phase_offset",
     "translation", "time", "paused", "objects", "spin_animations", "systems",
     "An", "an", "br", "cl", "co", "ge", "li", "ma", "me", "na", "no", "ob", "pa", "ph",
     "sp", "sy", "te", "ti", "tr", "vi"}

\* Half of the second character of "moe" is not UTF-8.
MCByteStrings == MCTexts \union {"mo"}

MCLengthOf == [t \in MCByteStrings |-> Len(t)]

MCCut == [t \in MCByteStrings |-> IF Len(t) <= MaxLength THEN t ELSE SubSeq(t, 1, MaxLength)]

MCSystems == {"Animation"}

MCInputs == [numbers |-> {3}, texts |-> {"moe"}]

MCJunk == {Num(-1), Num(9), Str("none"), Arr(<<>>)}

RECURSIVE MCEdits(_)
\* Any value replaced by junk, an entry taken out or put in twice, or an entry
\* edited.
MCEdits(v) ==
    MCJunk \union
    IF Type(v) \notin {"arr", "obj"} THEN {}
    ELSE UNION {
        {<<v[1], RemoveAt(v[2], i)>>, <<v[1], InsertAt(v[2], i, v[2][i])>>}
        \union {<<v[1], [v[2] EXCEPT ![i] = IF v[1] = "arr" THEN edit ELSE <<@[1], edit>>]>> :
                   edit \in MCEdits(IF v[1] = "arr" THEN v[2][i] ELSE v[2][i][2])}
        : i \in DOMAIN v[2]}

MCSpins == {[speed |-> 1, phase |-> 0, translation |-> <<0>>]}
=============================================================================
