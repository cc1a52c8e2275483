------------------------------- MODULE MCSession -------------------------------
(* Small instances of Session and SessionPaths for TLC. *)
EXTENDS SessionPaths

CONSTANTS PATH, x, v1, v2, f, img

MCNames == {PATH, x}
MCVals == {v1, v2}
MCInitEnv == [n \in MCNames |-> IF n = PATH THEN v1 ELSE NoVal]
MCFuncs == {f, Cd}
MCImage == {img}
MCNone == {}

(* Three directories with their real paths, one of them with a name that begins with two dots, *)
(* the directory above the root, and a name that begins with the root's own.                     *)
MCRoot   == <<"tmp", "sandbox">>
MCHome   == MCRoot \o <<"home">>
MCDotted == MCRoot \o <<"..work">>
MCOutside == {<<"tmp">>}
MCPlaces == {MCRoot, MCHome, MCDotted} \cup MCOutside
MCBuilt  == {MCHome}
MCDottedNames == {"..work"}
MCSiblings == {"sandbox2"}
MCOnHost == {<<"tmp">>, <<"home">>}
MCUserNames ==
    [abs : BOOLEAN,
     names : {<<"f">>, <<"tmp">>, <<"home">>, <<"home", "f">>, <<"tmp", "..", "home">>, <<"..", "f">>,
              <<"..", "..", "f">>, <<"..work", "f">>}]
        \cup [abs : {TRUE}, names : {MCRoot \o <<"f">>, MCRoot \o <<"home", "..", "f">>, MCRoot \o <<"..", "f">>,
                                     <<"tmp", "sandbox2", "f">>, <<"tmp", "sandbox2", "..", "sandbox", "f">>}]

=============================================================================
