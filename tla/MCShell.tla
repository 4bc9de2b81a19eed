------------------------------ MODULE MCShell ------------------------------
(***************************************************************************)
(* Instance of Shell for TLC: lines with every kind of command.            *)
(***************************************************************************)
EXTENDS Shell

MCLines == {<<"src", "|", "copy", "|", "copy">>,
            <<"(", "src", ";", "copy", "<", "f", ")", "|", "copy">>,
            <<"src", "&", ";", "copy", ">", "f">>,
            <<"(", "src", "|", "copy", ")", "&">>,
            <<"src", "|", "missing">>,
            <<"src", "<", "absent">>,
            <<"copy", "<", "f", ">", "f">>,
            <<"src", "x", "x">>,
            <<"src", ")">>}
=============================================================================
