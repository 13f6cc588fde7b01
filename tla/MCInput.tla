------------------------------ MODULE MCInput ------------------------------
(***************************************************************************)
(* Input with a few keys: what goes down and comes up is chosen so that    *)
(* the keys of a modifier differ and each way to treat a key is met.       *)
(***************************************************************************)
EXTENDS Input

MCKinds == {<<"letter", "down">>, <<"symbol", "down">>,
            <<"left_ctrl", "down">>, <<"right_ctrl", "up">>}
MCScans == {<<"0xE0", "down">>, <<"arrow", "down">>,
            <<"char", "down">>, <<"shift", "down">>}
OneKey == {<<"letter", "down">>}
NoScans == {}
=============================================================================
