---------------------------- MODULE MCConnection ----------------------------
(* Commands that are answered, refused or panic, a long pipeline, and       *)
(* invalid frames before, between and behind commands.                      *)
EXTENDS Connection

Commands    == [1 .. 3 -> {"ok", "error", "panic"}]
Pipeline    == [1 .. 6 -> {"ok"}]
WithInvalid == {<<"ok", "invalid", "ok">>, <<"invalid", "error", "invalid">>,
                <<"ok", "panic", "invalid">>}
AllScripts  == Commands \cup Pipeline \cup WithInvalid
=============================================================================
