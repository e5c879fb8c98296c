----------------------------- MODULE MCAmxHost -----------------------------
(***************************************************************************)
(* Scripts and modules for model-checking AmxHost.                         *)
(***************************************************************************)
EXTENDS AmxHost

\* amx_Init loads the modules a script names; main() adds the console.
Order == <<"time", "dgram", "cons">>

Scripts == {{"@timer", "@keypressed"}, {"@receivepacket", "@timer"},
            {"@receivestring", "@keypressed"}, {"@receivestring", "@receivepacket"}}
=============================================================================
