------------------------------ MODULE MCDesktop ------------------------------
(* Two themes with a colour, one without, one that is not staged; panel    *)
(* lists with and without the default; two windows; a value that binds one *)
(* key and one that binds it to two actions.                               *)
EXTENDS Desktop

MCIdLists == {{}, {"default"}, {"top"}, {"default", "top"}}
MCParked  == -3
MCBindings == {{<<"launcher", "Meta+Space">>},
               {<<"launcher", "Meta+Space">>, <<"dismiss", "Meta+Space">>}}
=============================================================================
