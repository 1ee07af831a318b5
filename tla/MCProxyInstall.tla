--------------------------- MODULE MCProxyInstall ---------------------------
(***************************************************************************)
(* Small instances of ProxyInstall: three releases, of which the newest    *)
(* refuses the configuration of the oldest, which an install of it or a    *)
(* change of the toml may meet before, between and after its two checks.   *)
(***************************************************************************)
EXTENDS ProxyInstall

CONSTANTS a, v1, v2, v3

One == {a}
Releases == {v1, v2, v3}
MCCompatible == (Releases \X Releases) \ {<<v3, v1>>}

AllFaults == FaultKinds
=============================================================================
