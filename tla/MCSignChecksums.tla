-------------------------- MODULE MCSignChecksums --------------------------
(* Three sign configurations, one of them for nothing.                     *)
EXTENDS SignChecksums

CONSTANTS gpg, cosign, none

ThreeConfigs == {gpg, cosign, none}
JustNone == {none}
OneFile == <<"checksums.txt">>
=============================================================================
