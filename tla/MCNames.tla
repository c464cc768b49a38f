-------------------------------- MODULE MCNames --------------------------------
(* An instance of Names for TLC: two letters, one of them the suffix's, and  *)
(* names that are longer than the limit.                                     *)
EXTENDS Names

MCSuffix == <<"h", "h">>
MCFallback == <<"x", "x">>
MCProjectPrefix == <<"x">>
=============================================================================
