------------------------------ MODULE MCDriver ------------------------------
(***************************************************************************)
(* benchmark.mpc for model checking: every circuit the README lists, and   *)
(* arguments that are too few, not a number, or compile.py's own.          *)
(***************************************************************************)
EXTENDS Driver

MCNumerals == {"1", "16"}

MCCommandLines ==
       {<<"benchmark", name, "1", "16">> : name \in DOMAIN Circuit}
  \cup {<<"benchmark", name, "1", "16">> : name \in {"jolteon_forkaes64", "espeon_forkaes64"}}
  \cup {<<"-F", "128", "benchmark", "aes_gcm64", "1", "16">>,
        <<"benchmark", "aes_gcm64", "1">>, <<"benchmark", "aes_gcm64">>,
        <<"benchmark", "aes_gcm64", "one", "16">>, <<"benchmark", "aes_gcm64", "1", "long">>,
        <<"aes_gcm64", "1", "16">>}
=============================================================================
