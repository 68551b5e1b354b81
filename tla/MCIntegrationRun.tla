-------------------------- MODULE MCIntegrationRun --------------------------
(***************************************************************************)
(* One event as built, one with a revalued field, one damaged; an id left  *)
(* over from an earlier level in two records.                              *)
(***************************************************************************)
EXTENDS IntegrationRun, TLC

CONSTANTS a, b, x, z

SomeDamage ==
    a :> <<"none", "">> @@ b :> <<"revalue", "amount">>
      @@ x :> <<"stringify", "amount">> @@ z :> <<"none", "">>

SomeBacklog == {<<z, z>>}
=============================================================================
