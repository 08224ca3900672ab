------------------------------ MODULE MCMatrix ------------------------------
(***************************************************************************)
(* Two scenarios, up to two cells an invocation, and requests that differ  *)
(* in every argument, one of them unknown.                                 *)
(***************************************************************************)
EXTENDS Matrix

Command(scenarios, policies, keep) ==
  [scenarios |-> scenarios, seeds |-> <<101>>, policies |-> policies, keep |-> keep]

Checked == <<"edf_rr", "fresh_nodefer">>

Commands ==
  {Command(<<"alarm">>, <<"fifo", "edf_rr">>, <<"all">>),
   Command(<<"tight", "alarm">>, <<"edf_rr">>, <<"tight">>),
   Command(<<"alarm">>, <<"newest">>, <<>>)}
=============================================================================
