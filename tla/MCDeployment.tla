---------------------------- MODULE MCDeployment ----------------------------
(***************************************************************************)
(* A TLC instance of Deployment: one treasure kind of the four, which      *)
(* differ in their names only.                                             *)
(***************************************************************************)
EXTENDS Deployment

OneKind == <<[producer |-> "OIL_PRODUCER", data |-> "OIL_DATA"]>>

\* deploy:base:ethereum, deploy:bid:* and deploy:wunit-wtcash:ethereum of
\* package.json.
FullPlan == <<"base", "producers", "tcash", "ustn", "crosschain", "tokenlocker", "wunit_wtcash">>
OtherTargets == {<<"bid">>, <<"crosschain">>}
=============================================================================
