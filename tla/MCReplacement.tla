--------------------------- MODULE MCReplacement ----------------------------
(* Instance of Replacement for the variables of the environment.           *)
EXTENDS Replacement, ReplacementCases

Distinct == {r \in Environments : Len(r.env) = 2 => r.env[1][1] # r.env[2][1]}
EnvCases == Of(Distinct, EnvImages)
=============================================================================
