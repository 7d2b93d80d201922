---------------------------- MODULE MCModelRouter ----------------------------
(* Two agents are alike, and so are two models with a provider each.         *)
EXTENDS ModelRouter, TLC
CONSTANTS a, b, m1, m3, p, q
MCProviderOf == (m1 :> p) @@ (m3 :> q)
SwapAgents == (a :> b) @@ (b :> a)
SwapModels == (m1 :> m3) @@ (m3 :> m1) @@ (p :> q) @@ (q :> p)
Symmetry == {SwapAgents, SwapModels, SwapAgents @@ SwapModels}
=============================================================================
