--------------------------- MODULE MCProxyHandler ---------------------------
(* Small instances of ProxyHandler for TLC. *)
EXTENDS ProxyHandler, TLC

CONSTANTS r1, r2, m1, m2, m3, m4, p1, p2

\* m1 and m2 are one model offered by two providers; m4 has no key.
MCNameOf == (m1 :> "gpt" @@ m2 :> "gpt" @@ m3 :> "claude" @@ m4 :> "claude")
MCProviderOf == (m1 :> "openai" @@ m2 :> "openrouter" @@ m3 :> "anthropic" @@ m4 :> "custom")

\* Chains of every length up to one more than the attempts allowed, with an
\* unconfigured model in each place and a model listed twice.
LongChains == {<<m1>>, <<m4>>, <<m1, m3>>, <<m4, m1>>, <<m1, m4, m3>>,
               <<m1, m3, m3>>, <<m4, m4, m4, m1>>, <<m1, m2, m3, m1>>}
\* For two requests: a fallback that answers under another name than the first
\* model's, and a chain that looks that name up.
PairChains == {<<m1, m3>>, <<m3>>}
\* Two prompts that a hit may confuse, or not.
Close == [p \in Prompts |-> [q \in Prompts |-> IF p = q THEN 0 ELSE 1]]
Sym == Permutations({r1, r2}) \cup Permutations({p1, p2})
=============================================================================
