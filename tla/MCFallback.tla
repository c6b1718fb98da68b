------------------------------ MODULE MCFallback ------------------------------
(* FallbackChain with a chain of two providers. *)
EXTENDS FallbackChain

TwoProviders == <<"groq", "openai">>
=============================================================================
