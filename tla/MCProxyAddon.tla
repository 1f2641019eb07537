---------------------------- MODULE MCProxyAddon ----------------------------
(* Small instances of ProxyAddon for TLC. *)
EXTENDS ProxyAddon, TLC

CONSTANTS ask, image

Plain(family) == [family |-> family, local |-> FALSE, stream |-> FALSE,
                  header |-> "none", json |-> TRUE, prompt |-> ask]

MCPrompts == {ask, image}

\* Traffic of every kind, a prompt repeated among it.
AllRequests == {
    Plain("openai"),
    Plain("unknown"),
    [Plain("openai") EXCEPT !.stream = TRUE],
    [Plain("openai") EXCEPT !.header = "baseline"],
    [Plain("openai") EXCEPT !.header = "optimized", !.prompt = image],
    [Plain("openai") EXCEPT !.json = FALSE],
    [Plain("anthropic") EXCEPT !.local = TRUE]}

\* Traffic of host-local engines.
LocalRequests == {
    [Plain("gemini") EXCEPT !.local = TRUE],
    [Plain("gemini") EXCEPT !.local = TRUE, !.stream = TRUE],
    [Plain("anthropic") EXCEPT !.local = TRUE]}

\* One prompt asked of one local engine by a Gemini and by an OpenAI client.
MixedRequests == {[Plain("gemini") EXCEPT !.local = TRUE], [Plain("openai") EXCEPT !.local = TRUE]}

\* One prompt for a cloud provider.
CloudRequests == {Plain("openai")}

Symmetry == Permutations(Flows) \cup Permutations(Dirs)
=============================================================================
