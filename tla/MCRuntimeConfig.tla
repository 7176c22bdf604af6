--------------------------- MODULE MCRuntimeConfig ---------------------------
\* An instance of RuntimeConfig: the default model, another one without graph extraction, and
\* one of another provider.
EXTENDS RuntimeConfig

Entry(provider_, kind, model, graph) ==
    [provider |-> provider_, kind |-> kind, model |-> model, graph |-> graph]
Mini == Entry("openai", "synthesis", "gpt-4.1-mini", TRUE)
ThreeModels ==
    {Mini, Entry("openai", "synthesis", "gpt-4.1-nano", FALSE),
     Entry("bedrock", "synthesis", "claude-sonnet-4-5", FALSE)}
=============================================================================
