---------------------------- MODULE MCPipeline ----------------------------
(***************************************************************************)
(* Small instances of Pipeline.                                            *)
(***************************************************************************)
EXTENDS Pipeline, TLC

CONSTANTS r1, r2, p1

\* A conversation, and one long enough to be truncated, up to a tool result.
MCTalk == <<"text">>

MCToolLoop == <<"text", "use", "result", "use", "result">>

\* By the environment's upstream to its project; by header; by model id; too large.
MCInputs ==
  {[header |-> None, model |-> "claude", project |-> NoProject, bypass |-> FALSE,
    size |-> "huge", body |-> MCToolLoop, usage |-> "clear"],
   [header |-> "anthropic", model |-> "claude", project |-> p1, bypass |-> FALSE,
    size |-> "capturable", body |-> MCTalk, usage |-> None],
   [header |-> None, model |-> "bedrock", project |-> p1, bypass |-> FALSE,
    size |-> "small", body |-> MCTalk, usage |-> "warn"],
   [header |-> None, model |-> "claude", project |-> p1, bypass |-> FALSE,
    size |-> "oversized", body |-> MCToolLoop, usage |-> None]}

Symmetry == Permutations(Clients)

\* The extractor comes back to a daemon of one project, to one of none, to one
\* without an upstream to send it to, or goes to the provider.
MCEnvironments ==
  {[upstream |-> None, project |-> p1, loopback |-> TRUE,
    features |-> {"inject"}],
   [upstream |-> "bedrock", project |-> NoProject, loopback |-> TRUE,
    features |-> {"inject", "keepalive"}],
   [upstream |-> "invalid", project |-> NoProject, loopback |-> TRUE,
    features |-> {"keepalive"}],
   [upstream |-> "anthropic", project |-> p1, loopback |-> FALSE,
    features |-> {"inject", "drift", "keepalive"}]}

=============================================================================
