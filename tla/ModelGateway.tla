----------------------------- MODULE ModelGateway -----------------------------
(***************************************************************************)
(* The token budget of gateway/server.py: what _handle_budgeted_forward    *)
(* does with a chat completion on its way to the model.  The handler keeps *)
(* nothing between two requests; the module is a module of operators.      *)
(***************************************************************************)
EXTENDS Integers

CONSTANTS
    ModelLimit,         \* model_limit: the model's context window
    TargetInputLimit,   \* target_input_limit
    SafetyBuffer,       \* safety_buffer
    DefaultMaxOutput,   \* default_max_output
    MinAvailableOutput, \* min_available_output
    Prompts             \* prompts, as they come out of the role's prompt proxy

\* The tokens the model makes of a prompt, and _rough_token_estimate of it; a
\* skill's prompt has no tools, so _schema_overhead_tokens adds nothing.
Prompt == [tokens : Nat, rough : Nat]

\* main takes any integers; these are the ones the budget is meant for.
ASSUME GatewayAssumption ==
    /\ ModelLimit \in Nat
    /\ TargetInputLimit \in Nat
    /\ SafetyBuffer \in Nat
    /\ DefaultMaxOutput \in Nat \ {0}
    /\ MinAvailableOutput \in Nat \ {0}
    /\ Prompts \subseteq Prompt

Smaller(m, n) == IF m <= n THEN m ELSE n
Larger(m, n) == IF m >= n THEN m ELSE n

\* count_input_tokens: the tokenizer's count, or the estimate if the tokenizer
\* has not answered.
InputTokens(prompt, tokenized) ==
    Larger(1, IF tokenized THEN prompt.tokens ELSE prompt.rough)

AvailableOutput(input) == ModelLimit - input - SafetyBuffer

\* Neither input_budget_exceeded nor insufficient_output_budget.
Forwards(input) ==
    /\ input <= TargetInputLimit
    /\ AvailableOutput(input) >= MinAvailableOutput

\* Mutant: the client's limit goes through as it is.
OutputLimitAsked(input, requested) ==
    Smaller(DefaultMaxOutput, IF requested > 0 THEN requested ELSE DefaultMaxOutput)

\* The output limit written into the request; requested is what the client
\* asked for, 0 when it asked for nothing that is a positive integer.
OutputLimit(input, requested) ==
    Smaller(DefaultMaxOutput,
            Smaller(AvailableOutput(input),
                    IF requested > 0 THEN requested ELSE DefaultMaxOutput))

=============================================================================
