----------------------------- MODULE MCPolicyGate -----------------------------
(***************************************************************************)
(* Small instances of PolicyGate: the edit of a path, that of a secret, a  *)
(* chained command, a command of one word, and a call with no subject.     *)
(***************************************************************************)
EXTENDS PolicyGate, TLC

CONSTANTS edit, secret, chain, word, bare, src, env, sh

\* src(**) matches the edit and the secret, env the secret, bash(prog *) the chained
\* command but not the one of one word.
RuleCovers ==
  (src :> Call \cap {edit, secret}) @@ (env :> Call \cap {secret}) @@ (sh :> Call \cap {chain})

\* The path's directory, the command's program, nothing for an empty subject.
AlwaysRules ==
  [c \in Call |-> CASE c \in {edit, secret} -> src
                    [] c \in {chain, word}  -> sh
                    [] OTHER                -> NoRule]
ChainedCalls == Call \cap {chain}

Shipped == [deny |-> {}, allow |-> {}]
Customised == [deny |-> {env}, allow |-> {}]
\* A notebook that allows what the machine denies.
Loosened == [deny |-> {}, allow |-> {env}]
NotebookPolicies == {Loosened}

==============================================================================
