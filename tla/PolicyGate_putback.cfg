\* "Always" on the edit of a file; the permissions file cannot be written.
SPECIFICATION FairSpec
CONSTANTS
  edit = edit  secret = secret  chain = chain  word = word  bare = bare
  src = src  env = env  sh = sh
  Run = {r1}
  Handler = {h1}
  Call = {edit}
  Rule = {src, env, sh}
  NoRule = NoRule
  Garbled = Garbled
  Covers <- RuleCovers
  Chained <- ChainedCalls
  Proposed <- AlwaysRules
  Defaults <- Shipped
  OnDisk <- Customised
  Own <- NotebookPolicies
  MaxCalls = 1
PROPERTY InterruptedAskResolves
\* Runs and requests are bounded.
CHECK_DEADLOCK FALSE
