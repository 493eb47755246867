\* Two runs, two requests: writes overlap and fail, and questions are put back.
\* Or a session: two questions, two hooks at a time, one answer.
SPECIFICATION QuestionsSpec
CONSTANTS
  edit = edit  secret = secret  chain = chain  word = word  bare = bare
  src = src  env = env  sh = sh
  Run = {r1, r2}
  Handler = {h1, h2}
  Call = {edit, secret, chain, bare}
  Rule = {src, env, sh}
  NoRule = NoRule
  Garbled = Garbled
  Covers <- RuleCovers
  Chained <- ChainedCalls
  Proposed <- AlwaysRules
  Defaults <- Shipped
  OnDisk <- Customised
  Own <- NotebookPolicies
  MaxCalls = 1
  Notifier = {n1, n2}
  Clicker = {a1}
  Key = {"first", "second"}
  MaxAsked = 2
  MaxPosts = 2
INVARIANTS DeniedNeverRuns AlwaysIsNotAskedAgain AnswersStand OpenIsAsked
INVARIANT PendingIsVisible
PROPERTIES AsksResolve BannerGoes
\* Runs, requests, questions and hooks are bounded.
CHECK_DEADLOCK FALSE
