\* Two requests of equal priority, each of which fits the pool alone.  No cancels
\* and no errors, which would end requests by themselves.
CONSTANTS
  Request = {1, 2}
  Block = {b1, b2, b3, b4, b5}
  block_size = 2
  max_num_seqs = 2
  max_prefill_tokens = 4
  prefill_chunk_size = 2
  PromptLen = {8}
  MaxTokens = {2}
  Priority = {0}
  CancelAllowed = FALSE
  MaxFailures = 0
SPECIFICATION MCFairSpec
PROPERTY EveryRequestEnds
CHECK_DEADLOCK FALSE
