\* Three requests on a pool of six tokens: preemption in both queues, chunked
\* recompute, admission refusals (5 + 2 tokens), cancels at every point between
\* steps, and one model error.
CONSTANTS
  Request = {1, 2, 3}
  Block = {b1, b2, b3}
  block_size = 2
  max_num_seqs = 2
  max_prefill_tokens = 3
  prefill_chunk_size = 2
  PromptLen = {2, 3, 5}
  MaxTokens = {2}
  Priority = {0, 2}
  CancelAllowed = TRUE
  MaxFailures = 1
SPECIFICATION MCFairSpec
INVARIANTS
  BlocksSafe
  BatchRunnable
  QueueDiscipline
  UsageMatchesStream
  PromptFedOnce
PROPERTIES
  ImplementsPool
  PromotionInOrder
  ImplementsGeneration
  EndsUnlessPreempted
CHECK_DEADLOCK FALSE
