------------------------------ MODULE MCRetryLoop ------------------------------
(***************************************************************************)
(* Small numbers for RetryLoop: durations of five bits with their sign and *)
(* floats below 64, so that retries reach every kind of overflow.          *)
(***************************************************************************)
EXTENDS RetryLoop

MCPolicies ==
  { p \in [ maxRetries : {0, 1, 2, 5}, initialDelay : {0, 1, 3}, maxDelay : {0, 6, 15},
            multiplier : {1, 2, 3}, jitter : BOOLEAN ] : Valid(p) }

===============================================================================
