---------------------------- MODULE MCRateLimiter ----------------------------
(* Two callers, three units to a token, two ticks to a second. *)
EXTENDS RateLimiter

MCCaller == {"c1", "c2"}

\* Unlimited; 2/3 of a token per second (the burst is raised to one token); and
\* 4/3, where the burst is not a whole number of tokens and the retry delay is
\* truncated.
MCRates == {0, 1, 2}
==============================================================================
