---------------------------- MODULE MCLibraries ----------------------------
(***************************************************************************)
(* The instance of Pricing and RateLimiter for TLC.  The two packages      *)
(* share nothing, so each is explored while the other is at its start (the *)
(* registry while the limiter is switched off).                            *)
(***************************************************************************)
EXTENDS Pricing, RateLimiter

\* With 16 bits: the highest price whose estimate fits, the first that does not, and
\* a fee alone.
MCPrices == {[input |-> 163, output |-> 163, fee |-> 0],
             [input |-> 164, output |-> 164, fee |-> 0],
             [input |-> 0, output |-> 0, fee |-> 7]}

\* A rate that fills a bucket within idleTTL and one that does not, a burst of less
\* than a token, and a limiter that is switched off.
MCRateLimits == {[rate |-> 2, burst |-> 7], [rate |-> 1, burst |-> 7],
                 [rate |-> 1, burst |-> 2], [rate |-> 0, burst |-> 7]}

MCInit == Init /\ LimiterInit

MCNext ==
    \/ ~Enabled /\ LimiterInit /\ Next /\ UNCHANGED limiterVars
    \/ Init /\ LimiterNext /\ UNCHANGED vars

MCSpec == MCInit /\ [][MCNext]_<<vars, limiterVars>>
=============================================================================
