---------------------------- MODULE RateLimiter ----------------------------
(***************************************************************************)
(* The token buckets in front of the API (internal/middleware/ratelimit.go)*)
(* for one of the two stores: a bucket per address that fills with time up *)
(* to a cap, pays one token per request, and is dropped by the cleanup     *)
(* when nobody has used it for a while.  The mutex makes a request and a   *)
(* cleanup one step each.  lastSeen and updatedAt are always equal.        *)
(*                                                                         *)
(* Tokens are counted in fractions of which Unit make a token, so that the *)
(* code's float64 arithmetic is integer arithmetic here; Rates is what a   *)
(* second may add: one rate for enrollment, the setting of the moment for  *)
(* the rest of the API.                                                    *)
(***************************************************************************)
EXTENDS Integers

CONSTANTS Addrs, Unit, Cap, Rates, CleanupAge

VARIABLES now,      \* seconds
          known,    \* the addresses that have a bucket
          tokens,   \* what is in it
          seen,     \* and when it was used last
          since,    \* history: when somebody began to watch
          passed    \* history: requests let through since then

limiterVars == <<now, known, tokens, seen, since, passed>>

Full == Cap * Unit

LimiterTypeOK == /\ now \in Nat
          /\ known \subseteq Addrs
          /\ tokens \in [Addrs -> 0 .. Full]
          /\ seen \in [Addrs -> 0 .. now]
          /\ since \in 0 .. now
          /\ passed \in [Addrs -> Nat]

LimiterInit == /\ now = 0
        /\ known = {}
        /\ tokens = [a \in Addrs |-> 0]
        /\ seen = [a \in Addrs |-> 0]
        /\ since = 0
        /\ passed = [a \in Addrs |-> 0]

(* What the bucket holds after the refill of a request at this moment.     *)
Refilled(a, rate) ==
    LET filled == tokens[a] + (now - seen[a]) * rate
    IN  IF a \notin known \/ filled > Full THEN Full ELSE filled

(* A request is let through, or refused with 429.                          *)
Pass(a) == \E rate \in Rates :
    /\ Refilled(a, rate) >= Unit
    /\ known' = known \cup {a}
    /\ tokens' = [tokens EXCEPT ![a] = Refilled(a, rate) - Unit]
    /\ seen' = [seen EXCEPT ![a] = now]
    /\ passed' = [passed EXCEPT ![a] = @ + 1]
    /\ UNCHANGED <<now, since>>

Refuse(a) == \E rate \in Rates :
    /\ Refilled(a, rate) < Unit
    /\ known' = known \cup {a}
    /\ tokens' = [tokens EXCEPT ![a] = Refilled(a, rate)]
    /\ seen' = [seen EXCEPT ![a] = now]
    /\ UNCHANGED <<now, since, passed>>

(* cleanupLoop, at any moment: its ticker only makes it rarer.             *)
Cleanup == /\ known' = {a \in known : now - seen[a] <= CleanupAge}
           /\ UNCHANGED <<now, tokens, seen, since, passed>>

Tick == /\ now' = now + 1
        /\ UNCHANGED <<known, tokens, seen, since, passed>>

(* History: somebody begins to watch, at any moment.                       *)
Watch == /\ since' = now
         /\ passed' = [a \in Addrs |-> 0]
         /\ UNCHANGED <<now, known, tokens, seen>>

LimiterNext == \/ \E a \in Addrs : Pass(a) \/ Refuse(a)
        \/ Cleanup \/ Tick \/ Watch

LimiterSpec == LimiterInit /\ [][LimiterNext]_limiterVars

-----------------------------------------------------------------------------
(* However requests, refills, changes of the setting and the cleanup       *)
(* interleave, no address gets more requests through in a stretch of time  *)
(* than a full bucket and what the highest rate adds in it.                *)
WithinRate(max) == \A a \in Addrs : passed[a] * Unit <= Full + (now - since) * max
=============================================================================
