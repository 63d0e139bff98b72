---------------------------- MODULE PartsProofs -----------------------------
(***************************************************************************)
(* The smaller parts: what every job queue inherits from the abstract one, *)
(* the rate limiter, whose clock and counters never end, and one scan,     *)
(* whose answers are any maps, which are proved rather than run; the       *)
(* rescan scheduler, the pWhois worker, the enrichments, and export and    *)
(* import, which are also run on small instances.                          *)
(***************************************************************************)
EXTENDS JobQueue, RateLimiter, Scanner, Scheduler, Pwhois, Enrichment, Transfer, FiniteSetTheorems, TLAPS

-----------------------------------------------------------------------------
(***************************************************************************)
(* The abstract job queue, for every set of rows.                          *)
(***************************************************************************)
(* The inductive invariant: only finitely many rows are ever owned, within *)
(* the bound, and an owned row has left "pending" for good.                *)
QInv == /\ TypeOK
        /\ IsFiniteSet(owned)
        /\ BoundedOwners
        /\ OwnedRowsClaimed

(* The number of rows a worker is configured to own at once.               *)
Configured == MaxConcurrency \in Nat \ {0}

(* Giving rows up keeps the owners few.                                    *)
LEMMA FewerOwners ==
    ASSUME Configured, QInv, NEW S, S \subseteq owned
    PROVE  IsFiniteSet(S) /\ Cardinality(S) <= MaxConcurrency
<1>1. /\ IsFiniteSet(S) /\ Cardinality(S) \in Nat /\ Cardinality(owned) \in Nat
      /\ Cardinality(S) <= Cardinality(owned)
  BY FS_Subset, FS_CardinalityType DEF QInv
<1> QED BY <1>1 DEF QInv, BoundedOwners, Configured

(* Every step keeps the invariant.                                         *)
LEMMA NextQInv == ASSUME Configured PROVE QInv /\ [Next]_vars => QInv'
<1> SUFFICES ASSUME QInv, [Next]_vars PROVE QInv'
  OBVIOUS
<1> USE DEF QInv, Exists
<1>1. TypeOK'
  <2>1. CASE UNCHANGED vars
    BY <2>1 DEF vars, TypeOK
  <2>2. ASSUME NEW j \in Jobs, Submit(j) \/ Claim(j) \/ Cancel(j) \/ Finish(j) PROVE TypeOK'
    BY <2>2 DEF Submit, Claim, Cancel, Finish, TypeOK, Status
  <2>3. CASE Abandon \/ Recover
    BY <2>3 DEF Abandon, Recover, TypeOK, Status
  <2>4. ASSUME NEW S \in SUBSET Jobs, Purge(S) PROVE TypeOK'
    BY <2>4 DEF Purge, TypeOK, Status
  <2> QED BY <2>1, <2>2, <2>3, <2>4 DEF Next
<1>2. OwnedRowsClaimed'
  <2>1. CASE UNCHANGED vars
    BY <2>1 DEF vars, OwnedRowsClaimed
  <2>2. ASSUME NEW j \in Jobs, Submit(j) \/ Claim(j) \/ Cancel(j) \/ Finish(j)
        PROVE  OwnedRowsClaimed'
    BY <2>2 DEF Submit, Claim, Cancel, Finish, TypeOK, OwnedRowsClaimed
  <2>3. CASE Abandon \/ Recover
    BY <2>3 DEF Abandon, Recover, TypeOK, OwnedRowsClaimed
  <2>4. ASSUME NEW S \in SUBSET Jobs, Purge(S) PROVE OwnedRowsClaimed'
    BY <2>4 DEF Purge, TypeOK, OwnedRowsClaimed
  <2> QED BY <2>1, <2>2, <2>3, <2>4 DEF Next
<1>3. IsFiniteSet(owned') /\ Cardinality(owned') <= MaxConcurrency
  <2>1. CASE owned' \subseteq owned
    BY <2>1, FewerOwners
  <2>2. ASSUME NEW j \in Jobs, Cardinality(owned) < MaxConcurrency, owned' = owned \cup {j}
        PROVE  IsFiniteSet(owned') /\ Cardinality(owned') <= MaxConcurrency
    BY <2>2, FS_AddElement, FS_CardinalityType DEF Configured
  <2>3. \/ owned' \subseteq owned
        \/ \E j \in Jobs : Cardinality(owned) < MaxConcurrency /\ owned' = owned \cup {j}
    BY DEF Next, vars, Submit, Claim, Cancel, Finish, Abandon, Recover, Purge
  <2> QED BY <2>1, <2>2, <2>3
<1> QED BY <1>1, <1>2, <1>3 DEF BoundedOwners

(* The abstract queue keeps its types, its bound and its ownership.        *)
THEOREM QueueInvariant ==
    ASSUME Configured PROVE Spec => [](TypeOK /\ BoundedOwners /\ OwnedRowsClaimed)
<1>1. Init => QInv
  BY FS_EmptySet
  DEF Configured, Init, QInv, TypeOK, Status, BoundedOwners, OwnedRowsClaimed
<1> QED BY <1>1, NextQInv, PTL DEF Spec, QInv

(* A finished row changes only by its owner or a DELETE, and a deleted one *)
(* stays deleted: what every implementation of the queue inherits.         *)
THEOREM QueueRowsStable == ASSUME Configured PROVE Spec => FinishedRowsStable
<1> DEFINE Kept == \A j \in Jobs :
                     /\ status[j] = "deleted" => status'[j] = "deleted"
                     /\ status[j] \in {"completed", "failed"} /\ j \notin owned
                          => status'[j] \in {status[j], "deleted"}
<1>1. TypeOK /\ [Next]_vars => [Kept]_vars
  <2> SUFFICES ASSUME TypeOK, Next PROVE Kept
    OBVIOUS
  <2>1. ASSUME NEW j \in Jobs, Submit(j) \/ Claim(j) \/ Cancel(j) \/ Finish(j) PROVE Kept
    BY <2>1 DEF Submit, Claim, Cancel, Finish, Exists, TypeOK
  <2>2. CASE Abandon \/ Recover
    BY <2>2 DEF Abandon, Recover, TypeOK
  <2>3. ASSUME NEW S \in SUBSET Jobs, Purge(S) PROVE Kept
    BY <2>3 DEF Purge, Exists, TypeOK
  <2> QED BY <2>1, <2>2, <2>3 DEF Next
<1> QED BY <1>1, QueueInvariant, PTL DEF Spec, FinishedRowsStable

-----------------------------------------------------------------------------
(***************************************************************************)
(* The rate limiter keeps its promise if an unused bucket is full by the   *)
(* time the cleanup drops it.                                              *)
(***************************************************************************)
(* The constants the theorems are about: a cap and a unit, the rates that  *)
(* occur with the largest of them, and a cleanup no earlier than a refill. *)
Sensible(max) ==
    /\ Unit \in Nat \ {0} /\ Cap \in Nat \ {0}
    /\ Rates \subseteq Nat
    /\ CleanupAge \in Nat
    /\ max \in Nat /\ \A r \in Rates : r <= max
    /\ CleanupAge * max >= Full

(* What an address has used and what its bucket holds came out of a full   *)
(* bucket and the refills since; a bucket that is gone would be full.      *)
Account(max) ==
    \A a \in Addrs :
        IF a \in known
        THEN \/ passed[a] = 0 /\ seen[a] < since
             \/ /\ seen[a] >= since
                /\ passed[a] * Unit + tokens[a] <= Full + (seen[a] - since) * max
        ELSE passed[a] * Unit <= (now - since) * max

LimiterInv(max) == LimiterTypeOK /\ Account(max)

LEMMA FullNat == ASSUME NEW max, Sensible(max) PROVE Full \in Nat /\ Unit <= Full
  BY DEF Sensible, Full

(* A product grows with its factors.                                       *)
LEMMA Monotone ==
    ASSUME NEW x \in Nat, NEW y \in Nat, NEW m \in Nat, NEW r \in Nat, x <= y, r <= m
    PROVE  x * r <= y * m
<1>1. x * r <= x * m
  OBVIOUS
<1>2. x * m <= y * m
  OBVIOUS
<1> QED
  BY <1>1, <1>2

LEMMA LimiterStart == ASSUME NEW CONSTANT max, Sensible(max) PROVE LimiterInit => LimiterInv(max)
<1> HAVE LimiterInit
<1>1. LimiterTypeOK
  BY FullNat DEF LimiterInit, LimiterTypeOK
<1>2. (now - since) * max = 0 /\ 0 * Unit = 0
  BY DEF LimiterInit, Sensible
<1>3. ASSUME NEW a \in Addrs PROVE a \notin known /\ passed[a] * Unit <= (now - since) * max
  <2>1. passed[a] = 0 /\ a \notin known
    BY DEF LimiterInit
  <2>2. passed[a] * Unit = 0
    BY <1>2, <2>1
  <2> QED BY <1>2, <2>1, <2>2
<1>4. Account(max)
  BY <1>3, Zenon DEF Account
<1> QED
  BY <1>1, <1>4 DEF LimiterInv

(* The refill: no more than a full bucket, and no more than what the time  *)
(* since the last request brought.                                         *)
LEMMA Refill ==
    ASSUME NEW CONSTANT max, Sensible(max), LimiterTypeOK, NEW a \in Addrs, NEW rate \in Rates
    PROVE  /\ Refilled(a, rate) \in 0 .. Full
           /\ a \in known => Refilled(a, rate) <= tokens[a] + (now - seen[a]) * max
<1> DEFINE gap == now - seen[a]
           filled == tokens[a] + gap * rate
<1>1. Full \in Nat /\ rate \in Nat /\ max \in Nat /\ rate <= max
  BY FullNat DEF Sensible
<1>2. gap \in Nat /\ tokens[a] \in 0 .. Full
  BY DEF LimiterTypeOK
<1>3. gap * rate \in Nat /\ gap * max \in Nat /\ gap * rate <= gap * max
  BY <1>1, <1>2, Monotone
<1>4. Refilled(a, rate) = IF a \notin known \/ filled > Full THEN Full ELSE filled
  BY DEF Refilled
<1>5. filled \in Nat /\ filled <= tokens[a] + gap * max
  <2> HIDE DEF gap
  <2> QED BY <1>1, <1>2, <1>3
<1> HIDE DEF filled
<1>6. Refilled(a, rate) \in 0 .. Full /\ (a \in known => Refilled(a, rate) <= filled)
  BY <1>1, <1>4, <1>5
<1>7. tokens[a] + gap * max \in Nat /\ Refilled(a, rate) \in Nat
  BY <1>1, <1>2, <1>3, <1>6
<1> QED
  BY <1>5, <1>6, <1>7

(* The account of an address that makes a request.                         *)
LEMMA AccountAtRequest ==
    ASSUME NEW CONSTANT max, Sensible(max), LimiterInv(max), NEW a \in Addrs, NEW rate \in Rates
    PROVE  passed[a] * Unit + Refilled(a, rate) <= Full + (now - since) * max
<1>0. LimiterTypeOK
  BY DEF LimiterInv
<1>1. /\ Full \in Nat /\ max \in Nat /\ Unit \in Nat
      /\ Refilled(a, rate) \in 0 .. Full
      /\ a \in known => Refilled(a, rate) <= tokens[a] + (now - seen[a]) * max
      /\ tokens[a] \in Nat /\ passed[a] \in Nat
      /\ now \in Nat /\ since \in 0 .. now /\ seen[a] \in 0 .. now
  <2>1. Full \in Nat /\ max \in Nat /\ Unit \in Nat
    BY FullNat DEF Sensible
  <2>2. tokens[a] \in 0 .. Full /\ passed[a] \in Nat
        /\ now \in Nat /\ since \in 0 .. now /\ seen[a] \in 0 .. now
    BY <1>0 DEF LimiterTypeOK
  <2> QED BY <1>0, <2>1, <2>2, Refill
<1> DEFINE R == Refilled(a, rate)
           P == passed[a] * Unit
           W == (now - since) * max
<1> SUFFICES P + R <= Full + W
  OBVIOUS
<1>2. P \in Nat /\ W \in Nat /\ R \in Nat /\ R <= Full
  BY <1>1
<1>3. CASE a \notin known
  <2>1. P <= W
    BY <1>3 DEF LimiterInv, Account
  <2> HIDE DEF P, W, R
  <2> QED BY <1>1, <1>2, <2>1
<1>4. CASE a \in known /\ passed[a] = 0
  <2>1. P = 0
    BY <1>1, <1>4
  <2> HIDE DEF P, W, R
  <2> QED BY <1>1, <1>2, <2>1
<1>5. CASE a \in known /\ passed[a] # 0
  <2> DEFINE S == (seen[a] - since) * max
             G == (now - seen[a]) * max
  <2>1. seen[a] >= since /\ P + tokens[a] <= Full + S
    BY <1>5 DEF LimiterInv, Account
  <2>2. S \in Nat /\ G \in Nat
    BY <1>1, <2>1
  <2>3. S + G = W
    BY <1>1
  <2>4. R <= tokens[a] + G
    BY <1>1, <1>5
  <2> HIDE DEF P, W, R, S, G
  <2> QED BY <1>1, <1>2, <2>1, <2>2, <2>3, <2>4
<1> QED
  BY <1>3, <1>4, <1>5

LEMMA LimiterTypeStep ==
    ASSUME NEW CONSTANT max, Sensible(max), LimiterTypeOK, [LimiterNext]_limiterVars PROVE LimiterTypeOK'
<1>1. ASSUME NEW a \in Addrs, Pass(a) PROVE LimiterTypeOK'
  <2>1. PICK rate \in Rates : Refilled(a, rate) >= Unit /\ tokens' = [tokens EXCEPT ![a] = Refilled(a, rate) - Unit]
    BY <1>1 DEF Pass
  <2>2. Refilled(a, rate) - Unit \in 0 .. Full
    <3>1. Refilled(a, rate) \in 0 .. Full
      BY Refill
    <3>2. Full \in Nat /\ Unit \in Nat
      BY FullNat DEF Sensible
    <3> QED BY <2>1, <3>1, <3>2
  <2> QED BY <1>1, <2>1, <2>2 DEF Pass, LimiterTypeOK
<1>2. ASSUME NEW a \in Addrs, Refuse(a) PROVE LimiterTypeOK'
  <2>1. PICK rate \in Rates : tokens' = [tokens EXCEPT ![a] = Refilled(a, rate)]
    BY <1>2 DEF Refuse
  <2> QED BY <1>2, <2>1, Refill DEF Refuse, LimiterTypeOK
<1>3. CASE Cleanup
  BY <1>3 DEF Cleanup, LimiterTypeOK
<1>4. CASE Tick
  BY <1>4 DEF Tick, LimiterTypeOK
<1>5. CASE Watch
  BY <1>5 DEF Watch, LimiterTypeOK
<1>6. CASE UNCHANGED limiterVars
  BY <1>6 DEF limiterVars, LimiterTypeOK
<1> QED
  BY <1>1, <1>2, <1>3, <1>4, <1>5, <1>6 DEF LimiterNext

(* A request changes the account of its own address only.                  *)
LEMMA OthersAtRequest ==
    ASSUME NEW CONSTANT max, LimiterInv(max), NEW a \in Addrs, Pass(a) \/ Refuse(a),
           NEW b \in Addrs, b # a
    PROVE  /\ b \in known' <=> b \in known
           /\ tokens'[b] = tokens[b] /\ seen'[b] = seen[b] /\ passed'[b] = passed[b]
           /\ now' = now /\ since' = since
<1>1. tokens \in [Addrs -> 0 .. Full] /\ seen \in [Addrs -> 0 .. now] /\ passed \in [Addrs -> Nat]
  BY DEF LimiterInv, LimiterTypeOK
<1> QED
  BY <1>1 DEF Pass, Refuse

LEMMA AccountAtRequestStep ==
    ASSUME NEW CONSTANT max, Sensible(max), LimiterInv(max), NEW a \in Addrs, Pass(a) \/ Refuse(a)
    PROVE  Account(max)'
<1>0. LimiterTypeOK
  BY DEF LimiterInv
<1>1. /\ Unit \in Nat /\ now \in Nat /\ since \in 0 .. now
      /\ passed \in [Addrs -> Nat] /\ tokens \in [Addrs -> 0 .. Full] /\ seen \in [Addrs -> 0 .. now]
  BY <1>0 DEF LimiterTypeOK, Sensible
<1>2. /\ a \in known' /\ seen'[a] = now /\ now' = now /\ since' = since
      /\ passed'[a] * Unit + tokens'[a] <= Full + (now - since) * max
  <2>1. CASE Pass(a)
    <3>1. PICK rate \in Rates : tokens' = [tokens EXCEPT ![a] = Refilled(a, rate) - Unit]
      BY <2>1 DEF Pass
    <3>2. /\ passed[a] * Unit + Refilled(a, rate) <= Full + (now - since) * max
          /\ Refilled(a, rate) \in 0 .. Full
      BY <1>0, AccountAtRequest, Refill
    <3>3. passed'[a] = passed[a] + 1 /\ tokens'[a] = Refilled(a, rate) - Unit
      BY <1>1, <2>1, <3>1 DEF Pass
    <3>4. Full \in Nat /\ passed[a] \in Nat
      BY FullNat, <1>1
    <3>5. passed'[a] * Unit + tokens'[a] = passed[a] * Unit + Refilled(a, rate)
      BY <1>1, <3>2, <3>3, <3>4
    <3> QED BY <1>1, <2>1, <3>2, <3>5 DEF Pass
  <2>2. CASE Refuse(a)
    <3>1. PICK rate \in Rates : tokens' = [tokens EXCEPT ![a] = Refilled(a, rate)]
      BY <2>2 DEF Refuse
    <3>2. passed[a] * Unit + Refilled(a, rate) <= Full + (now - since) * max
      BY AccountAtRequest
    <3>3. passed' = passed /\ tokens'[a] = Refilled(a, rate)
      BY <1>1, <2>2, <3>1 DEF Refuse
    <3> QED BY <1>1, <2>2, <3>2, <3>3 DEF Refuse
  <2> QED BY <2>1, <2>2
<1>3. ASSUME NEW b \in Addrs
      PROVE  IF b \in known'
             THEN \/ passed'[b] = 0 /\ seen'[b] < since'
                  \/ /\ seen'[b] >= since'
                     /\ passed'[b] * Unit + tokens'[b] <= Full + (seen'[b] - since') * max
             ELSE passed'[b] * Unit <= (now' - since') * max
  <2>1. CASE b = a
    BY <1>1, <1>2, <2>1
  <2>2. CASE b # a
    <3>1. /\ b \in known' <=> b \in known
          /\ tokens'[b] = tokens[b] /\ seen'[b] = seen[b] /\ passed'[b] = passed[b]
          /\ now' = now /\ since' = since
      BY <2>2, OthersAtRequest
    <3> QED BY <3>1 DEF LimiterInv, Account
  <2> QED BY <2>1, <2>2
<1> QED
  BY <1>3 DEF Account, Full

LEMMA AccountAtCleanup ==
    ASSUME NEW CONSTANT max, Sensible(max), LimiterInv(max), Cleanup PROVE Account(max)'
<1>1. /\ Unit \in Nat /\ max \in Nat /\ CleanupAge \in Nat /\ Full \in Nat
      /\ now \in Nat /\ since \in 0 .. now
  BY FullNat DEF LimiterInv, LimiterTypeOK, Sensible
<1>2. ASSUME NEW b \in known, b \in Addrs, now - seen[b] > CleanupAge
      PROVE  passed[b] * Unit <= (now - since) * max
  <2>1. seen[b] \in 0 .. now /\ tokens[b] \in 0 .. Full /\ passed[b] \in Nat
    BY <1>2 DEF LimiterInv, LimiterTypeOK
  <2>2. CASE passed[b] = 0
    <3>1. passed[b] * Unit = 0 /\ (now - since) * max \in Nat
      BY <1>1, <2>2
    <3> QED BY <3>1
  <2>3. CASE passed[b] # 0
    <3> DEFINE P == passed[b] * Unit
               S == (seen[b] - since) * max
               C == CleanupAge * max
               G == (now - seen[b]) * max
    <3> SUFFICES P <= (now - since) * max
      OBVIOUS
    <3>1. seen[b] >= since /\ P + tokens[b] <= Full + S
      BY <1>2, <2>3 DEF LimiterInv, Account
    <3>2. P \in Nat /\ S \in Nat /\ C \in Nat /\ G \in Nat
      BY <1>1, <2>1, <3>1
    <3>3. C <= G
      BY <1>1, <1>2, <2>1, Monotone
    <3>4. S + G = (now - since) * max
      BY <1>1, <2>1, <3>1
    <3>5. Full <= C
      BY DEF Sensible
    <3> HIDE DEF P, S, C, G
    <3>6. P <= S + G
      BY <1>1, <2>1, <3>1, <3>2, <3>3, <3>5
    <3> QED BY <3>4, <3>6
  <2> QED BY <2>2, <2>3
<1>3. /\ known' = {a \in known : now - seen[a] <= CleanupAge}
      /\ UNCHANGED <<now, tokens, seen, since, passed>>
  BY DEF Cleanup
<1>4. \A b \in Addrs : seen[b] \in 0 .. now
  BY DEF LimiterInv, LimiterTypeOK
<1>5. ASSUME NEW b \in Addrs, b \in known, b \notin known' PROVE passed[b] * Unit <= (now - since) * max
  <2>1. ~(now - seen[b] <= CleanupAge)
    BY <1>3, <1>5
  <2>2. now - seen[b] > CleanupAge
    BY <1>1, <1>4, <2>1
  <2> QED BY <1>2, <1>5, <2>2
<1>6. known' \subseteq known
  BY <1>3
<1> QED
  BY <1>3, <1>5, <1>6 DEF LimiterInv, Account, Full

LEMMA AccountInTime ==
    ASSUME NEW CONSTANT max, Sensible(max), LimiterInv(max), Tick \/ Watch PROVE Account(max)'
<1>1. /\ Unit \in Nat /\ max \in Nat /\ Full \in Nat
      /\ now \in Nat /\ since \in 0 .. now
      /\ \A b \in Addrs : /\ seen[b] \in 0 .. now /\ tokens[b] \in 0 .. Full
                          /\ passed[b] \in Nat
  BY FullNat DEF LimiterInv, LimiterTypeOK, Sensible
<1>2. CASE Tick
  <2>1. (now - since) * max <= (now + 1 - since) * max
    BY <1>1, Monotone
  <2>2. (now - since) * max \in Nat /\ (now + 1 - since) * max \in Nat
    BY <1>1
  <2>3. /\ now' = now + 1
        /\ known' = known /\ tokens' = tokens /\ seen' = seen /\ since' = since /\ passed' = passed
    BY <1>2 DEF Tick
  <2>4. ASSUME NEW b \in Addrs, b \notin known
        PROVE  passed[b] * Unit <= (now + 1 - since) * max
    <3> DEFINE P == passed[b] * Unit
               W == (now - since) * max
               V == (now + 1 - since) * max
    <3>1. P \in Nat
      BY <1>1
    <3>2. P <= W
      BY <2>4 DEF LimiterInv, Account
    <3> SUFFICES P <= V
      OBVIOUS
    <3> HIDE DEF P, W, V
    <3> QED BY <2>1, <2>2, <3>1, <3>2 DEF P, W, V
  <2>5. ASSUME NEW b \in Addrs, b \in known
        PROVE  \/ passed[b] = 0 /\ seen[b] < since
               \/ /\ seen[b] >= since
                  /\ passed[b] * Unit + tokens[b] <= Full + (seen[b] - since) * max
    BY <2>5 DEF LimiterInv, Account
  <2>6. Full' = Full
    BY DEF Full
  <2>7. ASSUME NEW b \in Addrs
        PROVE  IF b \in known'
               THEN \/ passed'[b] = 0 /\ seen'[b] < since'
                    \/ /\ seen'[b] >= since'
                       /\ passed'[b] * Unit + tokens'[b] <= Full' + (seen'[b] - since') * max
               ELSE passed'[b] * Unit <= (now' - since') * max
    <3>1. now' - since' = now + 1 - since
      BY <1>1, <2>3
    <3>2. passed'[b] = passed[b] /\ tokens'[b] = tokens[b] /\ seen'[b] = seen[b]
      BY <2>3
    <3>3. CASE b \in known
      BY <2>3, <2>5, <2>6, <3>2, <3>3, Zenon
    <3>4. CASE b \notin known
      BY <2>3, <2>4, <3>1, <3>2, <3>4, Zenon
    <3> QED BY <3>3, <3>4
  <2> QED BY <2>7, Zenon DEF Account
<1>3. CASE Watch
  <2>1. /\ since' = now /\ passed' = [a \in Addrs |-> 0]
        /\ UNCHANGED <<now, known, tokens, seen>>
    BY <1>3 DEF Watch
  <2>2. 0 * Unit = 0 /\ (now - now) * max = 0
    BY <1>1
  <2>3. ASSUME NEW b \in Addrs PROVE passed'[b] = 0 /\ passed'[b] * Unit = 0
    <3>1. passed'[b] = 0
      BY <2>1
    <3> QED BY <2>2, <3>1
  <2>4. ASSUME NEW b \in Addrs
        PROVE  \/ passed'[b] = 0 /\ seen[b] < now
               \/ /\ seen[b] >= now
                  /\ passed'[b] * Unit + tokens[b] <= Full + (seen[b] - now) * max
    <3>1. seen[b] < now \/ seen[b] = now
      BY <1>1
    <3>2. CASE seen[b] = now
      <4>1. (seen[b] - now) * max = 0
        BY <2>2, <3>2
      <4> QED BY <1>1, <2>3, <3>2, <4>1
    <3> QED BY <2>3, <3>1, <3>2
  <2>5. ASSUME NEW b \in Addrs PROVE passed'[b] * Unit <= (now - now) * max
    BY <2>2, <2>3
  <2>6. Full' = Full
    BY DEF Full
  <2> QED BY <2>1, <2>4, <2>5, <2>6, Zenon DEF Account
<1> QED
  BY <1>2, <1>3

(* The account holds from one step to the next.                            *)
LEMMA AccountStep ==
    ASSUME NEW CONSTANT max, Sensible(max), LimiterInv(max), [LimiterNext]_limiterVars PROVE LimiterInv(max)'
<1>1. LimiterTypeOK'
  BY LimiterTypeStep DEF LimiterInv
<1>2. Account(max)'
  <2>1. ASSUME NEW a \in Addrs, Pass(a) \/ Refuse(a) PROVE Account(max)'
    BY <2>1, AccountAtRequestStep
  <2>2. CASE Cleanup
    BY <2>2, AccountAtCleanup
  <2>3. CASE Tick \/ Watch
    BY <2>3, AccountInTime
  <2>4. CASE UNCHANGED limiterVars
    BY <2>4 DEF LimiterInv, Account, limiterVars, Full
  <2> QED BY <2>1, <2>2, <2>3, <2>4 DEF LimiterNext
<1> QED
  BY <1>1, <1>2 DEF LimiterInv

LEMMA AccountBounds ==
    ASSUME NEW CONSTANT max, Sensible(max), LimiterInv(max) PROVE WithinRate(max)
<1>1. /\ Unit \in Nat /\ max \in Nat /\ Full \in Nat /\ now \in Nat /\ since \in 0 .. now
  BY FullNat DEF LimiterInv, LimiterTypeOK, Sensible
<1> SUFFICES ASSUME NEW a \in Addrs PROVE passed[a] * Unit <= Full + (now - since) * max
  BY DEF WithinRate
<1>2. seen[a] \in 0 .. now /\ tokens[a] \in 0 .. Full /\ passed[a] \in Nat
  BY DEF LimiterInv, LimiterTypeOK
<1> DEFINE P == passed[a] * Unit
           W == (now - since) * max
<1>3. P \in Nat /\ W \in Nat
  BY <1>1, <1>2
<1> SUFFICES P <= Full + W
  OBVIOUS
<1>4. CASE a \notin known
  <2>1. P <= W
    BY <1>4 DEF LimiterInv, Account
  <2> HIDE DEF P, W
  <2> QED BY <1>1, <1>3, <2>1
<1>5. CASE passed[a] = 0
  <2>1. P = 0
    BY <1>1, <1>5
  <2> HIDE DEF P, W
  <2> QED BY <1>1, <1>3, <2>1
<1>6. CASE a \in known /\ passed[a] # 0
  <2> DEFINE S == (seen[a] - since) * max
  <2>1. seen[a] >= since /\ P + tokens[a] <= Full + S
    BY <1>6 DEF LimiterInv, Account
  <2>2. S \in Nat /\ S <= W
    BY <1>1, <1>2, <2>1, Monotone
  <2> HIDE DEF P, W, S
  <2> QED BY <1>1, <1>2, <1>3, <2>1, <2>2
<1> QED
  BY <1>4, <1>5, <1>6

(* In no stretch of time does an address get more requests through than a  *)
(* full bucket and the refill allow (middlewareFor with cleanupLoop), if   *)
(* the cleanup waits for as long as a refill takes.  The general limiter   *)
(* satisfies that from a rate_limit of 3 a minute; the enrollment limiter, *)
(* whose refill takes 15 minutes and whose cleanup comes after 10, does    *)
(* not.                                                                    *)
THEOREM RequestsWithinRate ==
    ASSUME NEW CONSTANT max, Sensible(max) PROVE LimiterSpec => []WithinRate(max)
<1>1. LimiterInit => LimiterInv(max)
  BY LimiterStart
<1>2. LimiterInv(max) /\ [LimiterNext]_limiterVars => LimiterInv(max)'
  BY AccountStep
<1>3. LimiterInv(max) => WithinRate(max)
  BY AccountBounds
<1> QED
  BY <1>1, <1>2, <1>3, PTL DEF LimiterSpec

-----------------------------------------------------------------------------
(***************************************************************************)
(* A scan, for all fields, values and texts of errors.  ScanInv says, of a *)
(* scan under way, what the mutex buys: a section is untouched until its   *)
(* gatherer answers and that answer afterwards, and the errors are those   *)
(* of the gatherers that failed.                                           *)
(***************************************************************************)
ErrorsMatch ==
    /\ errors \in Seq([key : Gatherers, err : Failures])
    /\ \A i \in 1..Len(errors) : /\ errors[i].key \in Failed
                                 /\ errors[i].err = answers[errors[i].key].err
    /\ \A g \in Failed : \E i \in 1..Len(errors) : errors[i].key = g
    /\ \A i, j \in 1..Len(errors) : errors[i].key = errors[j].key => i = j

Answered == [g \in Gatherers |-> answers[g].value]

ScanInv ==
    /\ running \subseteq Gatherers
    /\ answers \in [Gatherers -> Answers]
    /\ \A g \in running : answers[g] = [value |-> Empty, err |-> None]
    /\ finalized \in BOOLEAN
    /\ finalized => running = {}
    /\ sections = IF finalized THEN finalizeScanResult(Answered) ELSE Answered
    /\ ErrorsMatch

-----------------------------------------------------------------------------
LEMMA EmptyIsMap == Empty \in Maps
<1>1. {} \in SUBSET Fields /\ Empty \in [{} -> Values]
  BY DEF Empty
<1> QED
  BY <1>1 DEF Maps

(* mergeMap into a section nobody has written yet.                         *)
LEMMA MergeIntoEmpty ==
    ASSUME NEW value \in Maps
    PROVE  mergeMap(Empty, value) = value
<1>1. PICK names \in SUBSET Fields : value \in [names -> Values]
  BY DEF Maps
<1>2. DOMAIN Empty = {} /\ DOMAIN value = names
  BY <1>1 DEF Empty
<1>3. mergeMap(Empty, value) = [f \in names |-> value[f]]
  BY <1>2 DEF mergeMap
<1> QED
  BY <1>1, <1>3

LEMMA NoFields ==
    ASSUME NEW value \in Maps, DOMAIN value = {}
    PROVE  value = Empty
<1>1. PICK names \in SUBSET Fields : value \in [names -> Values]
  BY DEF Maps
<1>2. names = {}
  BY <1>1
<1> QED
  BY <1>1, <1>2 DEF Empty

LEMMA ScanInit == ScannerInit => ScanInv
<1> SUFFICES ASSUME ScannerInit PROVE ScanInv
  OBVIOUS
<1>1. answers \in [Gatherers -> Answers] /\ Failed = {}
  BY EmptyIsMap DEF ScannerInit, Answers, Failed
<1>2. sections = Answered
  BY DEF ScannerInit, Answered
<1>3. ErrorsMatch
  BY <1>1 DEF ScannerInit, ErrorsMatch
<1> QED
  BY <1>1, <1>2, <1>3 DEF ScannerInit, ScanInv

(* One gatherer returns.                                                   *)
LEMMA ReturnsInv ==
    ASSUME ScanInv, NEW g \in Gatherers, NEW value \in Maps, NEW e \in Failures \cup {None},
           Returns(g, [value |-> value, err |-> e]),
           sections' = [sections EXCEPT ![g] = value],
           ErrorsMatch'
    PROVE  ScanInv'
<1>1. /\ g \in running /\ running' = running \ {g} /\ ~finalized /\ finalized' = finalized
      /\ answers' = [answers EXCEPT ![g] = [value |-> value, err |-> e]]
  BY DEF Returns, ScanInv
<1>2. answers' \in [Gatherers -> Answers]
  BY <1>1 DEF ScanInv, Answers
<1>3. \A h \in running' : answers'[h] = [value |-> Empty, err |-> None]
  BY <1>1 DEF ScanInv
<1>4. sections' = Answered'
  <2>1. \A h \in Gatherers : answers'[h].value = IF h = g THEN value ELSE answers[h].value
    BY <1>1 DEF ScanInv
  <2>2. sections = Answered
    BY <1>1 DEF ScanInv
  <2> QED BY <2>1, <2>2 DEF Answered
<1> QED
  BY <1>1, <1>2, <1>3, <1>4 DEF ScanInv

LEMMA SucceedInv == ASSUME ScanInv, NEW g \in Gatherers, Succeed(g) PROVE ScanInv'
<1>1. PICK value \in Maps : /\ Returns(g, [value |-> value, err |-> None])
                            /\ sections' = [sections EXCEPT ![g] = value]
                            /\ errors' = errors
  BY DEF Succeed
<1>2. g \in running /\ answers' = [answers EXCEPT ![g] = [value |-> value, err |-> None]]
  BY <1>1 DEF Returns
<1>3. \A h \in Gatherers : answers'[h].err = answers[h].err
  BY <1>2 DEF ScanInv
<1>4. Failed' = Failed
  BY <1>3 DEF Failed
<1>5. ErrorsMatch'
  BY <1>1, <1>3, <1>4 DEF ScanInv, ErrorsMatch, Failed
<1> QED
  BY <1>1, <1>5, ReturnsInv

LEMMA FailInv == ASSUME ScanInv, NEW g \in Gatherers, Fail(g) PROVE ScanInv'
<1>1. PICK value \in Maps, e \in Failures \ {None} :
          /\ Returns(g, [value |-> value, err |-> e])
          /\ errors' = Append(errors, [key |-> g, err |-> e])
          /\ sections' = IF DOMAIN value = {} THEN sections
                         ELSE [sections EXCEPT ![g] = mergeMap(@, value)]
  BY DEF Fail
<1>2. g \in running /\ ~finalized
      /\ answers' = [answers EXCEPT ![g] = [value |-> value, err |-> e]]
  BY <1>1 DEF Returns, ScanInv
<1>3. sections' = [sections EXCEPT ![g] = value]
  <2>1. sections = Answered /\ sections[g] = Empty
    BY <1>2 DEF ScanInv, Answered
  <2>2. CASE DOMAIN value = {}
    <3>1. value = Empty
      BY <2>2, NoFields
    <3>2. sections = [sections EXCEPT ![g] = Empty]
      BY <2>1 DEF Answered
    <3> QED BY <1>1, <2>2, <3>1, <3>2
  <2>3. CASE DOMAIN value # {}
    BY <1>1, <2>1, <2>3, MergeIntoEmpty
  <2> QED BY <2>2, <2>3
<1>4. /\ \A h \in Gatherers \ {g} : answers'[h].err = answers[h].err
      /\ answers'[g].err = e /\ answers[g].err = None
  BY <1>2 DEF ScanInv
<1>5. Failed' = Failed \cup {g} /\ g \notin Failed
  BY <1>1, <1>4 DEF Failed
<1>6. ErrorsMatch'
  <2>1. errors \in Seq([key : Gatherers, err : Failures])
    BY DEF ScanInv, ErrorsMatch
  <2>2. /\ Len(errors') = Len(errors) + 1
        /\ \A i \in 1..Len(errors) : errors'[i] = errors[i]
        /\ errors'[Len(errors) + 1] = [key |-> g, err |-> e]
        /\ errors' \in Seq([key : Gatherers, err : Failures])
        /\ Len(errors) \in Nat
    BY <1>1, <2>1
  <2>3. \A i \in 1..Len(errors) : errors[i].key \in Failed /\ errors[i].key \in Gatherers \ {g}
                                  /\ errors[i].err = answers[errors[i].key].err
    BY <1>5 DEF ScanInv, ErrorsMatch, Failed
  <2>4. \A i \in 1..Len(errors') : /\ errors'[i].key \in Failed'
                                   /\ errors'[i].err = answers'[errors'[i].key].err
    <3> SUFFICES ASSUME NEW i \in 1..Len(errors')
                 PROVE  /\ errors'[i].key \in Failed'
                        /\ errors'[i].err = answers'[errors'[i].key].err
      OBVIOUS
    <3>1. CASE i = Len(errors) + 1
      BY <1>4, <1>5, <2>2, <3>1
    <3>2. CASE i # Len(errors) + 1
      <4>1. i \in 1..Len(errors)
        BY <2>2, <3>2
      <4> QED BY <1>4, <1>5, <2>2, <2>3, <4>1
    <3> QED BY <3>1, <3>2
  <2>5. ASSUME NEW h \in Failed' PROVE \E i \in 1..Len(errors') : errors'[i].key = h
    <3>1. CASE h = g
      <4>1. Len(errors) + 1 \in 1..Len(errors')
        BY <2>2
      <4> QED BY <2>2, <3>1, <4>1
    <3>2. CASE h # g
      <4>1. PICK i \in 1..Len(errors) : errors[i].key = h
        BY <1>5, <2>5, <3>2 DEF ScanInv, ErrorsMatch
      <4>2. i \in 1..Len(errors')
        BY <2>2
      <4> QED BY <2>2, <4>1, <4>2
    <3> QED BY <3>1, <3>2
  <2>6. ASSUME NEW i \in 1..Len(errors'), NEW j \in 1..Len(errors'),
               errors'[i].key = errors'[j].key
        PROVE  i = j
    <3>1. \A k \in 1..Len(errors') : k = Len(errors) + 1 \/ k \in 1..Len(errors)
      BY <2>2
    <3>2. \A k \in 1..Len(errors) : errors'[k].key # g
      BY <2>2, <2>3
    <3>3. CASE i = Len(errors) + 1 \/ j = Len(errors) + 1
      BY <2>2, <2>6, <3>1, <3>2, <3>3
    <3>4. CASE i \in 1..Len(errors) /\ j \in 1..Len(errors)
      BY <2>2, <2>6, <3>4 DEF ScanInv, ErrorsMatch
    <3> QED BY <3>1, <3>3, <3>4
  <2> QED BY <2>2, <2>4, <2>5, <2>6 DEF ErrorsMatch
<1> QED
  BY <1>1, <1>3, <1>6, ReturnsInv

LEMMA FinalizeInv == ASSUME ScanInv, Finalize PROVE ScanInv'
<1>1. running' = running /\ answers' = answers /\ errors' = errors /\ finalized' = TRUE
      /\ running = {} /\ sections' = finalizeScanResult(sections) /\ sections = Answered
  BY DEF Finalize, ScanInv
<1>2. Answered' = Answered /\ ErrorsMatch'
  BY <1>1 DEF Answered, ErrorsMatch, Failed, ScanInv
<1>3. sections' = finalizeScanResult(Answered)
  BY <1>1
<1> QED
  BY <1>1, <1>2, <1>3 DEF ScanInv

LEMMA ScanStep == ASSUME ScanInv, [ScannerNext]_scannerVars PROVE ScanInv'
<1>1. CASE UNCHANGED scannerVars
  BY <1>1 DEF scannerVars, ScanInv, ErrorsMatch, Failed, Answered
<1> QED
  BY <1>1, SucceedInv, FailInv, FinalizeInv DEF ScannerNext

THEOREM ScanInvariant == ScannerSpec => []ScanInv
<1> QED
  BY ScanInit, ScanStep, PTL DEF ScannerSpec

(* The result's errors are those of the gatherers that failed, each once.  *)
THEOREM ErrorsAreListedOnce == ScannerSpec => []ErrorsListedOnce
<1>1. ScanInv => ErrorsListedOnce
  BY DEF ScanInv, ErrorsMatch, ErrorsListedOnce
<1> QED
  BY <1>1, ScanInvariant, PTL

-----------------------------------------------------------------------------
LEMMA WithoutNothing == ASSUME NEW value \in Maps PROVE Without(value, {}) = value
<1>1. PICK names \in SUBSET Fields : value \in [names -> Values]
  BY DEF Maps
<1> QED
  BY <1>1 DEF Without

LEMMA MergedWithoutNothing ==
    ASSUME NEW there, NEW here
    PROVE  Without(mergeMap(there, here), {}) = mergeMap(there, here)
  BY DEF Without, mergeMap

LEMMA IntelWithoutNothing ==
    ASSUME NEW storage, NEW web
    PROVE  Without(mergeWebStorageIntel(storage, web), {}) = mergeWebStorageIntel(storage, web)
<1>1. \E there, here : mergeWebStorageIntel(storage, web) = mergeMap(there, here)
  BY Zenon DEF mergeWebStorageIntel
<1> QED
  BY <1>1, MergedWithoutNothing

(* The volatile fields are in sections the final merge neither reads nor   *)
(* writes, so leaving them out before it or after it is the same.          *)
LEMMA SanitizeCommutes ==
    ASSUME ScanInv
    PROVE  Sanitized(finalizeScanResult(Answered)) = finalizeScanResult(Stable)
<1>1. \A g \in Gatherers : Answered[g] \in Maps /\ Answered[g] = answers[g].value
  BY DEF ScanInv, Answers, Answered
<1>2. \A g \in Gatherers : Stable[g] = Without(Answered[g], Volatile(g))
  BY <1>1 DEF Stable
<1>3. /\ "web" \in Gatherers /\ "storage" \in Gatherers
      /\ Volatile("web") = {} /\ Volatile("storage") = {}
  BY DEF Gatherers, Volatile
<1>4. Stable["web"] = Answered["web"] /\ Stable["storage"] = Answered["storage"]
  BY <1>1, <1>2, <1>3, WithoutNothing
<1>5. CASE DOMAIN Answered["web"] = {}
  <2>1. finalizeScanResult(Answered) = Answered /\ finalizeScanResult(Stable) = Stable
    BY <1>4, <1>5 DEF finalizeScanResult
  <2>2. Sanitized(Answered) = Stable
    BY <1>1 DEF Sanitized, Stable
  <2> QED BY <2>1, <2>2
<1>6. CASE DOMAIN Answered["web"] # {}
  <2> DEFINE X == mergeWebStorageIntel(Answered["storage"], Answered["web"])
  <2>1. /\ finalizeScanResult(Answered) = [Answered EXCEPT !["storage"] = X]
        /\ finalizeScanResult(Stable) = [Stable EXCEPT !["storage"] = X]
    BY <1>4, <1>6 DEF finalizeScanResult
  <2>2. Without(X, {}) = X
    BY IntelWithoutNothing
  <2> HIDE DEF X
  <2>3. \A g \in Gatherers : Without([Answered EXCEPT !["storage"] = X][g], Volatile(g))
                               = [Stable EXCEPT !["storage"] = X][g]
    BY <1>2, <1>3, <2>2 DEF Answered, Stable
  <2>4. Sanitized([Answered EXCEPT !["storage"] = X]) = [Stable EXCEPT !["storage"] = X]
    BY <2>3 DEF Sanitized, Stable
  <2> QED BY <2>1, <2>4
<1> QED
  BY <1>5, <1>6

LEMMA ElementOf ==
    ASSUME NEW S, NEW s \in Seq(S), NEW i \in 1..Len(s)
    PROVE  s[i] \in S
  OBVIOUS

LEMMA ErrorsDetermined ==
    ASSUME ScanInv, finalized, \A g, h \in Failed : g = h
    PROVE  errors = StableErrors
<1>1. /\ errors \in Seq([key : Gatherers, err : Failures])
      /\ \A i \in 1..Len(errors) : /\ errors[i].key \in Failed
                                   /\ errors[i].err = answers[errors[i].key].err
      /\ \A g \in Failed : \E i \in 1..Len(errors) : errors[i].key = g
      /\ \A i, j \in 1..Len(errors) : errors[i].key = errors[j].key => i = j
  BY DEF ScanInv, ErrorsMatch
<1>2. CASE Failed = {}
  <2>1. Len(errors) = 0
    BY <1>1, <1>2
  <2> QED BY <1>1, <1>2, <2>1 DEF StableErrors
<1>3. CASE Failed # {}
  <2> DEFINE g == CHOOSE x \in Failed : TRUE
  <2>1. g \in Failed /\ \A h \in Failed : h = g
    BY <1>3
  <2>2. StableErrors = <<[key |-> g, err |-> answers[g].err]>>
    BY <1>3 DEF StableErrors
  <2> HIDE DEF g
  <2>3. Len(errors) = 1
    <3>1. Len(errors) \in Nat /\ \A i \in 1..Len(errors) : errors[i].key = g
      BY <1>1, <2>1
    <3>2. PICK i \in 1..Len(errors) : errors[i].key = g
      BY <1>1, <2>1
    <3>3. \A j \in 1..Len(errors) : j = i
      BY <1>1, <3>1, <3>2
    <3>4. 1 \in 1..Len(errors) /\ Len(errors) \in 1..Len(errors)
      BY <3>1, <3>2
    <3>5. Len(errors) = i /\ 1 = i
      BY <3>3, <3>4
    <3> QED BY <3>5
  <2>4. 1 \in 1..Len(errors)
    BY <2>3
  <2>5. errors[1].key = g /\ errors[1].err = answers[errors[1].key].err
    BY <1>1, <2>1, <2>4
  <2>6. errors[1] \in [key : Gatherers, err : Failures]
    BY <1>1, <2>4, ElementOf
  <2>7. errors[1] = [key |-> g, err |-> answers[g].err]
    BY <2>5, <2>6
  <2>8. errors = <<errors[1]>>
    BY <1>1, <2>3
  <2> QED BY <2>2, <2>7, <2>8
<1> QED
  BY <1>2, <1>3

(* HashForDedup of a scan in which at most one gatherer failed depends on  *)
(* the answers and the text of that failure alone: not on the order the    *)
(* gatherers took the mutex in, nor on the screenshot's and the traceroute's*)
(* volatile fields.                                                        *)
THEOREM HashIsStable == ScannerSpec => []DedupStable
<1>1. ScanInv => DedupStable
  <2> SUFFICES ASSUME ScanInv, finalized, \A g, h \in Failed : g = h
               PROVE  HashForDedup(sections, errors) = <<finalizeScanResult(Stable), StableErrors>>
    BY DEF DedupStable
  <2>1. sections = finalizeScanResult(Answered)
    BY DEF ScanInv
  <2> QED BY <2>1, SanitizeCommutes, ErrorsDetermined DEF HashForDedup
<1> QED
  BY <1>1, ScanInvariant, PTL

-----------------------------------------------------------------------------
(***************************************************************************)
(* The rescan scheduler, for any hosts, limit and users.                   *)
(***************************************************************************)
(* What the tick still has to enqueue is each host once, and none that has *)
(* a job of the scheduler.                                                 *)
ListInv ==
    /\ \A i, j \in DOMAIN list : list[i] = list[j] => i = j
    /\ \A i \in DOMAIN list : scheduled[list[i]] = 0

SchedulerInv == SchedulerTypeOK /\ ListInv /\ OneScheduledJob

LEMMA SchedulerStart == SchedulerInit => SchedulerInv
  BY HostsAssumption, LimitAssumption
  DEF SchedulerInit, SchedulerInv, SchedulerTypeOK, ListInv, OneScheduledJob

(* The query returns each host once, and only hosts without a job.         *)
LEMMA StaleTargetsListed ==
    ASSUME SchedulerTypeOK, NEW s \in StaleTargets
    PROVE  /\ s \in Seq(Hosts)
           /\ \A i, j \in DOMAIN s : s[i] = s[j] => i = j
           /\ \A i \in DOMAIN s : scheduled[s[i]] = 0
<1> DEFINE hosts == {h \in Hosts : Eligible(h)}
<1>1. PICK n \in 0 .. Limit : s \in [1 .. n -> hosts]
  BY DEF StaleTargets, BoundedSeq, SeqOf
<1>2. s \in Seq(Hosts) /\ DOMAIN s = 1 .. n
  BY <1>1, LimitAssumption
<1>3. \A i, j \in DOMAIN s : i < j => s[i] # s[j]
  <2>1. \A i, j \in DOMAIN s : i < j => <<s[i], s[j]>> \in older
    BY DEF StaleTargets
  <2>2. \A h \in Hosts : <<h, h>> \notin older
    BY DEF SchedulerTypeOK, Orders
  <2> QED BY <1>1, <1>2, <2>1, <2>2
<1>4. \A h \in hosts : scheduled[h] = 0
  <2>1. ASSUME NEW h \in Hosts, scheduled[h] + byUser[h] = 0 PROVE scheduled[h] = 0
    BY <2>1, LimitAssumption DEF SchedulerTypeOK
  <2> QED BY <2>1 DEF Eligible, ActiveJobs
<1>5. \A i, j \in DOMAIN s : s[i] = s[j] => i = j
  BY <1>2, <1>3, LimitAssumption
<1> QED
  BY <1>1, <1>2, <1>4, <1>5

LEMMA OrdersMove ==
    ASSUME older \in Orders, NEW h \in Hosts
    PROVE  {p \in older : h \notin {p[1], p[2]}} \cup {<<k, h>> : k \in Hosts \ {h}} \in Orders
<1> DEFINE o == {p \in older : h \notin {p[1], p[2]}} \cup {<<k, h>> : k \in Hosts \ {h}}
<1>1. o \in SUBSET (Hosts \X Hosts)
  BY DEF Orders
<1>2. \A x, y \in Hosts : <<x, y>> \in o <=> (x # h /\ y # h /\ <<x, y>> \in older) \/ (y = h /\ x # h)
  OBVIOUS
<1> HIDE DEF o
<1>3. \A x, y, z \in Hosts : <<x, y>> \in older /\ <<y, z>> \in older => <<x, z>> \in older
  <2> SUFFICES ASSUME NEW x \in Hosts, NEW y \in Hosts, NEW z \in Hosts,
                      <<x, y>> \in older, <<y, z>> \in older
               PROVE  <<x, z>> \in older
    OBVIOUS
  <2>1. <<x, y>>[2] = <<y, z>>[1] => <<<<x, y>>[1], <<y, z>>[2]>> \in older
    BY DEF Orders
  <2> QED BY <2>1
<1>4. ASSUME NEW p \in o, NEW q \in o, p[2] = q[1] PROVE <<p[1], q[2]>> \in o
  <2>1. PICK x \in Hosts, y \in Hosts : p = <<x, y>>
    BY <1>1
  <2>2. PICK z \in Hosts : q = <<y, z>>
    BY <1>1, <1>4, <2>1
  <2>3. <<x, z>> \in o
    BY <1>2, <1>3, <1>4, <2>1, <2>2
  <2> QED BY <2>1, <2>2, <2>3
<1>5. \A x \in Hosts : <<x, x>> \notin o
  <2>1. \A x \in Hosts : <<x, x>> \notin older
    BY DEF Orders
  <2> QED BY <1>2, <2>1
<1>6. \A x, y \in Hosts : x = y \/ <<x, y>> \in o \/ <<y, x>> \in o
  <2>1. \A x, y \in Hosts : x = y \/ <<x, y>> \in older \/ <<y, x>> \in older
    BY DEF Orders
  <2> SUFFICES ASSUME NEW x \in Hosts, NEW y \in Hosts, x # y
               PROVE  <<x, y>> \in o \/ <<y, x>> \in o
    OBVIOUS
  <2>2. CASE x = h
    BY <1>2, <2>2
  <2>3. CASE y = h
    BY <1>2, <2>3
  <2>4. CASE x # h /\ y # h
    BY <1>2, <2>1, <2>4
  <2> QED BY <2>2, <2>3, <2>4
<1> QED
  BY <1>1, <1>4, <1>5, <1>6 DEF Orders, o

(* What is left of a list when its head is taken.                          *)
LEMMA TailMoves ==
    ASSUME NEW S, NEW s \in Seq(S), s # <<>>
    PROVE  /\ Head(s) = s[1] /\ s[1] \in S /\ 1 \in DOMAIN s /\ Tail(s) \in Seq(S)
           /\ \A i \in DOMAIN Tail(s) : i + 1 \in DOMAIN s /\ Tail(s)[i] = s[i + 1] /\ i \in Nat \ {0}
<1>1. Len(s) \in Nat \ {0} /\ DOMAIN s = 1 .. Len(s)
  OBVIOUS
<1>2. Tail(s) \in Seq(S) /\ Len(Tail(s)) = Len(s) - 1 /\ \A i \in 1 .. Len(s) - 1 : Tail(s)[i] = s[i + 1]
  BY <1>1
<1>3. DOMAIN Tail(s) = 1 .. Len(s) - 1
  BY <1>1, <1>2
<1> QED
  BY <1>1, <1>2, <1>3

LEMMA SchedulerStep == SchedulerInv /\ [SchedulerNext]_schedulerVars => SchedulerInv'
<1> SUFFICES ASSUME SchedulerInv, [SchedulerNext]_schedulerVars PROVE SchedulerInv'
  OBVIOUS
<1> USE HostsAssumption, LimitAssumption
<1>t. SchedulerTypeOK /\ ListInv /\ OneScheduledJob
  BY DEF SchedulerInv
<1>1. CASE QueryReturns
  BY <1>1, <1>t, StaleTargetsListed DEF QueryReturns, SchedulerInv, SchedulerTypeOK, ListInv, OneScheduledJob
<1>2. CASE Enqueue
  <2>1. /\ list # <<>> /\ scheduled' = [scheduled EXCEPT ![Head(list)] = @ + 1] /\ list' = Tail(list)
        /\ UNCHANGED <<older, scanned, fresh, byUser, enabled, tick>>
    BY <1>2 DEF Enqueue
  <2>2. /\ Head(list) = list[1] /\ list[1] \in Hosts /\ 1 \in DOMAIN list /\ list' \in Seq(Hosts)
        /\ \A i \in DOMAIN list' : i + 1 \in DOMAIN list /\ list'[i] = list[i + 1] /\ i \in Nat \ {0}
    <3>1. list \in Seq(Hosts)
      BY <1>t DEF SchedulerTypeOK
    <3> QED BY <2>1, <3>1, TailMoves
  <2>3. \A i \in DOMAIN list' : list'[i] # list[1] /\ list'[i] \in Hosts
    BY <1>t, <2>2 DEF SchedulerTypeOK, ListInv
  <2>4. /\ scheduled \in [Hosts -> Nat] /\ scheduled[list[1]] = 0
        /\ \A i \in DOMAIN list : scheduled[list[i]] = 0
        /\ \A i, j \in DOMAIN list : list[i] = list[j] => i = j
    BY <1>t, <2>2 DEF SchedulerTypeOK, ListInv
  <2>5. /\ scheduled' = [scheduled EXCEPT ![list[1]] = 1]
        /\ \A h \in Hosts \ {list[1]} : scheduled'[h] = scheduled[h]
    <3>1. scheduled' = [scheduled EXCEPT ![list[1]] = scheduled[list[1]] + 1]
      BY <2>1, <2>2
    <3>2. scheduled' = [scheduled EXCEPT ![list[1]] = 1]
      BY <2>4, <3>1
    <3> QED BY <2>4, <3>2
  <2>6. \A i \in DOMAIN list' : scheduled'[list'[i]] = 0
    <3> SUFFICES ASSUME NEW i \in DOMAIN list' PROVE scheduled'[list'[i]] = 0
      OBVIOUS
    <3>1. scheduled[list'[i]] = 0
      BY <2>2, <2>4
    <3> QED BY <2>3, <2>5, <3>1
  <2>7. \A i, j \in DOMAIN list' : list'[i] = list'[j] => i = j
    <3> SUFFICES ASSUME NEW i \in DOMAIN list', NEW j \in DOMAIN list', list'[i] = list'[j]
                 PROVE  i = j
      OBVIOUS
    <3>1. i + 1 = j + 1
      BY <2>2, <2>4
    <3> QED BY <2>2, <3>1
  <2>8. ListInv'
    BY <2>6, <2>7 DEF ListInv
  <2>9. SchedulerTypeOK'
    <3>1. scheduled' \in [Hosts -> Nat]
      BY <2>2, <2>4, <2>5
    <3> QED BY <1>t, <2>1, <2>2, <3>1 DEF SchedulerTypeOK
  <2>10. OneScheduledJob'
    BY <1>t, <2>2, <2>4, <2>5 DEF OneScheduledJob
  <2> QED BY <2>8, <2>9, <2>10 DEF SchedulerInv
<1>3. CASE EnqueueFails
  <2>1. /\ list # <<>> /\ list' = Tail(list)
        /\ UNCHANGED <<older, scanned, fresh, scheduled, byUser, enabled, tick>>
    BY <1>3 DEF EnqueueFails
  <2>2. /\ list' \in Seq(Hosts)
        /\ \A i \in DOMAIN list' : i + 1 \in DOMAIN list /\ list'[i] = list[i + 1] /\ i \in Nat \ {0}
    <3>1. list \in Seq(Hosts)
      BY <1>t DEF SchedulerTypeOK
    <3> QED BY <2>1, <3>1, TailMoves
  <2>3. SchedulerTypeOK' /\ OneScheduledJob'
    BY <1>t, <2>1, <2>2 DEF SchedulerTypeOK, OneScheduledJob
  <2>4. \A i \in DOMAIN list' : scheduled'[list'[i]] = 0
    BY <1>t, <2>1, <2>2 DEF ListInv
  <2>5. \A i, j \in DOMAIN list' : list'[i] = list'[j] => i = j
    <3> SUFFICES ASSUME NEW i \in DOMAIN list', NEW j \in DOMAIN list', list'[i] = list'[j]
                 PROVE  i = j
      OBVIOUS
    <3>1. i + 1 = j + 1
      BY <1>t, <2>2 DEF ListInv
    <3> QED BY <2>2, <3>1
  <2>6. ListInv'
    BY <2>4, <2>5 DEF ListInv
  <2> QED BY <2>3, <2>6 DEF SchedulerInv
<1>4. ASSUME NEW h \in Hosts, OneLess(h), UNCHANGED <<enabled, tick, list>>,
             older' \in Orders, scanned' \subseteq Hosts, fresh' \subseteq scanned'
      PROVE  SchedulerInv'
  <2>1. /\ scheduled' \in [Hosts -> Nat] /\ byUser' \in [Hosts -> 0 .. MaxUser]
        /\ \A k \in Hosts : scheduled'[k] <= scheduled[k]
    <3>1. scheduled \in [Hosts -> Nat] /\ byUser \in [Hosts -> 0 .. MaxUser]
      BY <1>t DEF SchedulerTypeOK
    <3>2. CASE scheduled[h] > 0 /\ scheduled' = [scheduled EXCEPT ![h] = @ - 1] /\ byUser' = byUser
      BY <3>1, <3>2
    <3>3. CASE byUser[h] > 0 /\ byUser' = [byUser EXCEPT ![h] = @ - 1] /\ scheduled' = scheduled
      BY <3>1, <3>3
    <3> QED BY <1>4, <3>2, <3>3 DEF OneLess
  <2>2. ListInv'
    <3>1. \A i \in DOMAIN list : list[i] \in Hosts
      BY <1>t DEF SchedulerTypeOK
    <3>2. \A i \in DOMAIN list : scheduled'[list[i]] = 0
      BY <1>t, <2>1, <3>1 DEF ListInv, SchedulerTypeOK
    <3> QED BY <1>4, <1>t, <3>2 DEF ListInv
  <2>3. OneScheduledJob'
    BY <1>t, <2>1 DEF OneScheduledJob, SchedulerTypeOK
  <2> QED BY <1>4, <1>t, <2>1, <2>2, <2>3 DEF SchedulerInv, SchedulerTypeOK
<1>5. CASE \E h \in Hosts : JobCompletes(h) \/ JobFails(h)
  <2>1. ASSUME NEW h \in Hosts, JobCompletes(h) PROVE SchedulerInv'
    <3>1. older' \in Orders /\ scanned' \subseteq Hosts /\ fresh' \subseteq scanned'
      BY <1>t, <2>1, OrdersMove DEF JobCompletes, SchedulerTypeOK
    <3> QED BY <1>4, <2>1, <3>1 DEF JobCompletes
  <2>2. ASSUME NEW h \in Hosts, JobFails(h) PROVE SchedulerInv'
    BY <1>4, <1>t, <2>2 DEF JobFails, SchedulerTypeOK
  <2> QED BY <1>5, <2>1, <2>2
<1>6. CASE TickStarts \/ QueryFails \/ TickEnds \/ SetEnabled \/ UNCHANGED schedulerVars
  BY <1>6, <1>t DEF TickStarts, QueryFails, TickEnds, SetEnabled, schedulerVars, SchedulerInv, SchedulerTypeOK, ListInv,
                    OneScheduledJob
<1>7. CASE \E h \in Hosts : UserScan(h) \/ GrowStale(h)
  <2>1. ASSUME NEW h \in Hosts, UserScan(h) PROVE SchedulerTypeOK'
    BY <1>t, <2>1 DEF UserScan, SchedulerTypeOK
  <2>2. ASSUME NEW h \in Hosts, GrowStale(h) PROVE SchedulerTypeOK'
    BY <1>t, <2>2 DEF GrowStale, SchedulerTypeOK
  <2>3. UNCHANGED <<scheduled, list>>
    BY <1>7 DEF UserScan, GrowStale
  <2> QED BY <1>7, <1>t, <2>1, <2>2, <2>3 DEF SchedulerInv, ListInv, OneScheduledJob
<1> QED
  BY <1>1, <1>2, <1>3, <1>5, <1>6, <1>7 DEF SchedulerNext, TickStep

(* The scheduler never has two active jobs for one host, although it asks  *)
(* once and inserts later while users insert too (scheduler.go, tick).     *)
THEOREM RescansScheduledOnce == SchedulerSpec => []OneScheduledJob
<1>1. SchedulerInv => OneScheduledJob
  BY DEF SchedulerInv
<1> QED
  BY <1>1, SchedulerStart, SchedulerStep, PTL DEF SchedulerSpec

-----------------------------------------------------------------------------
(***************************************************************************)
(* The pWhois worker, for any snapshots, addresses and limits.             *)
(***************************************************************************)
(* What was recorded today is not written over, whoever else asks for the  *)
(* same address and whatever the server answers then (worker.go,           *)
(* updateSnapshot).                                                        *)
THEOREM TodaysRecordsKept == PwhoisSpec => TodayKept
<1>1. ASSUME NEW a, NEW value, UpdateOrFail(a, value), NEW s \in Snapshots, looked[s] = "today"
      PROVE  data'[s] = data[s]
  <2>1. CASE updateSnapshot(a, value)
    BY <1>1, <2>1 DEF updateSnapshot, Waiting
  <2>2. CASE UNCHANGED rows
    BY <2>2 DEF rows
  <2> QED BY <1>1, <2>1, <2>2 DEF UpdateOrFail
<1>2. ASSUME [PwhoisNext]_pwhoisVars, NEW s \in Snapshots, looked[s] = "today"
      PROVE  data'[s] = data[s]
  <2>1. CASE \E a \in Addresses : FilterSkipped(a) \/ RecordAddress(a)
    BY <1>1, <1>2, <2>1 DEF FilterSkipped, RecordAddress
  <2>2. CASE \/ Poll \/ BatchReady \/ ProcessDone \/ BatchDone \/ Start
             \/ LookupRetry \/ LookupGivesUp \/ LookupAnswers
             \/ \E a \in Addresses : FilterCached(a) \/ FilterBatched(a) \/ CacheExpires(a)
    BY <2>2 DEF Poll, BatchReady, ProcessDone, BatchDone, Start, LookupRetry, LookupGivesUp,
                LookupAnswers, FilterCached, FilterBatched, CacheExpires, rows
  <2>3. CASE \/ Stop \/ Crash \/ UNCHANGED pwhoisVars
             \/ \E x \in Snapshots : NewSnapshot(x) \/ IdenticalRescan(x) \/ DayPasses(x)
    BY <2>3 DEF Stop, Crash, Down, NewSnapshot, IdenticalRescan, DayPasses, rows, pwhoisVars
  <2> QED BY <1>2, <2>1, <2>2, <2>3 DEF PwhoisNext, Process
<1>3. [PwhoisNext]_pwhoisVars =>
        [\A s \in Snapshots : looked[s] = "today" /\ looked'[s] = "today" => data'[s] = data[s]]_pwhoisVars
  BY <1>2
<1> QED
  BY <1>3, PTL DEF PwhoisSpec, TodayKept

(* The server is asked about addresses that isRoutable lets through, and   *)
(* nothing is kept or stored about another.                                *)
OnlyRoutable ==
    /\ batch \cup found \subseteq isRoutable
    /\ \A a \in Addresses : Cached(a) => a \in isRoutable
    /\ \A s \in Snapshots : data[s] \in isRoutable \cup {"none", "null"}

(* A snapshot has a record, if only null, when it was looked up.           *)
RecordsDated == \A s \in Snapshots : data[s] = "none" <=> looked[s] \in {"absent", "never"}

PwhoisInv == PwhoisTypeOK /\ OnlyRoutable /\ RecordsDated

(* What an UPDATE that takes effect or fails may write.                    *)
LEMMA UpdateKeeps ==
    ASSUME PwhoisInv, NEW a \in Addresses, NEW value \in isRoutable \cup {"null"},
           UpdateOrFail(a, value)
    PROVE  /\ clientIP' = clientIP
           /\ looked' \in [Snapshots -> {"absent", "never", "today", "before"}]
           /\ data' \in [Snapshots -> Addresses \cup {"none", "null"}]
           /\ \A s \in Snapshots : /\ data'[s] \in isRoutable \cup {"none", "null"}
                                   /\ data'[s] = "none" <=> looked'[s] \in {"absent", "never"}
<1>1. /\ looked \in [Snapshots -> {"absent", "never", "today", "before"}]
      /\ data \in [Snapshots -> Addresses \cup {"none", "null"}]
      /\ \A s \in Snapshots : /\ data[s] \in isRoutable \cup {"none", "null"}
                              /\ data[s] = "none" <=> looked[s] \in {"absent", "never"}
  BY DEF PwhoisInv, PwhoisTypeOK, OnlyRoutable, RecordsDated
<1>2. isRoutable \subseteq Addresses /\ "none" \notin Addresses /\ value # "none"
  BY AddressesAssumption DEF PwhoisInv, PwhoisTypeOK
<1>3. CASE UNCHANGED rows
  BY <1>1, <1>3 DEF rows
<1>4. CASE updateSnapshot(a, value)
  <2>1. /\ clientIP' = clientIP
        /\ looked' = [s \in Snapshots |-> IF clientIP[s] = a /\ Waiting(s) THEN "today" ELSE looked[s]]
        /\ data' = [s \in Snapshots |-> IF clientIP[s] = a /\ Waiting(s) THEN value ELSE data[s]]
    BY <1>4 DEF updateSnapshot
  <2>2. looked' \in [Snapshots -> {"absent", "never", "today", "before"}]
    BY <1>1, <2>1
  <2>3. data' \in [Snapshots -> Addresses \cup {"none", "null"}]
    BY <1>1, <1>2, <2>1
  <2>4. ASSUME NEW s \in Snapshots
        PROVE  /\ data'[s] \in isRoutable \cup {"none", "null"}
               /\ data'[s] = "none" <=> looked'[s] \in {"absent", "never"}
    BY <1>1, <1>2, <2>1
  <2> QED BY <2>1, <2>2, <2>3, <2>4
<1> QED BY <1>3, <1>4 DEF UpdateOrFail

(* Another address still fits into a batch that is not full.               *)
LEMMA RoomForOne ==
    ASSUME PwhoisTypeOK, Room, NEW a \in Addresses
    PROVE  batch \cup {a} \subseteq Addresses /\ Cardinality(batch \cup {a}) <= maxBatchSize
<1>1. IsFiniteSet(batch) /\ Cardinality(batch) \in Nat /\ maxBatchSize \in Nat
  BY AddressesAssumption, LimitsAssumption, FS_Subset, FS_CardinalityType DEF PwhoisTypeOK
<1>2. Cardinality(batch \cup {a}) \in {Cardinality(batch), Cardinality(batch) + 1}
  BY <1>1, FS_AddElement
<1> QED BY <1>1, <1>2 DEF Room, PwhoisTypeOK

LEMMA SmallerBatch ==
    ASSUME PwhoisTypeOK, NEW S \in SUBSET batch
    PROVE  S \subseteq Addresses /\ Cardinality(S) <= maxBatchSize
<1>1. IsFiniteSet(batch) /\ Cardinality(batch) \in Nat /\ maxBatchSize \in Nat
  BY AddressesAssumption, LimitsAssumption, FS_Subset, FS_CardinalityType DEF PwhoisTypeOK
<1>2. Cardinality(S) \in Nat /\ Cardinality(S) <= Cardinality(batch)
  BY <1>1, FS_Subset, FS_CardinalityType
<1> QED BY <1>1, <1>2 DEF PwhoisTypeOK

LEMMA EmptyBatch == ASSUME PwhoisTypeOK PROVE Cardinality({}) <= maxBatchSize
  BY LimitsAssumption, FS_EmptySet DEF PwhoisTypeOK

LEMMA PwhoisStart == PwhoisInit => PwhoisInv
<1> SUFFICES ASSUME PwhoisInit PROVE PwhoisInv
  OBVIOUS
<1>1. Cardinality({}) <= maxBatchSize
  BY LimitsAssumption, FS_EmptySet DEF PwhoisInit
<1>2. PwhoisTypeOK
  BY <1>1, LimitsAssumption DEF PwhoisInit, PwhoisTypeOK
<1>3. OnlyRoutable /\ RecordsDated
  BY DEF PwhoisInit, OnlyRoutable, RecordsDated, Cached
<1> QED BY <1>2, <1>3 DEF PwhoisInv

LEMMA FilterKeeps ==
    ASSUME PwhoisInv, NEW a \in Addresses, FilterCached(a) \/ FilterSkipped(a) \/ FilterBatched(a)
    PROVE  PwhoisInv'
<1>1. CASE FilterCached(a)
  <2>1. /\ UNCHANGED <<maxBatchSize, isRoutable, clientIP, looked, data, cache, phase, batch, attempt, found>>
        /\ todo' \subseteq Addresses
    BY <1>1 DEF FilterCached, given, rows, PwhoisInv, PwhoisTypeOK
  <2> QED BY <2>1 DEF PwhoisInv, PwhoisTypeOK, OnlyRoutable, RecordsDated, Cached
<1>2. CASE FilterSkipped(a)
  <2>1. /\ UNCHANGED <<maxBatchSize, isRoutable, phase, batch, attempt, found>>
        /\ cache' = [cache EXCEPT ![a] = "nil"] /\ todo' \subseteq Addresses
        /\ UpdateOrFail(a, "null")
    BY <1>2 DEF FilterSkipped, given, PwhoisInv, PwhoisTypeOK
  <2>2. /\ clientIP' = clientIP
        /\ looked' \in [Snapshots -> {"absent", "never", "today", "before"}]
        /\ data' \in [Snapshots -> Addresses \cup {"none", "null"}]
        /\ \A s \in Snapshots : /\ data'[s] \in isRoutable \cup {"none", "null"}
                                /\ data'[s] = "none" <=> looked'[s] \in {"absent", "never"}
    BY <2>1, UpdateKeeps
  <2>3. /\ cache' \in [Addresses -> {"empty", "record", "nil"}]
        /\ \A x \in Addresses : cache'[x] = "record" => x \in isRoutable
    BY <2>1 DEF PwhoisInv, PwhoisTypeOK, OnlyRoutable, Cached
  <2>4. PwhoisTypeOK'
    BY <2>1, <2>2, <2>3 DEF PwhoisInv, PwhoisTypeOK
  <2>5. OnlyRoutable' /\ RecordsDated'
    BY <2>1, <2>2, <2>3 DEF PwhoisInv, OnlyRoutable, RecordsDated, Cached
  <2> QED BY <2>4, <2>5 DEF PwhoisInv
<1>3. CASE FilterBatched(a)
  <2>1. /\ UNCHANGED <<maxBatchSize, isRoutable, clientIP, looked, data, cache, phase, attempt, found>>
        /\ batch' = batch \cup {a} /\ a \in isRoutable /\ Room /\ todo' \subseteq Addresses
    BY <1>3 DEF FilterBatched, given, rows, PwhoisInv, PwhoisTypeOK
  <2>2. batch' \subseteq Addresses /\ Cardinality(batch') <= maxBatchSize'
    BY <2>1, RoomForOne DEF PwhoisInv
  <2>3. PwhoisTypeOK'
    BY <2>1, <2>2 DEF PwhoisInv, PwhoisTypeOK
  <2>4. OnlyRoutable' /\ RecordsDated'
    BY <2>1 DEF PwhoisInv, OnlyRoutable, RecordsDated, Cached
  <2> QED BY <2>3, <2>4 DEF PwhoisInv
<1> QED BY <1>1, <1>2, <1>3

LEMMA LookupKeeps ==
    ASSUME PwhoisInv, Poll \/ BatchReady \/ ProcessDone \/ BatchDone \/ LookupRetry \/ LookupGivesUp \/ LookupAnswers
    PROVE  PwhoisInv'
<1>0. UNCHANGED <<maxBatchSize, isRoutable, clientIP, looked, data>>
  BY DEF Poll, BatchReady, ProcessDone, BatchDone, LookupRetry, LookupGivesUp, LookupAnswers, given, rows
<1>1. /\ phase' \in {"idle", "filter", "lookup", "record"}
      /\ todo' \subseteq Addresses /\ attempt' \in 0 .. maxRetries
  <2>1. pendingIPs \subseteq Addresses
    BY DEF pendingIPs, PwhoisInv, PwhoisTypeOK
  <2>2. CASE Poll
    BY <2>1, <2>2 DEF Poll, PwhoisInv, PwhoisTypeOK
  <2>3. CASE LookupRetry
    BY <2>3, LimitsAssumption DEF LookupRetry, PwhoisInv, PwhoisTypeOK
  <2>4. CASE BatchReady \/ ProcessDone \/ BatchDone \/ LookupGivesUp \/ LookupAnswers
    BY <2>4, LimitsAssumption DEF BatchReady, ProcessDone, BatchDone, LookupGivesUp, LookupAnswers,
                                  locals, PwhoisInv, PwhoisTypeOK
  <2> QED BY <2>2, <2>3, <2>4
<1>2. batch' \in {batch, {}}
  BY DEF Poll, BatchReady, ProcessDone, BatchDone, LookupRetry, LookupGivesUp, LookupAnswers, locals
<1>3. /\ found' \subseteq found \cup batch
      /\ cache' \in [Addresses -> {"empty", "record", "nil"}]
      /\ \A a \in Addresses : cache'[a] = "record" => cache[a] = "record" \/ a \in batch
  BY DEF Poll, BatchReady, ProcessDone, BatchDone, LookupRetry, LookupGivesUp, LookupAnswers, locals,
         PwhoisInv, PwhoisTypeOK
<1>4. batch' \subseteq batch /\ Cardinality(batch') <= maxBatchSize
  BY <1>2, EmptyBatch DEF PwhoisInv, PwhoisTypeOK
<1>5. PwhoisTypeOK'
  BY <1>0, <1>1, <1>3, <1>4 DEF PwhoisInv, PwhoisTypeOK
<1>6. OnlyRoutable' /\ RecordsDated'
  BY <1>0, <1>3, <1>4 DEF PwhoisInv, OnlyRoutable, RecordsDated, Cached
<1> QED BY <1>5, <1>6 DEF PwhoisInv

LEMMA RecordKeeps == ASSUME PwhoisInv, NEW a \in Addresses, RecordAddress(a) PROVE PwhoisInv'
<1> DEFINE value == IF a \in found THEN a ELSE "null"
<1>1. /\ UNCHANGED <<maxBatchSize, isRoutable, phase, todo, attempt, found>>
      /\ batch' = batch \ {a} /\ UpdateOrFail(a, value)
      /\ cache' = IF a \in found THEN cache ELSE [cache EXCEPT ![a] = "nil"]
  BY DEF RecordAddress, given
<1>2. value \in isRoutable \cup {"null"}
  BY DEF PwhoisInv, OnlyRoutable
<1> HIDE DEF value
<1>3. /\ clientIP' = clientIP
      /\ looked' \in [Snapshots -> {"absent", "never", "today", "before"}]
      /\ data' \in [Snapshots -> Addresses \cup {"none", "null"}]
      /\ \A s \in Snapshots : /\ data'[s] \in isRoutable \cup {"none", "null"}
                              /\ data'[s] = "none" <=> looked'[s] \in {"absent", "never"}
  BY <1>1, <1>2, UpdateKeeps
<1>4. /\ cache' \in [Addresses -> {"empty", "record", "nil"}]
      /\ \A x \in Addresses : cache'[x] = "record" => x \in isRoutable
  BY <1>1 DEF PwhoisInv, PwhoisTypeOK, OnlyRoutable, Cached
<1>5. batch' \subseteq Addresses /\ Cardinality(batch') <= maxBatchSize
  BY <1>1, SmallerBatch DEF PwhoisInv
<1>6. PwhoisTypeOK'
  BY <1>1, <1>3, <1>4, <1>5 DEF PwhoisInv, PwhoisTypeOK
<1>7. OnlyRoutable' /\ RecordsDated'
  BY <1>1, <1>3, <1>4 DEF PwhoisInv, OnlyRoutable, RecordsDated, Cached
<1> QED BY <1>6, <1>7 DEF PwhoisInv

LEMMA SurroundingsKeep ==
    ASSUME PwhoisInv,
           \/ \E s \in Snapshots : NewSnapshot(s) \/ IdenticalRescan(s) \/ DayPasses(s)
           \/ \E a \in Addresses : CacheExpires(a)
           \/ Stop \/ Crash \/ Start
    PROVE  PwhoisInv'
<1>1. ASSUME NEW s \in Snapshots, NewSnapshot(s) \/ IdenticalRescan(s) \/ DayPasses(s)
      PROVE  PwhoisInv'
  <2>1. UNCHANGED <<maxBatchSize, isRoutable, data, cache, phase, todo, batch, attempt, found>>
    BY <1>1 DEF NewSnapshot, IdenticalRescan, DayPasses, given, locals
  <2>2. /\ clientIP' \in [Snapshots -> Addresses]
        /\ looked' \in [Snapshots -> {"absent", "never", "today", "before"}]
        /\ \A x \in Snapshots : looked'[x] \in {"absent", "never"} <=> looked[x] \in {"absent", "never"}
    BY <1>1 DEF NewSnapshot, IdenticalRescan, DayPasses, PwhoisInv, PwhoisTypeOK
  <2> QED BY <2>1, <2>2 DEF PwhoisInv, PwhoisTypeOK, OnlyRoutable, RecordsDated, Cached
<1>2. ASSUME NEW a \in Addresses, CacheExpires(a) PROVE PwhoisInv'
  <2>1. /\ UNCHANGED <<maxBatchSize, isRoutable, clientIP, looked, data, phase, todo, batch, attempt, found>>
        /\ cache' = [cache EXCEPT ![a] = "empty"]
    BY <1>2 DEF CacheExpires, given, rows, locals
  <2> QED BY <2>1 DEF PwhoisInv, PwhoisTypeOK, OnlyRoutable, RecordsDated, Cached
<1>3. CASE Stop \/ Crash
  <2>1. /\ UNCHANGED <<maxBatchSize, isRoutable, clientIP, looked, data>>
        /\ phase' = "down" /\ todo' = {} /\ batch' = {} /\ attempt' = 0 /\ found' = {}
        /\ cache' = [a \in Addresses |-> "empty"]
    BY <1>3 DEF Stop, Crash, Down, given, rows
  <2>2. Cardinality(batch') <= maxBatchSize
    BY <2>1, EmptyBatch DEF PwhoisInv
  <2> QED BY <2>1, <2>2, LimitsAssumption DEF PwhoisInv, PwhoisTypeOK, OnlyRoutable, RecordsDated, Cached
<1>4. CASE Start
  <2>1. /\ UNCHANGED <<maxBatchSize, isRoutable, clientIP, looked, data, cache, todo, batch, attempt, found>>
        /\ phase' = "idle"
    BY <1>4 DEF Start, given, rows, locals
  <2> QED BY <2>1 DEF PwhoisInv, PwhoisTypeOK, OnlyRoutable, RecordsDated, Cached
<1> QED BY <1>1, <1>2, <1>3, <1>4

LEMMA PwhoisInvHolds == PwhoisSpec => []PwhoisInv
<1>1. PwhoisInv /\ [PwhoisNext]_pwhoisVars => PwhoisInv'
  <2> SUFFICES ASSUME PwhoisInv, [PwhoisNext]_pwhoisVars PROVE PwhoisInv'
    OBVIOUS
  <2>1. CASE UNCHANGED pwhoisVars
    <3>1. UNCHANGED <<maxBatchSize, isRoutable, clientIP, looked, data, cache, phase, todo, batch, attempt, found>>
      BY <2>1 DEF pwhoisVars, given, rows, locals
    <3> QED BY <3>1 DEF PwhoisInv, PwhoisTypeOK, OnlyRoutable, RecordsDated, Cached
  <2> QED BY <2>1, FilterKeeps, LookupKeeps, RecordKeeps, SurroundingsKeep DEF PwhoisNext, Process
<1> QED
  BY <1>1, PwhoisStart, PTL DEF PwhoisSpec

(* The state of the worker has its type; in particular no batch is larger  *)
(* than the worker may ask for at once, however it was filled, retried or  *)
(* given up (worker.go, process and lookupBatch).                          *)
THEOREM PwhoisTyped == PwhoisSpec => []PwhoisTypeOK
<1>1. PwhoisInv => PwhoisTypeOK
  BY DEF PwhoisInv
<1> QED BY <1>1, PwhoisInvHolds, PTL

(* The server is asked about routable addresses only, and neither cache    *)
(* nor table has a record of another; a snapshot has a record, or null,    *)
(* just when it was looked up, although addresses change under the worker, *)
(* UPDATEs fail and it dies with half a batch (worker.go, isRoutable and   *)
(* updateSnapshot).                                                        *)
THEOREM OnlyRoutableLookedUp == PwhoisSpec => [](OnlyRoutable /\ RecordsDated)
<1>1. PwhoisInv => OnlyRoutable /\ RecordsDated
  BY DEF PwhoisInv
<1> QED BY <1>1, PwhoisInvHolds, PTL

-----------------------------------------------------------------------------
(***************************************************************************)
(* The enrichments, for any runs, providers and answers.                   *)
(***************************************************************************)
(* What the variables are functions of.                                    *)
RunsShape ==
    /\ env \in Scenarios
    /\ row \in [SnapshotNumbers -> {"absent", "present", "deleted"}]
    /\ pc \in [Runs -> {"off", "load", "previous", "query", "store", "done"}]
    /\ DOMAIN enr = SnapshotNumbers
    /\ DOMAIN snap = Runs /\ DOMAIN prev = Runs /\ DOMAIN cur = Runs

(* The newest snapshot there is; 0 when there is none.                     *)
Newest(s) ==
    /\ s = 0 \/ row[s] = "present"
    /\ \A t \in SnapshotNumbers : t > s => row[t] = "absent"

(* One run after the other is under way, and enriches the newest snapshot. *)
OneRun ==
    /\ \A s \in SnapshotNumbers : row[s] # "deleted"
    /\ \A s, t \in SnapshotNumbers : t < s /\ row[s] = "present" => row[t] = "present"
    /\ \E s \in 0 .. MaxSnapshots : Newest(s)
    /\ \A g, h \in ActiveRuns : g = h
    /\ \A g \in ActiveRuns : snap[g] \in SnapshotNumbers /\ Newest(snap[g])

(* A run that is under way compares with the snapshot before its own.      *)
ComparesBefore ==
    \A g \in ActiveRuns : pc[g] \in {"query", "store"} => prev[g] = Before(snap[g])

(* Of a snapshot with an answer that the one before it does not have, the  *)
(* webhooks were told.                                                     *)
ChangesTold ==
    \A s \in SnapshotNumbers, p \in Providers :
        /\ row[s] = "present" /\ enr[s].block[p] \in AnswerValues
        /\ enr[s].block[p] # Before(s).block[p]
        => \E b \in alerts : b[1] = s /\ b[2][2] = p

EnrichmentInv ==
    /\ RunsShape
    /\ Undisturbed => OneRun /\ ComparesBefore /\ ChangesTold

LEMMA EnrichmentStart == EnrichmentInit => EnrichmentInv
<1> SUFFICES ASSUME EnrichmentInit PROVE EnrichmentInv
  OBVIOUS
<1>1. RunsShape
  BY DEF EnrichmentInit, RunsShape
<1>2. ActiveRuns = {}
  BY DEF EnrichmentInit, ActiveRuns
<1>3. OneRun /\ ComparesBefore
  <2>1. Newest(0) /\ 0 \in 0 .. MaxSnapshots
    BY BoundAssumption DEF EnrichmentInit, Newest
  <2> QED BY <1>2, <2>1 DEF EnrichmentInit, OneRun, ComparesBefore
<1>4. ChangesTold
  BY DEF EnrichmentInit, ChangesTold
<1> QED
  BY <1>1, <1>3, <1>4 DEF EnrichmentInv

LEMMA ShapeKept ==
    ASSUME RunsShape, [EnrichmentNext]_enrichmentVars
    PROVE  RunsShape' /\ env' = env
<1>1. CASE UNCHANGED enrichmentVars
  BY <1>1 DEF enrichmentVars, store, RunsShape
<1>2. ASSUME NEW g \in Runs, RunStep(g) \/ Fails(g)
      PROVE  RunsShape' /\ env' = env
  BY <1>2 DEF RunStep, Load, LoadPrevious, Query, Store, Fails, Goto, store, RunsShape
<1>3. ASSUME NEW g \in Runs, Rescan(g) \/ \E s \in SnapshotNumbers : ScanInserts(g, s)
      PROVE  RunsShape' /\ env' = env
  BY <1>3 DEF Rescan, ScanInserts, Insert, StartRun, store, RunsShape
<1>4. ASSUME NEW s \in SnapshotNumbers, ScanInsertsOnly(s) \/ Delete(s)
      PROVE  RunsShape' /\ env' = env
  BY <1>4 DEF ScanInsertsOnly, Delete, Insert, RunsShape
<1>5. CASE ProcessDies \/ Finished
  BY <1>5 DEF ProcessDies, Finished, enrichmentVars, store, RunsShape
<1> QED
  BY <1>1, <1>2, <1>3, <1>4, <1>5 DEF EnrichmentNext

(* What can happen while runs do not overlap.                              *)
LEMMA UndisturbedSteps ==
    ASSUME RunsShape, Undisturbed, [EnrichmentNext]_enrichmentVars
    PROVE  \/ \E g \in Runs : RunStep(g)
           \/ ActiveRuns = {} /\ \E g \in Runs, s \in SnapshotNumbers : ScanInserts(g, s)
           \/ ActiveRuns = {} /\ \E g \in Runs : Rescan(g)
           \/ ProcessDies
           \/ UNCHANGED enrichmentVars
<1>1. /\ env.atOnce = 1
      /\ {"delete", "persistFails", "dbError"} \cap env.events = {}
  BY DEF Undisturbed
<1>2. ASSUME NEW g \in Runs, NEW s, StartRun(g, s) PROVE ActiveRuns = {}
  <2>1. IsFiniteSet(ActiveRuns)
    BY RunsAssumption, FS_Subset DEF ActiveRuns
  <2>2. Cardinality(ActiveRuns) \in Nat /\ Cardinality(ActiveRuns) < 1
    BY <1>1, <1>2, <2>1, FS_CardinalityType DEF StartRun
  <2> QED BY <2>1, <2>2, FS_EmptySet
<1>3. \A g \in Runs, s \in SnapshotNumbers : ScanInserts(g, s) => ActiveRuns = {}
  BY <1>2 DEF ScanInserts
<1>4. \A g \in Runs : Rescan(g) => ActiveRuns = {}
  BY <1>2 DEF Rescan
<1> QED
  BY <1>1, <1>3, <1>4 DEF EnrichmentNext, Fails, ScanInsertsOnly, Delete, Finished

(* Steps of a run.                                                         *)
LEMMA RunStepEffect ==
    ASSUME RunsShape, NEW g \in Runs, RunStep(g)
    PROVE  /\ g \in ActiveRuns /\ row' = row /\ snap' = snap
           /\ ActiveRuns' = ActiveRuns \/ ActiveRuns' = ActiveRuns \ {g}
           /\ \A h \in Runs \ {g} : pc'[h] = pc[h] /\ prev'[h] = prev[h]
  BY DEF RunStep, Load, LoadPrevious, Query, Store, Goto, store, RunsShape, ActiveRuns

(* The newest snapshot that is there is the newest there is.               *)
LEMMA NewestIsMax ==
    ASSUME RunsShape, OneRun, Present # {}
    PROVE  Max(Present) \in SnapshotNumbers /\ Newest(Max(Present))
<1>1. PICK s \in 0 .. MaxSnapshots : Newest(s)
  BY DEF OneRun
<1>2. s \in Present /\ s \in SnapshotNumbers
  BY <1>1, BoundAssumption DEF Newest, Present, SnapshotNumbers
<1>3. \A t \in Present : s >= t
  BY <1>1, BoundAssumption DEF Newest, Present, SnapshotNumbers
<1>4. \A x \in Present : (\A y \in Present : x >= y) => x = s
  BY <1>2, <1>3, BoundAssumption DEF Present, SnapshotNumbers
<1>5. Max(Present) = s
  BY <1>2, <1>3, <1>4 DEF Max
<1> QED
  BY <1>1, <1>2, <1>5

LEMMA OneRunKept ==
    ASSUME RunsShape, Undisturbed, OneRun, [EnrichmentNext]_enrichmentVars
    PROVE  OneRun'
<1>1. ASSUME NEW g \in Runs, RunStep(g) PROVE OneRun'
  BY <1>1, RunStepEffect DEF OneRun, Newest
<1>2. ASSUME ActiveRuns = {}, NEW g \in Runs, NEW s \in SnapshotNumbers, ScanInserts(g, s)
      PROVE  OneRun'
  <2>1. /\ row[s] = "absent" /\ \A t \in 1 .. s - 1 : row[t] # "absent"
        /\ row' = [row EXCEPT ![s] = "present"]
        /\ pc[g] = "off" /\ pc' = [pc EXCEPT ![g] = "load"] /\ snap' = [snap EXCEPT ![g] = s]
    BY <1>2 DEF ScanInserts, Insert, StartRun
  <2>2. ActiveRuns' = {g} /\ snap'[g] = s
    BY <1>2, <2>1 DEF ActiveRuns, RunsShape
  <2>3. /\ s \in Nat /\ row' \in [SnapshotNumbers -> {"absent", "present", "deleted"}]
        /\ row'[s] = "present" /\ \A t \in SnapshotNumbers \ {s} : row'[t] = row[t]
    BY <2>1 DEF SnapshotNumbers, RunsShape
  <2>4. \A t \in SnapshotNumbers :
          (t < s => row[t] = "present") /\ (t > s => row[t] = "absent")
    BY <2>1, BoundAssumption DEF OneRun, SnapshotNumbers, RunsShape
  <2>5. Newest(s)'
    BY <2>3, <2>4, BoundAssumption DEF Newest, SnapshotNumbers
  <2>6. \A t, u \in SnapshotNumbers : u < t /\ row'[t] = "present" => row'[u] = "present"
    BY <2>3, <2>4, BoundAssumption DEF SnapshotNumbers
  <2>7. \A t \in SnapshotNumbers : row'[t] # "deleted"
    BY <2>3 DEF OneRun
  <2>8. s \in 0 .. MaxSnapshots
    BY BoundAssumption DEF SnapshotNumbers
  <2> QED BY <2>2, <2>5, <2>6, <2>7, <2>8 DEF OneRun
<1>3. CASE ProcessDies
  <2>1. ActiveRuns' = {} /\ row' = row
    BY <1>3 DEF ProcessDies, ActiveRuns, store, RunsShape
  <2> QED BY <2>1 DEF OneRun, Newest
<1>4. ASSUME ActiveRuns = {}, NEW g \in Runs, Rescan(g) PROVE OneRun'
  <2>1. Present # {} /\ row' = row /\ pc[g] = "off" /\ pc' = [pc EXCEPT ![g] = "load"]
        /\ snap' = [snap EXCEPT ![g] = Max(Present)]
    BY <1>4 DEF Rescan, StartRun, store
  <2>2. ActiveRuns' = {g} /\ snap'[g] = Max(Present)
    BY <1>4, <2>1 DEF ActiveRuns, RunsShape
  <2>3. Max(Present) \in SnapshotNumbers /\ Newest(Max(Present))
    BY <2>1, NewestIsMax
  <2> QED BY <2>1, <2>2, <2>3 DEF OneRun, Newest
<1>5. CASE UNCHANGED enrichmentVars
  BY <1>5 DEF enrichmentVars, store, OneRun, Newest, ActiveRuns
<1> QED
  BY <1>1, <1>2, <1>3, <1>4, <1>5, UndisturbedSteps

(* With the newest left out, the newest is the one before.                 *)
LEMMA PreviousIsBefore ==
    ASSUME RunsShape, OneRun, NEW s \in SnapshotNumbers, Newest(s)
    PROVE  Previous(s) = Before(s)
<1> DEFINE others == Present \ {s}
<1>1. others = 1 .. s - 1
  BY BoundAssumption DEF Newest, OneRun, Present, SnapshotNumbers
<1>2. s # 1 => Max(others) = s - 1
  <2> SUFFICES ASSUME s # 1 PROVE Max(1 .. s - 1) = s - 1
    BY <1>1
  <2>1. s - 1 \in 1 .. s - 1 /\ \A y \in 1 .. s - 1 : s - 1 >= y
    BY BoundAssumption DEF SnapshotNumbers
  <2>2. \A x \in 1 .. s - 1 : (\A y \in 1 .. s - 1 : x >= y) => x = s - 1
    BY <2>1, BoundAssumption DEF SnapshotNumbers
  <2> QED BY <2>1, <2>2 DEF Max
<1>3. others = {} <=> s = 1
  BY <1>1, BoundAssumption DEF SnapshotNumbers
<1> QED
  BY <1>2, <1>3 DEF Previous, Before

LEMMA ComparesBeforeKept ==
    ASSUME RunsShape, Undisturbed, OneRun, ComparesBefore, [EnrichmentNext]_enrichmentVars
    PROVE  ComparesBefore'
<1>1. ASSUME NEW g \in Runs, RunStep(g) PROVE ComparesBefore'
  <2>1. /\ g \in ActiveRuns /\ snap[g] \in SnapshotNumbers /\ Newest(snap[g]) /\ ActiveRuns = {g}
        /\ ActiveRuns' \subseteq {g} /\ snap' = snap
    BY <1>1, RunStepEffect DEF OneRun
  <2>2. CASE Load(g) \/ Store(g)
    BY <2>1, <2>2 DEF Load, Store, Goto, RunsShape, ComparesBefore
  <2>3. CASE LoadPrevious(g)
    <3>1. prev'[g] = Previous(snap[g]) /\ enr' = enr
      BY <2>3 DEF LoadPrevious, Undisturbed, RunsShape, store
    <3> QED BY <2>1, <3>1, PreviousIsBefore DEF ComparesBefore, Before
  <2>4. CASE Query(g)
    BY <2>1, <2>4 DEF Query, store, ComparesBefore, Before
  <2> QED BY <1>1, <2>2, <2>3, <2>4 DEF RunStep
<1>2. ASSUME ActiveRuns = {}, NEW g \in Runs, Rescan(g) \/ \E s \in SnapshotNumbers : ScanInserts(g, s)
      PROVE  ComparesBefore'
  <2>1. pc' = [pc EXCEPT ![g] = "load"]
    BY <1>2 DEF Rescan, ScanInserts, StartRun
  <2>2. ActiveRuns' = {g} /\ pc'[g] = "load"
    BY <1>2, <2>1 DEF ActiveRuns, RunsShape
  <2> QED BY <2>2 DEF ComparesBefore
<1>3. CASE ProcessDies
  BY <1>3 DEF ProcessDies, ActiveRuns, RunsShape, ComparesBefore
<1>4. CASE UNCHANGED enrichmentVars
  BY <1>4 DEF enrichmentVars, store, ComparesBefore, Before, ActiveRuns
<1> QED
  BY <1>1, <1>2, <1>3, <1>4, UndisturbedSteps

(* What a run announces is what is not as it was in the snapshot before.   *)
LEMMA StoreAnnounces ==
    ASSUME RunsShape, Undisturbed, OneRun, ComparesBefore, NEW g \in Runs, Store(g)
    PROVE  LET s == snap[g]
           IN  /\ s \in SnapshotNumbers /\ Newest(s) /\ row[s] = "present" /\ row' = row
               /\ enr'[s].block = cur[g] /\ \A t \in SnapshotNumbers \ {s} : enr'[t] = enr[t]
               /\ alerts' = alerts \cup ({s} \X Diff(g))
               /\ \A d \in Diff(g) : /\ d[2] \in Providers /\ cur[g][d[2]] \in AnswerValues
                                     /\ Before(s).block[d[2]] # cur[g][d[2]]
               /\ \A p \in Providers : cur[g][p] \in AnswerValues /\ Before(s).block[p] # cur[g][p]
                                       => \E d \in Diff(g) : d[2] = p
<1> DEFINE s == snap[g]
<1>1. g \in ActiveRuns
  BY RunStepEffect DEF RunStep
<1>2. s \in SnapshotNumbers /\ Newest(s)
  BY <1>1 DEF OneRun
<1>3. row[s] = "present"
  BY <1>2, BoundAssumption DEF Newest, SnapshotNumbers
<1>4. /\ row' = row /\ enr' = [enr EXCEPT ![s] = [status |-> StatusOf(cur[g]), block |-> cur[g]]]
      /\ alerts' = alerts \cup ({s} \X Diff(g))
  BY <1>3 DEF Store
<1>5. prev[g] = Before(s)
  BY <1>1 DEF Store, ComparesBefore
<1>6. \A d \in Diff(g) : /\ d[2] \in Providers /\ cur[g][d[2]] \in AnswerValues
                          /\ prev[g].block[d[2]] # cur[g][d[2]]
  BY DEF Diff, DiffEnrichment
<1>7. ASSUME NEW p \in Providers, cur[g][p] \in AnswerValues, prev[g].block[p] # cur[g][p]
      PROVE  \E d \in Diff(g) : d[2] = p
  <2>1. <<g, p, "added">> \in Diff(g) \/ <<g, p, "changed">> \in Diff(g)
    BY <1>7 DEF Diff, DiffEnrichment
  <2> QED BY <2>1
<1>8. enr'[s].block = cur[g] /\ \A t \in SnapshotNumbers \ {s} : enr'[t] = enr[t]
  BY <1>2, <1>4 DEF RunsShape
<1> QED
  BY <1>2, <1>3, <1>4, <1>5, <1>6, <1>7, <1>8

LEMMA ChangesToldKept ==
    ASSUME RunsShape, Undisturbed, OneRun, ComparesBefore, ChangesTold,
           [EnrichmentNext]_enrichmentVars
    PROVE  ChangesTold'
<1>1. CASE row' = row /\ enr' = enr /\ alerts' = alerts
  BY <1>1 DEF ChangesTold, Before
<1>2. ASSUME NEW g \in Runs, Store(g) PROVE ChangesTold'
  <2> DEFINE s == snap[g]
  <2>1. /\ s \in SnapshotNumbers /\ Newest(s) /\ row[s] = "present" /\ row' = row
        /\ enr'[s].block = cur[g] /\ \A t \in SnapshotNumbers \ {s} : enr'[t] = enr[t]
        /\ alerts' = alerts \cup ({s} \X Diff(g))
        /\ \A p \in Providers : cur[g][p] \in AnswerValues /\ Before(s).block[p] # cur[g][p]
                                => \E d \in Diff(g) : d[2] = p
    BY <1>2, StoreAnnounces
  <2>2. ASSUME NEW t \in SnapshotNumbers, row'[t] = "present" PROVE Before(t)' = Before(t)
    <3>1. t <= s
      BY <2>1, <2>2, BoundAssumption DEF Newest, SnapshotNumbers
    <3>2. t # 1 => t - 1 \in SnapshotNumbers \ {s}
      BY <2>1, <3>1, BoundAssumption DEF SnapshotNumbers
    <3> QED BY <2>1, <3>2 DEF Before
  <2>3. ASSUME NEW t \in SnapshotNumbers, NEW p \in Providers,
               row'[t] = "present", enr'[t].block[p] \in AnswerValues,
               enr'[t].block[p] # Before(t)'.block[p]
        PROVE  \E b \in alerts' : b[1] = t /\ b[2][2] = p
    <3>1. Before(t)' = Before(t)
      BY <2>2, <2>3
    <3>2. CASE t = s
      <4>1. PICK d \in Diff(g) : d[2] = p
        BY <2>1, <2>3, <3>1, <3>2
      <4>2. <<s, d>> \in alerts'
        BY <2>1
      <4> QED BY <3>2, <4>1, <4>2
    <3>3. CASE t # s
      BY <2>1, <2>3, <3>1, <3>3 DEF ChangesTold
    <3> QED BY <3>2, <3>3
  <2> QED BY <2>3 DEF ChangesTold
<1>3. ASSUME ActiveRuns = {}, NEW g \in Runs, NEW s \in SnapshotNumbers, ScanInserts(g, s)
      PROVE  ChangesTold'
  <2>1. /\ row[s] = "absent" /\ row' = [row EXCEPT ![s] = "present"] /\ alerts' = alerts
        /\ enr' = [enr EXCEPT ![s] = PendingPayload]
    BY <1>3 DEF ScanInserts, Insert, StartRun
  <2>2. /\ \A t \in SnapshotNumbers \ {s} : row'[t] = row[t] /\ enr'[t] = enr[t]
        /\ \A p \in Providers : enr'[s].block[p] \notin AnswerValues
    BY <2>1, ReservedAssumption DEF RunsShape, PendingPayload, NoAnswers
  <2>3. ASSUME NEW t \in SnapshotNumbers, t # s, row[t] = "present" PROVE Before(t)' = Before(t)
    <3>1. t # 1 => t - 1 \in SnapshotNumbers /\ row[t - 1] = "present"
      BY <2>3, BoundAssumption DEF OneRun, SnapshotNumbers
    <3> QED BY <2>1, <2>2, <3>1 DEF Before
  <2> QED BY <2>1, <2>2, <2>3 DEF ChangesTold
<1> QED
  BY <1>1, <1>2, <1>3, UndisturbedSteps
     DEF RunStep, Load, LoadPrevious, Query, Rescan, StartRun, ProcessDies, store, enrichmentVars

LEMMA EnrichmentStep == EnrichmentInv /\ [EnrichmentNext]_enrichmentVars => EnrichmentInv'
<1> SUFFICES ASSUME EnrichmentInv, [EnrichmentNext]_enrichmentVars PROVE EnrichmentInv'
  OBVIOUS
<1>1. RunsShape' /\ env' = env
  BY ShapeKept DEF EnrichmentInv
<1>2. Undisturbed' = Undisturbed
  BY <1>1 DEF Undisturbed
<1>3. Undisturbed => OneRun' /\ ComparesBefore' /\ ChangesTold'
  BY OneRunKept, ComparesBeforeKept, ChangesToldKept DEF EnrichmentInv
<1> QED
  BY <1>1, <1>2, <1>3 DEF EnrichmentInv

(* As long as runs do not overlap and nothing is deleted or refused, the   *)
(* differences are those with the snapshot before, whether a scan brought  *)
(* a new snapshot or not (worker.go, loadPreviousEnrichment).              *)
THEOREM DifferencesAreWithPrevious == EnrichmentSpec => ComparesWithPrevious
<1>1. ASSUME EnrichmentInv, [EnrichmentNext]_enrichmentVars, Undisturbed,
             NEW g \in Runs, pc[g] = "previous", pc'[g] = "query"
      PROVE  prev'[g] = Before(snap[g])
  <2>1. RunsShape /\ OneRun /\ g \in ActiveRuns
    BY <1>1 DEF EnrichmentInv, ActiveRuns
  <2>2. LoadPrevious(g)
    <3>1. ASSUME NEW h \in Runs, RunStep(h) PROVE LoadPrevious(g)
      <4>1. h = g
        BY <1>1, <2>1, <3>1, RunStepEffect
      <4> QED BY <1>1, <3>1, <4>1 DEF RunStep, Load, Query, Store
    <3>2. ActiveRuns # {}
      BY <2>1
    <3>3. ~ ProcessDies
      BY <1>1, <2>1 DEF ProcessDies
    <3>4. ~ UNCHANGED enrichmentVars
      BY <1>1 DEF enrichmentVars
    <3> QED BY <1>1, <2>1, <3>1, <3>2, <3>3, <3>4, UndisturbedSteps
  <2>3. prev'[g] = Previous(snap[g])
    BY <1>1, <2>1, <2>2 DEF LoadPrevious, Undisturbed, RunsShape
  <2> QED BY <2>1, <2>3, PreviousIsBefore DEF OneRun
<1>2. EnrichmentInv /\ [EnrichmentNext]_enrichmentVars =>
        [Undisturbed =>
           \A g \in Runs : pc[g] = "previous" /\ pc'[g] = "query"
              => prev'[g] = Before(snap[g])]_enrichmentVars
  BY <1>1
<1> QED
  BY <1>2, EnrichmentStart, EnrichmentStep, PTL DEF EnrichmentSpec, ComparesWithPrevious

(* Under the same condition the webhooks are told of a provider only when  *)
(* its answer is not what the snapshot before has, and a scan that gets    *)
(* the answer its snapshot has already can only repeat what they were told *)
(* of it (worker.go, EnrichSnapshot, and diff.go, DiffEnrichment).         *)
THEOREM AlertsMeanChange == EnrichmentSpec => AlertsOnlyOnChange
<1> DEFINE Meant(a) ==
      /\ enr'[a[1]].block[a[2][2]] # Before(a[1]).block[a[2][2]]
      /\ enr'[a[1]].block[a[2][2]] = enr[a[1]].block[a[2][2]]
           => \E b \in alerts : b[1] = a[1] /\ b[2][2] = a[2][2]
<1>1. ASSUME EnrichmentInv, [EnrichmentNext]_enrichmentVars, Undisturbed, NEW a \in alerts' \ alerts
      PROVE  Meant(a)
  <2>1. RunsShape /\ OneRun /\ ComparesBefore /\ ChangesTold
    BY <1>1 DEF EnrichmentInv
  <2>2. PICK g \in Runs : Store(g)
    BY <1>1, <2>1, UndisturbedSteps DEF RunStep, Load, LoadPrevious, Query, ScanInserts, Rescan, StartRun,
                                       ProcessDies, enrichmentVars
  <2> DEFINE s == snap[g]
  <2>3. /\ s \in SnapshotNumbers /\ row[s] = "present" /\ enr'[s].block = cur[g]
        /\ alerts' = alerts \cup ({s} \X Diff(g))
        /\ \A d \in Diff(g) : /\ d[2] \in Providers /\ cur[g][d[2]] \in AnswerValues
                              /\ Before(s).block[d[2]] # cur[g][d[2]]
    BY <1>1, <2>1, <2>2, StoreAnnounces
  <2>4. PICK d \in Diff(g) : a = <<s, d>>
    BY <1>1, <2>3
  <2>5. a[1] = s /\ a[2][2] = d[2]
    BY <2>4
  <2>6. ASSUME enr'[s].block[d[2]] = enr[s].block[d[2]]
        PROVE  \E b \in alerts : b[1] = s /\ b[2][2] = d[2]
    BY <2>1, <2>3, <2>6 DEF ChangesTold
  <2> QED BY <2>3, <2>5, <2>6
<1>2. EnrichmentInv /\ [EnrichmentNext]_enrichmentVars =>
        [Undisturbed =>
           \A a \in alerts' \ alerts :
              LET s == a[1]  p == a[2][2]
              IN  /\ enr'[s].block[p] # Before(s).block[p]
                  /\ enr'[s].block[p] = enr[s].block[p] => \E b \in alerts : b[1] = s /\ b[2][2] = p
        ]_enrichmentVars
  BY <1>1
<1> QED
  BY <1>2, EnrichmentStart, EnrichmentStep, PTL DEF EnrichmentSpec, AlertsOnlyOnChange

(* The entries are of runs that ended and enriched the snapshot s, and at  *)
(* most one is of a run and a provider.                                    *)
OfRuns(entries, s) ==
    /\ \A e \in entries : e[1] \in Runs /\ pc[e[1]] = "done" /\ snap[e[1]] = s
    /\ \A e, f \in entries : e[1] = f[1] /\ e[2] = f[2] => e = f

Announced(s) == {e \in Entries : <<s, e>> \in alerts}

(* The two places where a run leaves what it found different: the details  *)
(* of its snapshot, and the webhooks.                                      *)
ToldOnce == \A s \in SnapshotNumbers : OfRuns(details[s], s) /\ OfRuns(Announced(s), s)

(* What a run has read of its snapshot's details is of earlier runs, and a *)
(* snapshot that is not there yet has no enrichment.                       *)
HistoryInv ==
    /\ RunsShape
    /\ snap \in [Runs -> 0 .. MaxSnapshots] /\ DOMAIN details = SnapshotNumbers /\ DOMAIN seenDetails = Runs
    /\ \A g \in Runs : pc[g] \notin {"off", "done"} => snap[g] \in SnapshotNumbers
    /\ \A g \in Runs : pc[g] \in {"previous", "query", "store"} => OfRuns(seenDetails[g], snap[g])
    /\ \A s \in SnapshotNumbers : row[s] = "absent" => enr[s].status = "none"
    /\ ToldOnce

(* Entries stay those of ended runs, as a run that ended does nothing more.*)
LEMMA OfRunsStays ==
    ASSUME NEW entries, NEW s, OfRuns(entries, s),
           \A g \in Runs : pc[g] = "done" => pc'[g] = "done" /\ snap'[g] = snap[g]
    PROVE  /\ \A e \in entries : e[1] \in Runs /\ pc'[e[1]] = "done" /\ snap'[e[1]] = s
           /\ \A e, f \in entries : e[1] = f[1] /\ e[2] = f[2] => e = f
  BY DEF OfRuns

LEMMA EndedStays ==
    ASSUME HistoryInv, [EnrichmentNext]_enrichmentVars, NEW g \in Runs, pc[g] = "done"
    PROVE  pc'[g] = "done" /\ snap'[g] = snap[g]
<1>1. CASE UNCHANGED enrichmentVars \/ Finished
  BY <1>1 DEF enrichmentVars, Finished
<1>2. ASSUME NEW h \in Runs, RunStep(h) \/ Fails(h) PROVE pc'[g] = "done" /\ snap'[g] = snap[g]
  <2>1. pc[h] # "done" /\ snap' = snap /\ \E l : pc' = [pc EXCEPT ![h] = l]
    BY <1>2 DEF RunStep, Load, LoadPrevious, Query, Store, Fails, Goto
  <2> QED BY <2>1 DEF HistoryInv, RunsShape
<1>3. ASSUME NEW h \in Runs, Rescan(h) \/ \E s \in SnapshotNumbers : ScanInserts(h, s)
      PROVE  pc'[g] = "done" /\ snap'[g] = snap[g]
  <2>1. PICK s : StartRun(h, s)
    BY <1>3 DEF Rescan, ScanInserts
  <2> QED BY <2>1 DEF StartRun, HistoryInv, RunsShape
<1>4. ASSUME NEW s \in SnapshotNumbers, ScanInsertsOnly(s) \/ Delete(s)
      PROVE  pc'[g] = "done" /\ snap'[g] = snap[g]
  BY <1>4 DEF ScanInsertsOnly, Delete
<1>5. CASE ProcessDies
  BY <1>5 DEF ProcessDies, ActiveRuns
<1> QED BY <1>1, <1>2, <1>3, <1>4, <1>5 DEF EnrichmentNext

(* What a run finds different is at most one thing of a provider.          *)
LEMMA DiffOnce ==
    ASSUME NEW g
    PROVE  /\ \A e \in Diff(g) : /\ e[1] = g /\ e[2] \in Providers
                                 /\ e = <<e[1], e[2], e[3]>> /\ e[3] \in {"added", "changed"}
           /\ \A e, f \in Diff(g) : e[2] = f[2] => e = f
  BY DEF Diff, DiffEnrichment

LEMMA StartedKeeps ==
    ASSUME HistoryInv, [EnrichmentNext]_enrichmentVars,
           NEW g \in Runs, NEW s \in SnapshotNumbers, StartRun(g, s),
           UNCHANGED details,
           \A t \in SnapshotNumbers : row'[t] = "absent" => enr'[t].status = "none"
    PROVE  HistoryInv'
<1>1. RunsShape'
  BY ShapeKept DEF HistoryInv
<1>2. /\ pc[g] = "off" /\ pc' = [pc EXCEPT ![g] = "load"] /\ snap' = [snap EXCEPT ![g] = s]
      /\ seenDetails' = seenDetails /\ alerts' = alerts
  BY DEF StartRun
<1>3. snap' \in [Runs -> 0 .. MaxSnapshots]
  BY <1>2, BoundAssumption DEF HistoryInv, SnapshotNumbers
<1>4. \A h \in Runs : pc'[h] \notin {"off", "done"} => snap'[h] \in SnapshotNumbers
  BY <1>2 DEF HistoryInv, RunsShape
<1>5. ASSUME NEW h \in Runs, pc'[h] \in {"previous", "query", "store"}
      PROVE  OfRuns(seenDetails[h], snap[h])'
  <2>1. h # g /\ pc'[h] = pc[h] /\ snap'[h] = snap[h]
    BY <1>2, <1>5 DEF HistoryInv, RunsShape
  <2>2. OfRuns(seenDetails[h], snap[h])
    BY <1>5, <2>1 DEF HistoryInv
  <2> QED BY <1>2, <2>1, <2>2, EndedStays, OfRunsStays DEF OfRuns
<1>6. ASSUME NEW t \in SnapshotNumbers PROVE OfRuns(details[t], t)' /\ OfRuns(Announced(t), t)'
  <2>1. OfRuns(details[t], t) /\ OfRuns(Announced(t), t) /\ Announced(t)' = Announced(t)
    BY <1>2 DEF HistoryInv, ToldOnce, Announced
  <2> QED BY <2>1, EndedStays, OfRunsStays DEF OfRuns
<1> QED
  BY <1>1, <1>2, <1>3, <1>4, <1>5, <1>6 DEF HistoryInv, ToldOnce

(* What is there already and what this run adds.                           *)
LEMMA AddedOnce ==
    ASSUME NEW g \in Runs, NEW s, NEW entries, OfRuns(entries, s), pc[g] # "done", snap[g] = s
    PROVE  /\ \A e \in entries \cup Diff(g) : e[1] = g \/ (e[1] \in Runs /\ pc[e[1]] = "done" /\ snap[e[1]] = s)
           /\ \A e, f \in entries \cup Diff(g) : e[1] = f[1] /\ e[2] = f[2] => e = f
<1>1. \A e \in entries : e[1] # g
  BY DEF OfRuns
<1>2. \A e \in Diff(g) : e[1] = g
  BY DiffOnce
<1>3. \A e, f \in Diff(g) : e[2] = f[2] => e = f
  BY DiffOnce
<1>4. \A e, f \in entries : e[1] = f[1] /\ e[2] = f[2] => e = f
  BY DEF OfRuns
<1>5. \A e \in entries : e[1] \in Runs /\ pc[e[1]] = "done" /\ snap[e[1]] = s
  BY DEF OfRuns
<1> DEFINE added == Diff(g)
<1> HIDE DEF added
<1>6. ASSUME NEW e \in entries \cup added, NEW f \in entries \cup added, e[1] = f[1], e[2] = f[2]
      PROVE  e = f
  BY <1>1, <1>2, <1>3, <1>4, <1>6 DEF added
<1> QED BY <1>2, <1>5, <1>6 DEF added

LEMMA StoreKeepsHistory ==
    ASSUME HistoryInv, [EnrichmentNext]_enrichmentVars, NEW g \in Runs, Store(g)
    PROVE  HistoryInv'
<1> DEFINE s == snap[g]
<1>1. /\ pc[g] = "store" /\ pc' = [pc EXCEPT ![g] = "done"] /\ s \in SnapshotNumbers
      /\ UNCHANGED <<row, snap, seenDetails>> /\ alerts' = alerts \cup ({s} \X Diff(g))
  BY DEF Store, Goto, HistoryInv
<1>2. \/ /\ row[s] = "present"
         /\ enr' = [enr EXCEPT ![s] = [status |-> StatusOf(cur[g]), block |-> cur[g]]]
         /\ details' = [details EXCEPT ![s] = seenDetails[g] \cup Diff(g)]
      \/ UNCHANGED <<enr, details>>
  BY DEF Store
<1>3. RunsShape'
  BY ShapeKept DEF HistoryInv
<1> HIDE DEF s
<1>4. /\ snap' \in [Runs -> 0 .. MaxSnapshots] /\ DOMAIN details' = SnapshotNumbers
      /\ DOMAIN seenDetails' = Runs
      /\ \A h \in Runs : pc'[h] \notin {"off", "done"} => snap'[h] \in SnapshotNumbers
      /\ \A t \in SnapshotNumbers : row'[t] = "absent" => enr'[t].status = "none"
  BY <1>1, <1>2 DEF HistoryInv, RunsShape
<1>5. pc'[g] = "done" /\ \A h \in Runs \ {g} : pc'[h] = pc[h]
  BY <1>1 DEF HistoryInv, RunsShape
<1>6. ASSUME NEW h \in Runs, pc'[h] \in {"previous", "query", "store"}
      PROVE  OfRuns(seenDetails[h], snap[h])'
  <2>1. OfRuns(seenDetails[h], snap[h])
    BY <1>5, <1>6 DEF HistoryInv
  <2> QED BY <1>1, <2>1, EndedStays, OfRunsStays DEF OfRuns
<1>7. ASSUME NEW entries, OfRuns(entries, s), NEW both, both \subseteq entries \cup Diff(g)
      PROVE  /\ \A e \in both : e[1] \in Runs /\ pc'[e[1]] = "done" /\ snap'[e[1]] = s
             /\ \A e, f \in both : e[1] = f[1] /\ e[2] = f[2] => e = f
  <2>1. pc[g] # "done" /\ snap[g] = s
    BY <1>1 DEF s
  <2>2. /\ \A e \in both : e[1] = g \/ (e[1] \in Runs /\ pc[e[1]] = "done" /\ snap[e[1]] = s)
        /\ \A e, f \in both : e[1] = f[1] /\ e[2] = f[2] => e = f
    BY <1>7, <2>1, AddedOnce
  <2> QED BY <1>1, <1>5, <2>1, <2>2, EndedStays
<1>8. ASSUME NEW t \in SnapshotNumbers PROVE OfRuns(details[t], t)'
  <2>1. CASE details'[t] = details[t]
    <3>1. OfRuns(details[t], t)
      BY DEF HistoryInv, ToldOnce
    <3> QED BY <2>1, <3>1, EndedStays, OfRunsStays DEF OfRuns
  <2>2. CASE t = s /\ details'[t] = seenDetails[g] \cup Diff(g)
    <3>1. OfRuns(seenDetails[g], s)
      BY <1>1 DEF HistoryInv, s
    <3>2. /\ \A e \in details'[t] : e[1] \in Runs /\ pc'[e[1]] = "done" /\ snap'[e[1]] = t
          /\ \A e, f \in details'[t] : e[1] = f[1] /\ e[2] = f[2] => e = f
      BY <1>7, <2>2, <3>1
    <3> QED BY <3>2 DEF OfRuns
  <2>3. details'[t] = details[t] \/ (t = s /\ details'[t] = seenDetails[g] \cup Diff(g))
    <3>1. details' = [details EXCEPT ![s] = seenDetails[g] \cup Diff(g)] \/ details' = details
      BY <1>2
    <3>2. t \in DOMAIN details
      BY DEF HistoryInv
    <3> QED BY <3>1, <3>2
  <2> QED BY <2>1, <2>2, <2>3
<1>9. ASSUME NEW t \in SnapshotNumbers PROVE OfRuns(Announced(t), t)'
  <2>1. OfRuns(Announced(t), t)
    BY DEF HistoryInv, ToldOnce
  <2>2. CASE t = s
    <3>1. Announced(t)' \subseteq Announced(t) \cup Diff(g)
      BY <1>1 DEF Announced
    <3>2. /\ \A e \in Announced(t)' : e[1] \in Runs /\ pc'[e[1]] = "done" /\ snap'[e[1]] = t
          /\ \A e, f \in Announced(t)' : e[1] = f[1] /\ e[2] = f[2] => e = f
      BY <1>7, <2>1, <2>2, <3>1
    <3> QED BY <3>2 DEF OfRuns
  <2>3. CASE t # s
    <3>1. Announced(t)' = Announced(t)
      BY <1>1, <2>3 DEF Announced
    <3> QED BY <2>1, <3>1, EndedStays, OfRunsStays DEF OfRuns
  <2> QED BY <2>2, <2>3
<1> QED
  BY <1>3, <1>4, <1>6, <1>8, <1>9 DEF HistoryInv, ToldOnce

(* Steps that write neither details nor alerts.                            *)
LEMMA QuietKeeps ==
    ASSUME HistoryInv, [EnrichmentNext]_enrichmentVars,
           UNCHANGED <<details, alerts, snap>>,
           DOMAIN seenDetails' = Runs,
           \A g \in Runs : pc'[g] = "off" <=> pc[g] = "off",
           \A g \in Runs : pc'[g] \notin {"done", pc[g]} /\ pc[g] = "load"
                             => seenDetails'[g] = details[snap[g]],
           \A g \in Runs : pc'[g] \in {"previous", "query", "store"}
                             => \/ pc[g] = "load" /\ pc'[g] # pc[g]
                                \/ pc[g] \in {"previous", "query", "store"} /\ seenDetails'[g] = seenDetails[g],
           \A g \in Runs : pc[g] = "done" => pc'[g] = "done",
           \A s \in SnapshotNumbers : row'[s] = "absent" => enr'[s].status = "none"
    PROVE  HistoryInv'
<1>1. RunsShape'
  BY ShapeKept DEF HistoryInv
<1>2. \A g \in Runs : pc'[g] \notin {"off", "done"} => snap'[g] \in SnapshotNumbers
  BY DEF HistoryInv
<1>3. ASSUME NEW g \in Runs, pc'[g] \in {"previous", "query", "store"}
      PROVE  OfRuns(seenDetails[g], snap[g])'
  <2>1. OfRuns(seenDetails'[g], snap[g])
    <3>1. CASE pc[g] = "load" /\ pc'[g] # pc[g]
      BY <1>3, <3>1 DEF HistoryInv, ToldOnce
    <3>2. CASE pc[g] \in {"previous", "query", "store"} /\ seenDetails'[g] = seenDetails[g]
      BY <3>2 DEF HistoryInv
    <3> QED BY <1>3, <3>1, <3>2
  <2> QED BY <2>1, EndedStays, OfRunsStays DEF OfRuns
<1>4. ASSUME NEW t \in SnapshotNumbers PROVE OfRuns(details[t], t)' /\ OfRuns(Announced(t), t)'
  <2>1. OfRuns(details[t], t) /\ OfRuns(Announced(t), t) /\ Announced(t)' = Announced(t)
    BY DEF HistoryInv, ToldOnce, Announced
  <2> QED BY <2>1, EndedStays, OfRunsStays DEF OfRuns
<1> QED
  BY <1>1, <1>2, <1>3, <1>4 DEF HistoryInv, ToldOnce

(* Of the snapshots that are there one is the newest.                      *)
LEMMA NewestThere == ASSUME Present # {} PROVE Max(Present) \in Present
<1> DEFINE below == {MaxSnapshots - x : x \in Present}
<1>1. Present \subseteq 1 .. MaxSnapshots /\ MaxSnapshots \in Nat
  BY BoundAssumption DEF Present, SnapshotNumbers
<1>2. below \subseteq Nat /\ below # {}
  <2>1. \A x \in Present : MaxSnapshots - x \in Nat
    BY <1>1
  <2>2. PICK x : x \in Present
    OBVIOUS
  <2> QED BY <2>1, <2>2
<1>3. PICK n \in below : \A m \in below : ~ (<<m, n>> \in OpToRel(<, Nat))
  <2> HIDE DEF below
  <2> QED BY <1>2, NatLessThanWellFounded, WFMin
<1>4. \A m \in below : ~ (m < n)
  BY <1>2, <1>3 DEF OpToRel
<1>5. PICK x \in Present : n = MaxSnapshots - x
  BY <1>3
<1>6. \A y \in Present : x >= y
  BY <1>1, <1>4, <1>5
<1> QED BY <1>6 DEF Max

LEMMA HistoryStep == HistoryInv /\ [EnrichmentNext]_enrichmentVars => HistoryInv'
<1> SUFFICES ASSUME HistoryInv, [EnrichmentNext]_enrichmentVars PROVE HistoryInv'
  OBVIOUS
<1>1. ASSUME NEW g \in Runs, Load(g) PROVE HistoryInv'
  <2>1. /\ UNCHANGED <<row, enr, details, alerts, snap>> /\ pc[g] = "load"
        /\ \/ /\ seenDetails' = [seenDetails EXCEPT ![g] = details[snap[g]]]
              /\ pc' = [pc EXCEPT ![g] = "previous"]
           \/ seenDetails' = seenDetails /\ pc' = [pc EXCEPT ![g] = "done"]
    BY <1>1 DEF Load, Goto, store
  <2> QED BY <2>1, QuietKeeps DEF HistoryInv, RunsShape
<1>2. ASSUME NEW g \in Runs, LoadPrevious(g) \/ Query(g) \/ Fails(g) PROVE HistoryInv'
  <2>1. /\ UNCHANGED <<row, enr, details, alerts, snap, seenDetails>>
        /\ \/ pc[g] = "previous" /\ pc' = [pc EXCEPT ![g] = "query"]
           \/ pc[g] = "query" /\ pc' = [pc EXCEPT ![g] = "store"]
           \/ pc[g] \in {"load", "store"} /\ pc' = [pc EXCEPT ![g] = "done"]
    BY <1>2 DEF LoadPrevious, Query, Fails, Goto, store
  <2> QED BY <2>1, QuietKeeps DEF HistoryInv, RunsShape
<1>3. ASSUME NEW g \in Runs, NEW s \in SnapshotNumbers, ScanInserts(g, s) PROVE HistoryInv'
  <2>1. /\ StartRun(g, s) /\ UNCHANGED details
        /\ row' = [row EXCEPT ![s] = "present"] /\ enr' = [enr EXCEPT ![s] = PendingPayload]
    BY <1>3 DEF ScanInserts, Insert
  <2>2. \A t \in SnapshotNumbers : row'[t] = "absent" => enr'[t].status = "none"
    BY <2>1 DEF HistoryInv, RunsShape
  <2> QED BY <2>1, <2>2, StartedKeeps
<1>4. ASSUME NEW g \in Runs, Rescan(g) PROVE HistoryInv'
  <2>1. /\ StartRun(g, Max(Present)) /\ Present # {} /\ UNCHANGED <<row, enr, details>>
    BY <1>4 DEF Rescan, store
  <2>2. Max(Present) \in SnapshotNumbers
    BY <2>1, NewestThere DEF Present
  <2>3. \A t \in SnapshotNumbers : row'[t] = "absent" => enr'[t].status = "none"
    BY <2>1 DEF HistoryInv
  <2> QED BY <2>1, <2>2, <2>3, StartedKeeps
<1>5. ASSUME NEW s \in SnapshotNumbers, ScanInsertsOnly(s) \/ Delete(s) PROVE HistoryInv'
  <2>1. UNCHANGED <<details, alerts, snap, seenDetails, pc>>
    BY <1>5 DEF ScanInsertsOnly, Delete, Insert
  <2>2. \A t \in SnapshotNumbers : row'[t] = "absent" => enr'[t].status = "none"
    BY <1>5 DEF ScanInsertsOnly, Delete, Insert, HistoryInv, RunsShape
  <2> QED BY <2>1, <2>2, QuietKeeps DEF HistoryInv
<1>6. CASE ProcessDies
  <2>1. /\ UNCHANGED <<row, enr, details, alerts, snap, seenDetails>>
        /\ pc' = [g \in Runs |-> IF g \in ActiveRuns THEN "done" ELSE pc[g]]
    BY <1>6 DEF ProcessDies, store
  <2> QED BY <2>1, QuietKeeps DEF HistoryInv, ActiveRuns
<1>7. CASE UNCHANGED enrichmentVars \/ Finished
  <2>1. UNCHANGED <<row, enr, details, alerts, snap, seenDetails, pc>>
    BY <1>7 DEF Finished, enrichmentVars, store
  <2> QED BY <2>1, QuietKeeps DEF HistoryInv
<1>8. ASSUME NEW g \in Runs, Store(g) PROVE HistoryInv'
  BY <1>8, StoreKeepsHistory
<1> QED
  BY <1>1, <1>2, <1>3, <1>4, <1>5, <1>6, <1>7, <1>8 DEF EnrichmentNext, RunStep

LEMMA HistoryHolds == EnrichmentSpec => []HistoryInv
<1>1. EnrichmentInit => HistoryInv
  <2> SUFFICES ASSUME EnrichmentInit PROVE HistoryInv
    OBVIOUS
  <2>1. /\ RunsShape /\ snap \in [Runs -> 0 .. MaxSnapshots]
        /\ DOMAIN details = SnapshotNumbers /\ DOMAIN seenDetails = Runs
    BY BoundAssumption DEF EnrichmentInit, RunsShape
  <2>2. \A s \in SnapshotNumbers : enr[s].status = "none"
    BY DEF EnrichmentInit, NoPayload
  <2>3. \A s \in SnapshotNumbers : details[s] = {} /\ Announced(s) = {}
    BY DEF EnrichmentInit, Announced
  <2>4. ToldOnce
    BY <2>3 DEF ToldOnce, OfRuns
  <2> QED BY <2>1, <2>2, <2>4 DEF HistoryInv, EnrichmentInit
<1> QED
  BY <1>1, HistoryStep, PTL DEF EnrichmentSpec

(* An enrichment that has ended does not begin anew.                       *)
Ended == {"completed", "partial"}
EndedStaysEnded ==
    [][\A s \in SnapshotNumbers : enr[s].status \in Ended => enr'[s].status \in Ended]_enrichmentVars

(* However many runs enrich a host at the same time, are cut off by a      *)
(* crash or find their snapshot deleted: each tells the webhooks at most   *)
(* one thing of each provider and only of the snapshot it was started for, *)
(* and what it reads and writes back of change_details is of ended runs of *)
(* that snapshot (worker.go, EnrichSnapshot; HIBP breaches, which come     *)
(* with such an entry, apart).                                             *)
THEOREM RunsTellOnce == EnrichmentSpec => []ToldOnce
<1>1. HistoryInv => ToldOnce
  BY DEF HistoryInv
<1> QED BY <1>1, HistoryHolds, PTL

(* No run, whatever others do meanwhile, takes an enrichment that was      *)
(* completed back to pending (storeSnapshot, and the UPDATE by id at the   *)
(* end of EnrichSnapshot).                                                 *)
THEOREM EndedEnrichmentsStay == EnrichmentSpec => EndedStaysEnded
<1>1. ASSUME HistoryInv, [EnrichmentNext]_enrichmentVars,
             NEW s \in SnapshotNumbers, enr[s].status \in Ended
      PROVE  enr'[s].status \in Ended
  <2>1. row[s] # "absent" /\ s \in DOMAIN enr
    BY <1>1 DEF HistoryInv, RunsShape, Ended
  <2>2. ASSUME NEW t \in SnapshotNumbers, Insert(t) PROVE enr'[s].status \in Ended
    <3>1. t # s /\ enr' = [enr EXCEPT ![t] = PendingPayload]
      BY <2>1, <2>2 DEF Insert
    <3> QED BY <1>1, <2>1, <3>1
  <2>3. ASSUME NEW g \in Runs, Store(g) PROVE enr'[s].status \in Ended
    <3>1. enr' = enr \/ enr' = [enr EXCEPT ![snap[g]] = [status |-> StatusOf(cur[g]), block |-> cur[g]]]
      BY <2>3 DEF Store
    <3>2. StatusOf(cur[g]) \in Ended
      BY DEF StatusOf, Ended
    <3> QED BY <1>1, <2>1, <3>1, <3>2
  <2>4. \/ enr' = enr
        \/ \E t \in SnapshotNumbers : Insert(t)
        \/ \E g \in Runs : Store(g)
    BY <1>1 DEF EnrichmentNext, RunStep, Load, LoadPrevious, Query, Fails, Rescan, ScanInserts,
                ScanInsertsOnly, Delete, ProcessDies, Finished, enrichmentVars, store
  <2> QED BY <1>1, <2>2, <2>3, <2>4
<1>2. HistoryInv /\ [EnrichmentNext]_enrichmentVars =>
        [\A s \in SnapshotNumbers : enr[s].status \in Ended => enr'[s].status \in Ended]_enrichmentVars
  BY <1>1
<1> QED
  BY <1>2, HistoryHolds, PTL DEF EnrichmentSpec, EndedStaysEnded

-----------------------------------------------------------------------------
(***************************************************************************)
(* Export and import, for any two installations and any changes of the     *)
(* one that is exported.                                                   *)
(***************************************************************************)
(* What is exported and what was read hold rows of the sources, and no two *)
(* for one host or of one name; until something changes, what was read is  *)
(* what is there.                                                          *)
Carried(snapshots) ==
    \A s \in DOMAIN snapshots :
        \E db \in Sources \cup Later : s \in DOMAIN db.snapshots /\ db.snapshots[s] = snapshots[s]

Unambiguous(db) ==
    /\ \A t, u \in db.targets : HostOf[t] = HostOf[u] => t = u
    /\ \A c, d \in DOMAIN db.collections : db.collections[c] = db.collections[d] => c = d
    /\ \A v, w \in DOMAIN db.views : db.views[v].name = db.views[w].name => v = w

TransferInv ==
    /\ Database(src) /\ Allowed(src) /\ Carried(src.snapshots)
    /\ Database(bundle) /\ Unambiguous(bundle) /\ Carried(bundle.snapshots)
    /\ was \in Destinations /\ conflict \in {"skip", "overwrite"}
    /\ step \in 1 .. 9 /\ changes \in Nat
    /\ result = "none" => dst = was
    /\ result # "none" => step = 9
    /\ changes = 0 => /\ src \in Sources
                      /\ \A i \in 1 .. step - 1 : bundle[Tables[i]] = src[Tables[i]]

LEMMA TablesAre ==
    /\ DOMAIN Tables = 1 .. 8 /\ Len(Tables) = 8
    /\ Tables[1] = "targets" /\ Tables[2] = "snapshots" /\ Tables[3] = "blobs"
    /\ Tables[4] = "collections" /\ Tables[5] = "members" /\ Tables[6] = "notes"
    /\ Tables[7] = "views" /\ Tables[8] = "config"
  BY DEF Tables

LEMMA BlankShape == Database(Blank) /\ Unambiguous(Blank) /\ Carried(Blank.snapshots)
<1>1. DOMAIN NoRows = {} /\ NoRows = [x \in DOMAIN NoRows |-> NoRows[x]]
  BY DEF NoRows
<1>2. Blank.targets = {} /\ Blank.snapshots = NoRows /\ Blank.collections = NoRows /\ Blank.members = {}
      /\ Blank.notes = NoRows /\ Blank.views = NoRows
  BY DEF Blank
<1>3. Blank = [k \in DOMAIN Blank |-> Blank[k]]
  BY DEF Blank
<1> QED
  BY <1>1, <1>2, <1>3 DEF Database, Rows, Unambiguous, Carried

LEMMA TransferStart == TransferInit => TransferInv
<1> SUFFICES ASSUME TransferInit PROVE TransferInv
  OBVIOUS
<1>1. Database(src) /\ Allowed(src) /\ Carried(src.snapshots)
  BY TransferAssumption DEF TransferInit, Carried
<1>2. Database(bundle) /\ Unambiguous(bundle) /\ Carried(bundle.snapshots)
  BY BlankShape DEF TransferInit
<1> QED
  BY <1>1, <1>2 DEF TransferInit, TransferInv

(* A table that is read is one of the source.                              *)
LEMMA ReadKeeps == ASSUME TransferInv, ReadTable PROVE TransferInv'
<1> USE TablesAre
<1>1. /\ step \in 1 .. 8 /\ Tables[step] \in DOMAIN Blank
      /\ bundle' = [bundle EXCEPT ![Tables[step]] = src[Tables[step]]]
      /\ DOMAIN bundle = DOMAIN Blank
  BY DEF ReadTable, TransferInv, Blank, Database
<1>2. \A k \in DOMAIN Blank : bundle'[k] = bundle[k] \/ bundle'[k] = src[k]
  BY <1>1
<1>3. bundle' = [k \in DOMAIN Blank |-> bundle'[k]]
  BY <1>1
<1>4. /\ bundle'.targets \in {bundle.targets, src.targets}
      /\ bundle'.snapshots \in {bundle.snapshots, src.snapshots}
      /\ bundle'.collections \in {bundle.collections, src.collections}
      /\ bundle'.members \in {bundle.members, src.members}
      /\ bundle'.notes \in {bundle.notes, src.notes}
      /\ bundle'.views \in {bundle.views, src.views}
  BY <1>2 DEF Blank
<1>5. Database(bundle')
  BY <1>3, <1>4 DEF TransferInv, Database
<1>6. Unambiguous(bundle')
  BY <1>4 DEF TransferInv, Unambiguous, Allowed
<1>7. Carried(bundle'.snapshots)
  BY <1>4 DEF TransferInv
<1>8. ASSUME changes = 0, NEW i \in 1 .. step PROVE bundle'[Tables[i]] = src[Tables[i]]
  BY <1>1, <1>8 DEF TransferInv
<1>9. /\ UNCHANGED <<src, dst, was, result, conflict, changes>>
      /\ step' = step + 1 /\ step' \in 1 .. 9 /\ step' - 1 = step
  BY <1>1 DEF ReadTable
<1>10. Database(src') /\ Allowed(src') /\ Carried(src'.snapshots)
  BY <1>9 DEF TransferInv
<1>11. /\ was' \in Destinations /\ conflict' \in {"skip", "overwrite"} /\ changes' \in Nat
       /\ result' = "none" => dst' = was'
       /\ result' # "none" => step' = 9
  BY <1>1, <1>9 DEF TransferInv
<1>12. changes' = 0 => /\ src' \in Sources
                       /\ \A i \in 1 .. step' - 1 : bundle'[Tables[i]] = src'[Tables[i]]
  BY <1>8, <1>9 DEF TransferInv
<1>13. Carried(bundle.snapshots)' <=> Carried(bundle'.snapshots)
  BY DEF Carried
<1>14. Carried(src.snapshots)' <=> Carried(src'.snapshots)
  BY DEF Carried
<1> QED
  BY <1>5, <1>6, <1>7, <1>9, <1>10, <1>11, <1>12, <1>13, <1>14 DEF TransferInv

LEMMA OverRows ==
    ASSUME NEW f, NEW g
    PROVE  /\ Over(f, g) = [x \in DOMAIN Over(f, g) |-> Over(f, g)[x]]
           /\ DOMAIN Over(f, g) = DOMAIN f \cup DOMAIN g
           /\ \A x \in DOMAIN f : Over(f, g)[x] = f[x]
           /\ \A x \in DOMAIN g \ DOMAIN f : Over(f, g)[x] = g[x]
  BY DEF Over

LEMMA RowsOver ==
    ASSUME NEW f, NEW g, NEW columns, Rows(f, columns), Rows(g, columns)
    PROVE  Rows(Over(f, g), columns)
  BY DEF Over, Rows

(* What a change of the source leaves as it is.                            *)
LEMMA SourceChanges ==
    ASSUME TransferInv, Database(src'), Allowed(src'), Carried(src'.snapshots),
           step \in DOMAIN Tables, changes' = changes + 1,
           UNCHANGED <<dst, was, bundle, step, result, conflict>>
    PROVE  TransferInv'
<1>1. Database(bundle') /\ Unambiguous(bundle') /\ Carried(bundle'.snapshots)
  BY DEF TransferInv
<1>2. changes' \in Nat /\ changes' # 0
  BY DEF TransferInv
<1> QED
  BY <1>1, <1>2 DEF TransferInv, Carried, Unambiguous

(* What is added satisfies the constraints with what is there.             *)
LEMMA StoreKeeps == ASSUME TransferInv, NEW a \in Later, StoreRows(a) PROVE TransferInv'
<1>1. Database(src) /\ Database(a)
  BY TransferAssumption DEF TransferInv
<1>2. /\ src'.snapshots = Over(a.snapshots, src.snapshots)
      /\ src'.collections = Over(a.collections, src.collections)
      /\ src'.notes = Over(a.notes, src.notes)
      /\ src'.views = Over(a.views, src.views)
  BY DEF StoreRows
<1>3. src' = [k \in DOMAIN Blank |-> src'[k]]
  BY DEF StoreRows, Blank
<1>4. Database(src')
  <2>1. src'.collections = [c \in DOMAIN src'.collections |-> src'.collections[c]]
    BY <1>2 DEF Over
  <2>5. \A m \in src'.members : m = <<m[1], m[2]>>
    BY <1>1 DEF StoreRows, Database
  <2>2. Rows(src'.snapshots, {"target", "from"})
    BY <1>1, <1>2, RowsOver DEF Database
  <2>3. Rows(src'.notes, {"target", "snapshot", "collection", "from"})
    BY <1>1, <1>2, RowsOver DEF Database
  <2>4. Rows(src'.views, {"name", "target", "snapshot", "from"})
    BY <1>1, <1>2, RowsOver DEF Database
  <2> QED BY <1>3, <2>1, <2>2, <2>3, <2>4, <2>5 DEF Database
<1>5. Carried(a.snapshots) /\ Carried(src.snapshots)
  BY DEF TransferInv, Carried
<1>6. Carried(src'.snapshots)
  <2>1. ASSUME NEW s \in DOMAIN src'.snapshots
        PROVE  \/ s \in DOMAIN a.snapshots /\ src'.snapshots[s] = a.snapshots[s]
               \/ s \in DOMAIN src.snapshots /\ src'.snapshots[s] = src.snapshots[s]
    BY <1>2, <2>1 DEF Over
  <2> QED BY <1>5, <2>1 DEF Carried
<1> QED
  BY <1>4, <1>6, SourceChanges DEF StoreRows

LEMMA Unlinked ==
    ASSUME NEW r, NEW columns, r = [k \in columns |-> r[k]], {"target", "snapshot"} \subseteq columns,
           NEW targets, NEW snapshots, NEW u,
           u = [r EXCEPT !.target = Unlink(@, targets), !.snapshot = Unlink(@, snapshots)]
    PROVE  /\ u.target = Unlink(r.target, targets)
           /\ u.snapshot = Unlink(r.snapshot, snapshots)
           /\ \A k \in columns \ {"target", "snapshot"} : u[k] = r[k]
           /\ u = [k \in columns |-> u[k]]
  OBVIOUS

LEMMA DeleteKeeps == ASSUME TransferInv, NEW t, DeleteTarget(t) PROVE TransferInv'
<1> DEFINE targets   == src.targets \ {t}
           snapshots == {s \in DOMAIN src.snapshots : src.snapshots[s].target # t}
<1>1. Database(src) /\ Allowed(src)
  BY DEF TransferInv
<1>2. /\ src' = [k \in DOMAIN Blank |-> src'[k]]
      /\ src'.targets = targets
      /\ src'.snapshots = Only(src.snapshots, snapshots)
      /\ src'.blobs = src.blobs \cap snapshots
      /\ src'.collections = src.collections
      /\ src'.members = {m \in src.members : m[2] # t}
      /\ src'.notes = Freed(src.notes, targets, snapshots)
      /\ src'.views = Freed(src.views, targets, snapshots)
  <2>1. src' = [src EXCEPT !.targets = targets,
                           !.snapshots = Only(@, snapshots),
                           !.blobs = @ \cap snapshots,
                           !.members = {m \in @ : m[2] # t},
                           !.notes = Freed(@, targets, snapshots),
                           !.views = Freed(@, targets, snapshots)]
    BY DEF DeleteTarget
  <2> HIDE DEF targets, snapshots
  <2>2. DOMAIN src = {"targets", "snapshots", "blobs", "collections", "members", "notes", "views", "config"}
    BY <1>1 DEF Database, Blank
  <2>3. src' = [k \in DOMAIN Blank |-> src'[k]]
    BY <2>1, <2>2 DEF Blank
  <2>4. src'.targets = targets /\ src'.snapshots = Only(src.snapshots, snapshots)
        /\ src'.blobs = src.blobs \cap snapshots /\ src'.collections = src.collections
        /\ src'.members = {m \in src.members : m[2] # t}
    BY <2>1, <2>2
  <2>5. src'.notes = Freed(src.notes, targets, snapshots)
    BY <2>1, <2>2
  <2>6. src'.views = Freed(src.views, targets, snapshots)
    BY <2>1, <2>2
  <2> QED BY <2>3, <2>4, <2>5, <2>6
<1>3. /\ DOMAIN src'.snapshots = snapshots
      /\ src'.snapshots = [s \in snapshots |-> src.snapshots[s]]
  BY <1>2 DEF Only
<1>4. ASSUME NEW n \in DOMAIN src.notes
      PROVE  /\ src'.notes[n].target = Unlink(src.notes[n].target, targets)
             /\ src'.notes[n].snapshot = Unlink(src.notes[n].snapshot, snapshots)
             /\ src'.notes[n].collection = src.notes[n].collection
             /\ src'.notes[n] = [k \in {"target", "snapshot", "collection", "from"} |-> src'.notes[n][k]]
  <2> DEFINE columns == {"target", "snapshot", "collection", "from"}
  <2>1. src.notes[n] = [k \in columns |-> src.notes[n][k]]
    BY <1>1 DEF Database, Rows
  <2>2. src'.notes[n] = [src.notes[n] EXCEPT !.target = Unlink(@, targets), !.snapshot = Unlink(@, snapshots)]
    BY <1>2 DEF Freed
  <2>3. {"target", "snapshot"} \subseteq columns /\ "collection" \in columns \ {"target", "snapshot"}
    OBVIOUS
  <2> HIDE DEF columns, targets, snapshots
  <2>4. /\ src'.notes[n].target = Unlink(src.notes[n].target, targets)
        /\ src'.notes[n].snapshot = Unlink(src.notes[n].snapshot, snapshots)
        /\ \A k \in columns \ {"target", "snapshot"} : src'.notes[n][k] = src.notes[n][k]
        /\ src'.notes[n] = [k \in columns |-> src'.notes[n][k]]
    BY <2>1, <2>2, <2>3, Unlinked
  <2> QED BY <2>3, <2>4 DEF columns
<1>5. ASSUME NEW v \in DOMAIN src.views
      PROVE  /\ src'.views[v].target = Unlink(src.views[v].target, targets)
             /\ src'.views[v].snapshot = Unlink(src.views[v].snapshot, snapshots)
             /\ src'.views[v].name = src.views[v].name
             /\ src'.views[v] = [k \in {"name", "target", "snapshot", "from"} |-> src'.views[v][k]]
  <2> DEFINE columns == {"name", "target", "snapshot", "from"}
  <2>1. src.views[v] = [k \in columns |-> src.views[v][k]]
    BY <1>1 DEF Database, Rows
  <2>2. src'.views[v] = [src.views[v] EXCEPT !.target = Unlink(@, targets), !.snapshot = Unlink(@, snapshots)]
    BY <1>2 DEF Freed
  <2>3. {"target", "snapshot"} \subseteq columns /\ "name" \in columns \ {"target", "snapshot"}
    OBVIOUS
  <2> HIDE DEF columns, targets, snapshots
  <2>4. /\ src'.views[v].target = Unlink(src.views[v].target, targets)
        /\ src'.views[v].snapshot = Unlink(src.views[v].snapshot, snapshots)
        /\ \A k \in columns \ {"target", "snapshot"} : src'.views[v][k] = src.views[v][k]
        /\ src'.views[v] = [k \in columns |-> src'.views[v][k]]
    BY <2>1, <2>2, <2>3, Unlinked
  <2> QED BY <2>3, <2>4 DEF columns
<1>6. DOMAIN src'.notes = DOMAIN src.notes /\ DOMAIN src'.views = DOMAIN src.views
  BY <1>2 DEF Freed
<1>7. Database(src')
  <2>1. Rows(src'.snapshots, {"target", "from"})
    <3>1. src'.snapshots = [x \in DOMAIN src'.snapshots |-> src'.snapshots[x]]
      BY <1>2 DEF Only
    <3>2. \A x \in DOMAIN src.snapshots : src.snapshots[x] = [k \in {"target", "from"} |-> src.snapshots[x][k]]
      BY <1>1 DEF Database, Rows
    <3> QED BY <1>3, <3>1, <3>2 DEF Rows
  <2>2. Rows(src'.notes, {"target", "snapshot", "collection", "from"})
    <3>1. src'.notes = [x \in DOMAIN src'.notes |-> src'.notes[x]]
      BY <1>2 DEF Freed
    <3> QED BY <1>4, <1>6, <3>1 DEF Rows
  <2>3. Rows(src'.views, {"name", "target", "snapshot", "from"})
    <3>1. src'.views = [x \in DOMAIN src'.views |-> src'.views[x]]
      BY <1>2 DEF Freed
    <3> QED BY <1>5, <1>6, <3>1 DEF Rows
  <2> QED BY <1>1, <1>2, <2>1, <2>2, <2>3 DEF Database
<1>8. Allowed(src')
  <2>1. \A x, y \in src'.targets : HostOf[x] = HostOf[y] => x = y
    BY <1>1, <1>2 DEF Allowed
  <2>2. \A s \in DOMAIN src'.snapshots : src'.snapshots[s].target \in src'.targets
    BY <1>1, <1>2, <1>3 DEF Allowed
  <2>3. src'.blobs \subseteq DOMAIN src'.snapshots
    BY <1>2, <1>3
  <2>4. \A c, d \in DOMAIN src'.collections : src'.collections[c] = src'.collections[d] => c = d
    BY <1>1, <1>2 DEF Allowed
  <2>5. \A m \in src'.members : m[1] \in DOMAIN src'.collections /\ m[2] \in src'.targets
    BY <1>1, <1>2 DEF Allowed
  <2>6. ASSUME NEW n \in DOMAIN src'.notes
        PROVE  /\ src'.notes[n].target \in src'.targets \cup {NoRef}
               /\ src'.notes[n].snapshot \in DOMAIN src'.snapshots \cup {NoRef}
               /\ src'.notes[n].collection \in DOMAIN src'.collections \cup {NoRef}
    BY <1>1, <1>2, <1>3, <1>4, <1>6 DEF Allowed, Unlink
  <2>7. \A v, w \in DOMAIN src'.views : src'.views[v].name = src'.views[w].name => v = w
    BY <1>1, <1>5, <1>6 DEF Allowed
  <2>8. ASSUME NEW v \in DOMAIN src'.views
        PROVE  /\ src'.views[v].target \in src'.targets \cup {NoRef}
               /\ src'.views[v].snapshot \in DOMAIN src'.snapshots \cup {NoRef}
    BY <1>2, <1>3, <1>5, <1>6 DEF Unlink
  <2> QED BY <2>1, <2>2, <2>3, <2>4, <2>5, <2>6, <2>7, <2>8 DEF Allowed
<1>9. Carried(src'.snapshots)
  BY <1>3 DEF TransferInv, Carried
<1> QED
  BY <1>7, <1>8, <1>9, SourceChanges DEF DeleteTarget

LEMMA ImportKeeps == ASSUME TransferInv, ImportBundle PROVE TransferInv'
  BY TablesAre DEF ImportBundle, TransferInv, Carried, Unambiguous

LEMMA TransferStep == TransferInv /\ [TransferNext]_transferVars => TransferInv'
<1> SUFFICES ASSUME TransferInv, [TransferNext]_transferVars PROVE TransferInv'
  OBVIOUS
<1>1. CASE UNCHANGED transferVars
  BY <1>1 DEF transferVars, TransferInv, Carried, Unambiguous
<1> QED
  BY <1>1, ReadKeeps, StoreKeeps, DeleteKeeps, ImportKeeps DEF TransferNext

-----------------------------------------------------------------------------
(* What an import brings about.                                            *)
LEMMA TargetMapped ==
    ASSUME NEW t \in bundle.targets
    PROVE  /\ t \in DOMAIN targetIDMap
           /\ targetIDMap[t] \in importedTargets
           /\ HostOf[targetIDMap[t]] = HostOf[t]
           /\ \/ targetIDMap[t] \in dst.targets
              \/ targetIDMap[t] = t /\ \A o \in dst.targets : HostOf[o] # HostOf[t]
<1>1. CASE \E o \in dst.targets : HostOf[o] = HostOf[t]
  <2> DEFINE o == CHOOSE o \in dst.targets : HostOf[o] = HostOf[t]
  <2>1. o \in dst.targets /\ HostOf[o] = HostOf[t]
    BY <1>1
  <2>2. targetIDMap[t] = o
    BY <1>1 DEF targetIDMap
  <2> HIDE DEF o
  <2> QED BY <2>1, <2>2 DEF importedTargets, targetIDMap
<1>2. CASE \A o \in dst.targets : HostOf[o] # HostOf[t]
  BY <1>2 DEF importedTargets, targetIDMap
<1> QED BY <1>1, <1>2

LEMMA KeptDomain ==
    ASSUME NEW new, NEW old PROVE DOMAIN Keep(new, old) = DOMAIN new \cup DOMAIN old
  BY DEF Keep, Over

LEMMA KeptValue ==
    ASSUME NEW new, NEW old, NEW x \in DOMAIN new \cup DOMAIN old
    PROVE  Keep(new, old)[x] =
               IF x \in DOMAIN new /\ (conflict # "skip" \/ x \notin DOMAIN old) THEN new[x] ELSE old[x]
  BY DEF Keep, Over

(* The rows of the bundle as they are written.                             *)
newSnapshots ==
    [s \in {x \in DOMAIN bundle.snapshots : bundle.snapshots[x].target \in bundle.targets}
        |-> [bundle.snapshots[s] EXCEPT !.target = targetIDMap[@]]]

newNotes ==
    [n \in DOMAIN bundle.notes |->
        [bundle.notes[n] EXCEPT !.target = remap(@, targetIDMap),
                                !.collection = remap(@, collectionIDMap)]]

newViews ==
    [v \in DOMAIN bundle.views |->
        [bundle.views[v] EXCEPT !.target = remap(@, targetIDMap)]]

LEMMA NewRows ==
    /\ importedSnapshots = Keep(newSnapshots, dst.snapshots)
    /\ importedNotes = Keep(newNotes, dst.notes)
    /\ importedViews = Keep(newViews, dst.views)
  BY DEF importedSnapshots, importedNotes, importedViews, newSnapshots, newNotes, newViews, targetIDMap

LEMMA NewFields ==
    ASSUME Database(bundle)
    PROVE  /\ \A s \in DOMAIN newSnapshots :
                newSnapshots[s].target = targetIDMap[bundle.snapshots[s].target]
           /\ \A n \in DOMAIN bundle.notes :
                /\ newNotes[n].target = remap(bundle.notes[n].target, targetIDMap)
                /\ newNotes[n].snapshot = bundle.notes[n].snapshot
                /\ newNotes[n].collection = remap(bundle.notes[n].collection, collectionIDMap)
           /\ \A v \in DOMAIN bundle.views :
                /\ newViews[v].target = remap(bundle.views[v].target, targetIDMap)
                /\ newViews[v].snapshot = bundle.views[v].snapshot
                /\ newViews[v].name = bundle.views[v].name
<1>1. ASSUME NEW s \in DOMAIN newSnapshots
      PROVE  newSnapshots[s].target = targetIDMap[bundle.snapshots[s].target]
  <2>1. s \in DOMAIN bundle.snapshots
    BY DEF newSnapshots
  <2>2. "target" \in DOMAIN bundle.snapshots[s]
    BY <2>1 DEF Database, Rows
  <2> QED BY <2>1, <2>2 DEF newSnapshots
<1>2. ASSUME NEW n \in DOMAIN bundle.notes
      PROVE  /\ newNotes[n].target = remap(bundle.notes[n].target, targetIDMap)
             /\ newNotes[n].snapshot = bundle.notes[n].snapshot
             /\ newNotes[n].collection = remap(bundle.notes[n].collection, collectionIDMap)
  <2>1. DOMAIN bundle.notes[n] = {"target", "snapshot", "collection", "from"}
    BY DEF Database, Rows
  <2> QED BY <2>1 DEF newNotes
<1>3. ASSUME NEW v \in DOMAIN bundle.views
      PROVE  /\ newViews[v].target = remap(bundle.views[v].target, targetIDMap)
             /\ newViews[v].snapshot = bundle.views[v].snapshot
             /\ newViews[v].name = bundle.views[v].name
  <2>1. DOMAIN bundle.views[v] = {"name", "target", "snapshot", "from"}
    BY DEF Database, Rows
  <2> QED BY <2>1 DEF newViews
<1> QED BY <1>1, <1>2, <1>3

LEMMA Imports ==
    ASSUME TransferInv, ImportBundle, result' = "imported"
    PROVE  /\ dst = was /\ Database(dst) /\ Allowed(dst)
           /\ dst'.targets = importedTargets /\ dst'.snapshots = importedSnapshots
           /\ dst'.blobs = importedBlobs /\ dst'.collections = importedCollections
           /\ dst'.members = importedMembers /\ dst'.notes = importedNotes
           /\ dst'.views = importedViews
  BY TransferAssumption DEF TransferInv, ImportBundle, imported

LEMMA SnapshotsArrive == ASSUME TransferInv, ImportBundle PROVE SnapshotsFollow'
<1> SUFFICES ASSUME result' = "imported", NEW s \in DOMAIN bundle.snapshots,
                    bundle.snapshots[s].target \in bundle.targets
             PROVE  /\ s \in DOMAIN dst'.snapshots
                    /\ HostOf[dst'.snapshots[s].target] = HostOf[bundle.snapshots[s].target]
  BY DEF SnapshotsFollow, ImportBundle
<1>1. dst'.snapshots = Keep(newSnapshots, dst.snapshots)
  BY Imports, NewRows
<1>2. s \in DOMAIN newSnapshots
  BY DEF newSnapshots
<1>3. HostOf[newSnapshots[s].target] = HostOf[bundle.snapshots[s].target]
  BY <1>2, NewFields, TargetMapped DEF TransferInv
<1>4. ASSUME s \in DOMAIN dst.snapshots
      PROVE  HostOf[dst.snapshots[s].target] = HostOf[bundle.snapshots[s].target]
  <2>1. PICK db \in Sources \cup Later : s \in DOMAIN db.snapshots /\ db.snapshots[s] = bundle.snapshots[s]
    BY DEF TransferInv, Carried
  <2>2. dst \in Destinations
    BY Imports DEF TransferInv
  <2> QED BY <1>4, <2>1, <2>2, TransferAssumption
<1>5. /\ s \in DOMAIN dst'.snapshots
      /\ \/ dst'.snapshots[s] = newSnapshots[s]
         \/ s \in DOMAIN dst.snapshots /\ dst'.snapshots[s] = dst.snapshots[s]
  BY <1>1, <1>2 DEF Keep, Over
<1> QED
  BY <1>3, <1>4, <1>5

LEMMA SkipKept == ASSUME TransferInv, ImportBundle PROVE SkipKeeps'
<1> SUFFICES ASSUME result' = "imported", conflict = "skip"
             PROVE  /\ was.targets \subseteq dst'.targets /\ was.members \subseteq dst'.members
                    /\ Only(dst'.snapshots, DOMAIN was.snapshots) = was.snapshots
                    /\ Only(dst'.collections, DOMAIN was.collections) = was.collections
                    /\ Only(dst'.notes, DOMAIN was.notes) = was.notes
                    /\ Only(dst'.views, DOMAIN was.views) = was.views
  BY DEF SkipKeeps, ImportBundle
<1>1. ASSUME NEW new, NEW old, old = [x \in DOMAIN old |-> old[x]]
      PROVE  Only(Keep(new, old), DOMAIN old) = old
  BY <1>1 DEF Only, Keep, Over
<1>2. /\ dst'.snapshots = Keep(newSnapshots, was.snapshots)
      /\ dst'.notes = Keep(newNotes, was.notes)
      /\ dst'.views = Keep(newViews, was.views)
      /\ dst'.collections = Keep([c \in underOwnId |-> bundle.collections[c]], was.collections)
  BY Imports, NewRows DEF importedCollections
<1>3. /\ was.snapshots = [x \in DOMAIN was.snapshots |-> was.snapshots[x]]
      /\ was.notes = [x \in DOMAIN was.notes |-> was.notes[x]]
      /\ was.views = [x \in DOMAIN was.views |-> was.views[x]]
      /\ was.collections = [x \in DOMAIN was.collections |-> was.collections[x]]
  BY Imports DEF Database, Rows
<1>4. was.targets \subseteq dst'.targets /\ was.members \subseteq dst'.members
  BY Imports DEF importedTargets, importedMembers
<1> QED
  BY <1>1, <1>2, <1>3, <1>4

(* Where a collection of the bundle goes.                                  *)
LEMMA CollectionMapped ==
    ASSUME NEW c \in DOMAIN bundle.collections
    PROVE  /\ DOMAIN collectionIDMap = DOMAIN bundle.collections
           /\ collectionIDMap[c] \in DOMAIN importedCollections
           /\ \/ c \in underOwnId /\ collectionIDMap[c] = c
              \/ /\ c \notin underOwnId /\ c \notin DOMAIN dst.collections
                 /\ collectionIDMap[c] \in nameOwners(bundle.collections[c])
<1>1. DOMAIN importedCollections = underOwnId \cup DOMAIN dst.collections
  BY DEF Keep, Over, importedCollections
<1>2. DOMAIN collectionIDMap = DOMAIN bundle.collections
  BY DEF collectionIDMap
<1>3. CASE c \in underOwnId
  BY <1>1, <1>2, <1>3 DEF collectionIDMap
<1>4. CASE c \notin underOwnId
  <2> DEFINE o == CHOOSE o \in nameOwners(bundle.collections[c]) : TRUE
  <2>1. nameOwners(bundle.collections[c]) # {} /\ c \notin DOMAIN dst.collections
    BY <1>4 DEF underOwnId
  <2>2. o \in nameOwners(bundle.collections[c])
    BY <2>1
  <2>3. collectionIDMap[c] = o
    BY <1>4 DEF collectionIDMap
  <2> HIDE DEF o
  <2> QED BY <1>1, <1>2, <1>4, <2>1, <2>2, <2>3 DEF nameOwners
<1> QED BY <1>3, <1>4

(* Unless a collection was renamed, all keep their names.                  *)
LEMMA NamesKept ==
    ASSUME TransferInv, dst = was, SameNames
    PROVE  /\ \A c \in DOMAIN was.collections : importedCollections[c] = was.collections[c]
           /\ \A c \in DOMAIN bundle.collections :
                importedCollections[collectionIDMap[c]] = bundle.collections[c]
           /\ \A c, d \in DOMAIN importedCollections :
                importedCollections[c] = importedCollections[d] => c = d
<1> DEFINE new == [c \in underOwnId |-> bundle.collections[c]]
<1>1. importedCollections = Keep(new, was.collections) /\ DOMAIN new = underOwnId
  BY DEF importedCollections
<1>2. \A c \in DOMAIN was.collections \cap underOwnId : new[c] = was.collections[c]
  BY DEF SameNames, underOwnId
<1>3. \A c \in underOwnId : new[c] = bundle.collections[c]
  OBVIOUS
<1>4. Allowed(was) /\ Unambiguous(bundle)
  BY TransferAssumption DEF TransferInv
<1> HIDE DEF new
<1>5. \A c \in DOMAIN was.collections : importedCollections[c] = was.collections[c]
  BY <1>1, <1>2, KeptDomain, KeptValue
<1>6. \A c \in underOwnId : importedCollections[c] = bundle.collections[c]
  BY <1>1, <1>2, <1>3, KeptDomain, KeptValue
<1>7. \A c \in DOMAIN bundle.collections : importedCollections[collectionIDMap[c]] = bundle.collections[c]
  BY <1>5, <1>6, CollectionMapped DEF nameOwners
<1>8. ASSUME NEW c \in underOwnId \ DOMAIN was.collections, NEW o \in DOMAIN was.collections
      PROVE  was.collections[o] # bundle.collections[c]
  <2> SUFFICES ASSUME was.collections[o] = bundle.collections[c] PROVE FALSE
    OBVIOUS
  <2>1. o \notin DOMAIN bundle.collections
    BY <1>4, <1>8 DEF SameNames, Unambiguous, underOwnId
  <2> QED BY <1>8, <2>1 DEF underOwnId, nameOwners
<1>9. DOMAIN importedCollections = underOwnId \cup DOMAIN was.collections
  BY <1>1, KeptDomain, KeptValue
<1>10. underOwnId \subseteq DOMAIN bundle.collections
  BY DEF underOwnId
<1>11. ASSUME NEW c \in DOMAIN importedCollections, NEW d \in DOMAIN importedCollections,
              importedCollections[c] = importedCollections[d]
       PROVE  c = d
  BY <1>4, <1>5, <1>6, <1>8, <1>9, <1>10, <1>11 DEF Allowed, Unambiguous
<1> QED
  BY <1>5, <1>7, <1>11

LEMMA MembersArrive == ASSUME TransferInv, ImportBundle PROVE MembersFollow'
<1> SUFFICES ASSUME result' = "imported", SameNames, NEW t \in bundle.targets
             PROVE  Named(dst', t) = Named(bundle, t) \cup Named(was, t)
  <2>1. UNCHANGED <<was, bundle>>
    BY DEF ImportBundle
  <2>2. SameNames' <=> SameNames
    BY <2>1 DEF SameNames
  <2>3. \A t : Named(dst, t)' = Named(dst', t) /\ Named(bundle, t)' = Named(bundle, t) /\ Named(was, t)' = Named(was, t)
    BY <2>1 DEF Named
  <2> QED BY <2>1, <2>2, <2>3 DEF MembersFollow
<1>1. /\ dst'.collections = importedCollections /\ dst'.targets = importedTargets
      /\ dst'.members = importedMembers /\ dst = was /\ Allowed(was)
  BY Imports
<1>2. DOMAIN was.collections \subseteq DOMAIN importedCollections /\ was.targets \subseteq importedTargets
  BY <1>1 DEF Keep, Over, importedCollections, importedTargets
<1>3. DOMAIN targetIDMap = bundle.targets /\ DOMAIN collectionIDMap = DOMAIN bundle.collections
  BY DEF targetIDMap, collectionIDMap
<1>4. ASSUME NEW m \in was.members
      PROVE  /\ m \in dst'.members /\ m[1] \in DOMAIN was.collections /\ m[2] \in was.targets
             /\ dst'.collections[m[1]] = was.collections[m[1]]
  BY <1>1, NamesKept DEF Allowed, importedMembers
<1>5. ASSUME NEW m \in bundle.members, m[1] \in DOMAIN bundle.collections, m[2] \in bundle.targets,
             NEW n, n = <<collectionIDMap[m[1]], targetIDMap[m[2]]>>
      PROVE  /\ n \in dst'.members /\ n[1] \in DOMAIN dst'.collections /\ n[2] \in dst'.targets
             /\ HostOf[n[2]] = HostOf[m[2]]
             /\ dst'.collections[n[1]] = bundle.collections[m[1]]
  <2>1. n \in importedMembers
    BY <1>3, <1>5 DEF importedMembers
  <2>2. n[1] \in DOMAIN importedCollections /\ importedCollections[n[1]] = bundle.collections[m[1]]
    BY <1>1, <1>5, CollectionMapped, NamesKept
  <2>3. n[2] \in importedTargets /\ HostOf[n[2]] = HostOf[m[2]]
    BY <1>5, TargetMapped
  <2> QED BY <1>1, <2>1, <2>2, <2>3
<1>6. ASSUME NEW n \in dst'.members
      PROVE  \/ n \in was.members
             \/ \E m \in bundle.members : /\ m[1] \in DOMAIN bundle.collections /\ m[2] \in bundle.targets
                                          /\ n = <<collectionIDMap[m[1]], targetIDMap[m[2]]>>
  BY <1>1, <1>3 DEF importedMembers
<1>7. ASSUME NEW x \in Named(dst', t) PROVE x \in Named(bundle, t) \cup Named(was, t)
  <2>1. PICK n \in dst'.members : HostOf[n[2]] = HostOf[t] /\ x = dst'.collections[n[1]]
    BY <1>7 DEF Named
  <2>2. CASE n \in was.members
    BY <1>4, <2>1, <2>2 DEF Named
  <2>3. ASSUME NEW m \in bundle.members, m[1] \in DOMAIN bundle.collections, m[2] \in bundle.targets,
               n = <<collectionIDMap[m[1]], targetIDMap[m[2]]>>
        PROVE  x \in Named(bundle, t)
    <3>1. HostOf[n[2]] = HostOf[m[2]] /\ dst'.collections[n[1]] = bundle.collections[m[1]]
      BY <1>5, <2>3
    <3>2. HostOf[m[2]] = HostOf[t] /\ x = bundle.collections[m[1]]
      BY <2>1, <3>1
    <3> QED BY <2>3, <3>2 DEF Named
  <2> QED BY <1>6, <2>2, <2>3
<1>8. ASSUME NEW x \in Named(bundle, t) PROVE x \in Named(dst', t)
  <2>1. PICK m \in bundle.members : /\ m[1] \in DOMAIN bundle.collections /\ m[2] \in bundle.targets
                                    /\ HostOf[m[2]] = HostOf[t] /\ x = bundle.collections[m[1]]
    BY <1>8 DEF Named
  <2> DEFINE n == <<collectionIDMap[m[1]], targetIDMap[m[2]]>>
  <2>2. /\ n \in dst'.members /\ n[1] \in DOMAIN dst'.collections /\ n[2] \in dst'.targets
        /\ HostOf[n[2]] = HostOf[t] /\ dst'.collections[n[1]] = x
    BY <1>5, <2>1
  <2> HIDE DEF n
  <2> QED BY <2>2 DEF Named
<1>9. ASSUME NEW x \in Named(was, t) PROVE x \in Named(dst', t)
  <2>1. PICK m \in was.members : HostOf[m[2]] = HostOf[t] /\ x = was.collections[m[1]]
    BY <1>9 DEF Named
  <2> QED BY <1>1, <1>2, <1>4, <2>1 DEF Named
<1> QED
  BY <1>7, <1>8, <1>9

LEMMA WholeAllowed ==
    ASSUME TransferInv, dst = was, WholeBundle, NoNameTaken, SameNames
    PROVE  Allowed(imported) /\ ~CollectionNameTaken /\ ~ViewNameTaken
<1>1. Database(bundle) /\ Unambiguous(bundle) /\ Allowed(was) /\ Database(was)
  BY TransferAssumption DEF TransferInv
<1>2. DOMAIN targetIDMap = bundle.targets /\ DOMAIN collectionIDMap = DOMAIN bundle.collections
  BY DEF targetIDMap, collectionIDMap
<1>3. /\ importedSnapshots = Keep(newSnapshots, was.snapshots)
      /\ importedNotes = Keep(newNotes, was.notes)
      /\ importedViews = Keep(newViews, was.views)
      /\ DOMAIN newNotes = DOMAIN bundle.notes /\ DOMAIN newViews = DOMAIN bundle.views
  BY NewRows DEF newNotes, newViews
<1>4. was.targets \subseteq importedTargets
  BY DEF importedTargets
<1>5. DOMAIN newSnapshots \cup DOMAIN was.snapshots = DOMAIN importedSnapshots
  BY <1>3, KeptDomain
<1>6. DOMAIN was.collections \subseteq DOMAIN importedCollections
  BY DEF Keep, Over, importedCollections
<1>7. ASSUME NEW r, r \in bundle.targets \cup {NoRef} PROVE remap(r, targetIDMap) \in importedTargets \cup {NoRef}
  BY <1>2, <1>7, TargetMapped DEF remap
<1>8. ASSUME NEW r, r \in DOMAIN bundle.collections \cup {NoRef}
      PROVE  remap(r, collectionIDMap) \in DOMAIN importedCollections \cup {NoRef}
  BY <1>2, <1>8, CollectionMapped DEF remap
<1>9. ASSUME NEW s \in DOMAIN bundle.snapshots, bundle.snapshots[s].target \in bundle.targets
      PROVE  s \in DOMAIN newSnapshots
  BY <1>9 DEF newSnapshots
<1>10. ASSUME NEW s \in DOMAIN newSnapshots PROVE newSnapshots[s].target \in importedTargets
  BY <1>1, NewFields, TargetMapped DEF newSnapshots
<1>a. ASSUME NEW t \in importedTargets, NEW u \in importedTargets, HostOf[t] = HostOf[u] PROVE t = u
  <2>1. ASSUME NEW x \in importedTargets
        PROVE  \/ x \in was.targets
               \/ x \in bundle.targets /\ \A o \in was.targets : HostOf[o] # HostOf[x]
    BY <1>2, TargetMapped DEF importedTargets
  <2> QED BY <1>1, <1>a, <2>1 DEF Allowed, Unambiguous
<1>b. ASSUME NEW s \in DOMAIN importedSnapshots PROVE importedSnapshots[s].target \in importedTargets
  <2>1. \/ s \in DOMAIN newSnapshots /\ importedSnapshots[s] = newSnapshots[s]
        \/ s \in DOMAIN was.snapshots /\ importedSnapshots[s] = was.snapshots[s]
    BY <1>3, <1>5, KeptValue
  <2> QED BY <1>1, <1>4, <1>10, <2>1 DEF Allowed
<1>c. importedBlobs \subseteq DOMAIN importedSnapshots
  BY <1>1, <1>5, <1>9 DEF WholeBundle, Allowed, importedBlobs
<1>d. \A c, d \in DOMAIN importedCollections : importedCollections[c] = importedCollections[d] => c = d
  BY NamesKept
<1>e. ASSUME NEW m \in importedMembers PROVE m[1] \in DOMAIN importedCollections /\ m[2] \in importedTargets
  <2>1. CASE m \in was.members
    BY <1>1, <1>4, <1>6, <2>1 DEF Allowed
  <2>2. CASE m \notin was.members
    <3>1. PICK x \in bundle.members : /\ x[1] \in DOMAIN collectionIDMap /\ x[2] \in DOMAIN targetIDMap
                                      /\ m = <<collectionIDMap[x[1]], targetIDMap[x[2]]>>
      BY <2>2 DEF importedMembers
    <3>2. collectionIDMap[x[1]] \in DOMAIN importedCollections
      BY <1>2, <3>1, CollectionMapped
    <3>3. targetIDMap[x[2]] \in importedTargets
      BY <1>2, <3>1, TargetMapped
    <3> QED BY <3>1, <3>2, <3>3
  <2> QED BY <2>1, <2>2
<1>f. ASSUME NEW n \in DOMAIN importedNotes
      PROVE  /\ importedNotes[n].target \in importedTargets \cup {NoRef}
             /\ importedNotes[n].snapshot \in DOMAIN importedSnapshots \cup {NoRef}
             /\ importedNotes[n].collection \in DOMAIN importedCollections \cup {NoRef}
  <2>1. \/ n \in DOMAIN newNotes /\ importedNotes[n] = newNotes[n]
        \/ n \in DOMAIN was.notes /\ importedNotes[n] = was.notes[n]
    BY <1>3 DEF Keep, Over
  <2>2. CASE n \in DOMAIN newNotes /\ importedNotes[n] = newNotes[n]
    <3>1. /\ bundle.notes[n].target \in bundle.targets \cup {NoRef}
          /\ bundle.notes[n].collection \in DOMAIN bundle.collections \cup {NoRef}
      BY <1>3, <2>2 DEF WholeBundle
    <3>2. bundle.notes[n].snapshot \in DOMAIN newSnapshots \cup {NoRef}
      BY <1>3, <1>9, <2>2 DEF WholeBundle
    <3>3. /\ importedNotes[n].target = remap(bundle.notes[n].target, targetIDMap)
          /\ importedNotes[n].snapshot = bundle.notes[n].snapshot
          /\ importedNotes[n].collection = remap(bundle.notes[n].collection, collectionIDMap)
      BY <1>1, <1>3, <2>2, NewFields
    <3> QED BY <1>5, <1>7, <1>8, <3>1, <3>2, <3>3
  <2>3. CASE n \in DOMAIN was.notes /\ importedNotes[n] = was.notes[n]
    BY <1>1, <1>4, <1>5, <1>6, <2>3 DEF Allowed
  <2> QED BY <2>1, <2>2, <2>3
<1>g. ASSUME NEW v \in DOMAIN importedViews
      PROVE  /\ importedViews[v].target \in importedTargets \cup {NoRef}
             /\ importedViews[v].snapshot \in DOMAIN importedSnapshots \cup {NoRef}
             /\ \/ v \in DOMAIN bundle.views /\ importedViews[v].name = bundle.views[v].name
                \/ v \in DOMAIN was.views /\ importedViews[v].name = was.views[v].name
  <2>1. \/ v \in DOMAIN newViews /\ importedViews[v] = newViews[v]
        \/ v \in DOMAIN was.views /\ importedViews[v] = was.views[v]
    BY <1>3 DEF Keep, Over
  <2>2. CASE v \in DOMAIN newViews /\ importedViews[v] = newViews[v]
    <3>1. bundle.views[v].target \in bundle.targets \cup {NoRef}
      BY <1>3, <2>2 DEF WholeBundle
    <3>2. bundle.views[v].snapshot \in DOMAIN newSnapshots \cup {NoRef}
      BY <1>3, <1>9, <2>2 DEF WholeBundle
    <3>3. /\ importedViews[v].target = remap(bundle.views[v].target, targetIDMap)
          /\ importedViews[v].snapshot = bundle.views[v].snapshot
          /\ importedViews[v].name = bundle.views[v].name
      BY <1>1, <1>3, <2>2, NewFields
    <3> QED BY <1>3, <1>5, <1>7, <2>2, <3>1, <3>2, <3>3
  <2>3. CASE v \in DOMAIN was.views /\ importedViews[v] = was.views[v]
    BY <1>1, <1>4, <1>5, <2>3 DEF Allowed
  <2> QED BY <2>1, <2>2, <2>3
<1>h. ASSUME NEW v \in DOMAIN importedViews, NEW w \in DOMAIN importedViews,
             importedViews[v].name = importedViews[w].name
      PROVE  v = w
  BY <1>1, <1>g, <1>h DEF Allowed, Unambiguous, NoNameTaken
<1>i. Allowed(imported)
  <2>1. /\ imported.targets = importedTargets /\ imported.snapshots = importedSnapshots
        /\ imported.blobs = importedBlobs /\ imported.collections = importedCollections
        /\ imported.members = importedMembers /\ imported.notes = importedNotes
        /\ imported.views = importedViews
    BY DEF imported
  <2> QED BY <2>1, <1>a, <1>b, <1>c, <1>d, <1>e, <1>f, <1>g, <1>h DEF Allowed
<1>j. ~CollectionNameTaken
  BY <1>1 DEF CollectionNameTaken, nameOwners, SameNames, Allowed
<1>k. ~ViewNameTaken
  BY DEF ViewNameTaken, NoNameTaken
<1> QED BY <1>i, <1>j, <1>k

LEMMA WholeArrives == ASSUME TransferInv, ImportBundle PROVE WholeBundlesImport'
<1> SUFFICES ASSUME result' = "failed" PROVE ~(WholeBundle /\ NoNameTaken /\ SameNames)
  <2>1. UNCHANGED <<was, bundle>>
    BY DEF ImportBundle
  <2>2. (WholeBundle' <=> WholeBundle) /\ (NoNameTaken' <=> NoNameTaken) /\ (SameNames' <=> SameNames)
    BY <2>1 DEF WholeBundle, NoNameTaken, SameNames
  <2> QED BY <2>2 DEF WholeBundlesImport
<1> QED
  BY WholeAllowed DEF ImportBundle, TransferInv

(* Writing a column as it was changes nothing.                             *)
LEMMA Rewritten ==
    ASSUME NEW r, NEW columns, r = [k \in columns |-> r[k]]
    PROVE  /\ [r EXCEPT !.target = r.target] = r
           /\ [r EXCEPT !.target = r.target, !.collection = r.collection] = r
  OBVIOUS

LEMMA RoundTripped == ASSUME TransferInv, ImportBundle PROVE RoundTrip'
<1> SUFFICES ASSUME changes = 0, was = Blank PROVE dst' = src
  BY DEF RoundTrip, ImportBundle
<1>1. /\ dst = was /\ Database(src) /\ Allowed(src) /\ Database(bundle)
  BY DEF TransferInv, ImportBundle
<1>2. bundle = src
  <2>1. \A i \in 1 .. 8 : bundle[Tables[i]] = src[Tables[i]]
    BY TablesAre DEF TransferInv, ImportBundle
  <2>2. \A k \in DOMAIN Blank : bundle[k] = src[k]
    BY <2>1, TablesAre DEF Blank
  <2> QED BY <1>1, <2>2 DEF Database
<1>3. /\ dst.targets = {} /\ DOMAIN dst.snapshots = {} /\ dst.blobs = {}
      /\ DOMAIN dst.collections = {} /\ dst.members = {} /\ DOMAIN dst.notes = {}
      /\ DOMAIN dst.views = {} /\ dst.config = "none"
  BY <1>1 DEF Blank, NoRows
<1>4. targetIDMap = [t \in src.targets |-> t]
  BY <1>2, <1>3 DEF targetIDMap
<1>5. underOwnId = DOMAIN src.collections
  BY <1>2, <1>3 DEF underOwnId, nameOwners
<1>6. collectionIDMap = [c \in DOMAIN src.collections |-> c]
  BY <1>2, <1>5 DEF collectionIDMap
<1>7. ASSUME NEW f, NEW old, f = [x \in DOMAIN f |-> f[x]], DOMAIN old = {} PROVE Keep(f, old) = f
  BY <1>7 DEF Keep, Over
<1>8. importedTargets = src.targets
  BY <1>3, <1>4 DEF importedTargets
<1>9. ASSUME NEW r PROVE remap(r, targetIDMap) = r /\ remap(r, collectionIDMap) = r
  BY <1>4, <1>6 DEF remap
<1>10. newSnapshots = src.snapshots
  <2>1. ASSUME NEW s \in DOMAIN src.snapshots
        PROVE  /\ bundle.snapshots[s].target \in bundle.targets
               /\ [src.snapshots[s] EXCEPT !.target = targetIDMap[@]] = src.snapshots[s]
    <3>1. src.snapshots[s] = [k \in {"target", "from"} |-> src.snapshots[s][k]]
      BY <1>1 DEF Database, Rows
    <3>2. src.snapshots[s].target \in src.targets
      BY <1>1 DEF Allowed
    <3>3. targetIDMap[src.snapshots[s].target] = src.snapshots[s].target
      BY <1>4, <3>2
    <3> QED BY <1>2, <3>1, <3>2, <3>3, Rewritten
  <2>2. newSnapshots = [s \in DOMAIN src.snapshots |-> [src.snapshots[s] EXCEPT !.target = targetIDMap[@]]]
    BY <1>2, <2>1 DEF newSnapshots
  <2>3. src.snapshots = [s \in DOMAIN src.snapshots |-> src.snapshots[s]]
    BY <1>1 DEF Database, Rows
  <2> QED BY <2>1, <2>2, <2>3
<1>11. newNotes = src.notes
  <2>1. ASSUME NEW n \in DOMAIN src.notes
        PROVE  [src.notes[n] EXCEPT !.target = remap(@, targetIDMap),
                                    !.collection = remap(@, collectionIDMap)] = src.notes[n]
    <3>1. src.notes[n] = [k \in {"target", "snapshot", "collection", "from"} |-> src.notes[n][k]]
      BY <1>1 DEF Database, Rows
    <3> QED BY <1>9, <3>1, Rewritten
  <2>2. src.notes = [n \in DOMAIN src.notes |-> src.notes[n]]
    BY <1>1 DEF Database, Rows
  <2>3. newNotes = [n \in DOMAIN src.notes |->
                      [src.notes[n] EXCEPT !.target = remap(@, targetIDMap),
                                           !.collection = remap(@, collectionIDMap)]]
    BY <1>2 DEF newNotes
  <2> QED BY <2>1, <2>2, <2>3
<1>12. newViews = src.views
  <2>1. ASSUME NEW v \in DOMAIN src.views
        PROVE  [src.views[v] EXCEPT !.target = remap(@, targetIDMap)] = src.views[v]
    <3>1. src.views[v] = [k \in {"name", "target", "snapshot", "from"} |-> src.views[v][k]]
      BY <1>1 DEF Database, Rows
    <3> QED BY <1>9, <3>1, Rewritten
  <2>2. src.views = [v \in DOMAIN src.views |-> src.views[v]]
    BY <1>1 DEF Database, Rows
  <2>3. newViews = [v \in DOMAIN src.views |-> [src.views[v] EXCEPT !.target = remap(@, targetIDMap)]]
    BY <1>2 DEF newViews
  <2> QED BY <2>1, <2>2, <2>3
<1>13. /\ importedSnapshots = src.snapshots /\ importedNotes = src.notes /\ importedViews = src.views
  <2>a. /\ src.snapshots = [x \in DOMAIN src.snapshots |-> src.snapshots[x]]
        /\ src.notes = [x \in DOMAIN src.notes |-> src.notes[x]]
        /\ src.views = [x \in DOMAIN src.views |-> src.views[x]]
    BY <1>1 DEF Database, Rows
  <2>1. Keep(src.snapshots, dst.snapshots) = src.snapshots
    BY <1>3, <1>7, <2>a
  <2>2. Keep(src.notes, dst.notes) = src.notes
    BY <1>3, <1>7, <2>a
  <2>3. Keep(src.views, dst.views) = src.views
    BY <1>3, <1>7, <2>a
  <2> QED BY <1>10, <1>11, <1>12, <2>1, <2>2, <2>3, NewRows
<1>14. importedCollections = src.collections
  <2>1. src.collections = [c \in underOwnId |-> bundle.collections[c]]
    BY <1>1, <1>2, <1>5 DEF Database
  <2>2. Keep(src.collections, dst.collections) = src.collections
    BY <1>1, <1>3, <1>7 DEF Database
  <2> QED BY <2>1, <2>2 DEF importedCollections
<1>15. importedMembers = src.members
  <2>1. \A m \in src.members : m[1] \in DOMAIN src.collections /\ m[2] \in src.targets
    BY <1>1 DEF Allowed
  <2>2. importedMembers = {<<collectionIDMap[m[1]], targetIDMap[m[2]]>> : m \in src.members}
    BY <1>2, <1>3, <1>4, <1>6, <2>1 DEF importedMembers
  <2>3. \A m \in src.members : <<collectionIDMap[m[1]], targetIDMap[m[2]]>> = m
    BY <1>1, <1>4, <1>6, <2>1 DEF Database
  <2> QED BY <2>2, <2>3
<1>16. importedBlobs = src.blobs /\ importedConfig = src.config
  BY <1>2, <1>3 DEF importedBlobs, importedConfig
<1>17. imported = src
  BY <1>1, <1>8, <1>13, <1>14, <1>15, <1>16 DEF imported, Database, Blank
<1>18. ~CollectionNameTaken /\ ~ViewNameTaken
  BY <1>3 DEF CollectionNameTaken, ViewNameTaken
<1> QED
  BY <1>1, <1>17, <1>18 DEF ImportBundle

(* An import may be asked for again, by whoever did not get its answer:     *)
(* with what is there now, the same bundle and the same strategy, it       *)
(* succeeds and leaves every row as it is.  When names were exchanged this *)
(* holds of skipping alone: writing over may first find a collection by a  *)
(* name that it then gives away, and miss it the second time.              *)
RepeatChangesNothing ==
    result = "imported" /\ (conflict = "skip" \/ SameNames) =>
        imported = dst /\ Allowed(imported) /\ ~CollectionNameTaken /\ ~ViewNameTaken

(* What is written twice is as if written once.                            *)
LEMMA KeptAgain == ASSUME NEW new, NEW old PROVE Keep(new, Keep(new, old)) = Keep(new, old)
  BY DEF Keep, Over

(* Targets and collections are found where the first import put them.      *)
LEMMA MappedAgain ==
    ASSUME TransferInv, ImportBundle, result' = "imported"
    PROVE  targetIDMap' = targetIDMap /\ importedTargets' = dst'.targets
<1>1. bundle' = bundle /\ dst'.targets = importedTargets
  BY Imports DEF ImportBundle
<1>2. \A t, u \in dst'.targets : HostOf[t] = HostOf[u] => t = u
  BY DEF ImportBundle, Allowed
<1>3. ASSUME NEW t \in bundle.targets
      PROVE  /\ \E o \in dst'.targets : HostOf[o] = HostOf[t]
             /\ (CHOOSE o \in dst'.targets : HostOf[o] = HostOf[t]) = targetIDMap[t]
  <2>1. targetIDMap[t] \in dst'.targets /\ HostOf[targetIDMap[t]] = HostOf[t]
    BY <1>1, TargetMapped
  <2> DEFINE o == CHOOSE o \in dst'.targets : HostOf[o] = HostOf[t]
  <2>2. o \in dst'.targets /\ HostOf[o] = HostOf[t]
    BY <2>1
  <2> HIDE DEF o
  <2>3. o = targetIDMap[t]
    BY <1>2, <2>1, <2>2
  <2> QED BY <2>1, <2>3 DEF o
<1>4. targetIDMap = [t \in bundle.targets |-> targetIDMap[t]]
  BY DEF targetIDMap
<1>5. targetIDMap' = targetIDMap
  <2>1. targetIDMap' = [t \in bundle.targets |->
                          IF \E o \in dst'.targets : HostOf[o] = HostOf[t]
                          THEN CHOOSE o \in dst'.targets : HostOf[o] = HostOf[t] ELSE t]
    BY <1>1 DEF targetIDMap
  <2>2. targetIDMap' = [t \in bundle.targets |-> targetIDMap[t]]
    BY <1>3, <2>1
  <2> QED BY <1>4, <2>2
<1>6. importedTargets' = dst'.targets \cup {targetIDMap[t] : t \in DOMAIN targetIDMap}
  BY <1>5 DEF importedTargets
<1> QED
  BY <1>1, <1>5, <1>6 DEF importedTargets

LEMMA CollectedAgain ==
    ASSUME TransferInv, ImportBundle, result' = "imported", conflict = "skip" \/ SameNames
    PROVE  underOwnId' = underOwnId /\ collectionIDMap' = collectionIDMap
<1> DEFINE new == [c \in underOwnId |-> bundle.collections[c]]
<1>1. /\ bundle' = bundle /\ conflict' = conflict
      /\ dst = was /\ Unambiguous(bundle)
      /\ dst'.collections = importedCollections
  BY Imports DEF ImportBundle, TransferInv
<1>2. \A c, d \in DOMAIN dst'.collections : dst'.collections[c] = dst'.collections[d] => c = d
  BY DEF ImportBundle, Allowed
<1>3. importedCollections = Keep(new, dst.collections) /\ DOMAIN new = underOwnId
  BY DEF importedCollections
<1> HIDE DEF new
<1>4. DOMAIN dst'.collections = underOwnId \cup DOMAIN dst.collections
  <2>1. DOMAIN Keep(new, dst.collections) = DOMAIN new \cup DOMAIN dst.collections
    BY KeptDomain
  <2> QED BY <1>1, <1>3, <2>1
<1>5. ASSUME NEW c \in DOMAIN bundle.collections, c \notin underOwnId
      PROVE  nameOwners(bundle.collections[c])' = {collectionIDMap[c]}
  <2> DEFINE o == collectionIDMap[c]
  <2>1. /\ c \notin DOMAIN dst.collections /\ o \in nameOwners(bundle.collections[c])
    BY <1>5, CollectionMapped
  <2> HIDE DEF o
  <2>2. o \in DOMAIN dst.collections /\ dst.collections[o] = bundle.collections[c] /\ o # c
    BY <2>1 DEF nameOwners
  <2>3. ASSUME conflict # "skip" PROVE o \notin DOMAIN bundle.collections
    BY <1>1, <2>2, <2>3 DEF SameNames, Unambiguous
  <2>4. dst'.collections[o] = dst.collections[o]
    <3>1. conflict = "skip" \/ o \notin DOMAIN new
      BY <1>3, <2>3 DEF underOwnId
    <3> QED BY <1>1, <1>3, <2>2, <3>1, KeptValue
  <2>5. o \in DOMAIN dst'.collections /\ dst'.collections[o] = bundle.collections[c]
    BY <1>4, <2>2, <2>4
  <2>6. (conflict = "overwrite" /\ o \in DOMAIN bundle.collections) => FALSE
    BY <2>3
  <2>7. nameOwners(bundle.collections[c])' =
          {x \in DOMAIN dst'.collections :
            /\ dst'.collections[x] = bundle.collections[c]
            /\ conflict = "overwrite" /\ x \in DOMAIN bundle.collections
                 => bundle.collections[x] >= bundle.collections[c]}
    BY <1>1 DEF nameOwners
  <2>8. \A x \in DOMAIN dst'.collections : dst'.collections[x] = bundle.collections[c] => x = o
    BY <1>2, <2>5
  <2> QED BY <2>5, <2>6, <2>7, <2>8 DEF o
<1>6. ASSUME NEW c \in DOMAIN bundle.collections
      PROVE  c \in underOwnId <=> c \in underOwnId'
  <2>1. CASE c \in underOwnId
    BY <1>1, <1>4, <2>1 DEF underOwnId
  <2>2. CASE c \notin underOwnId
    <3>1. c \notin DOMAIN dst'.collections
      BY <1>4, <2>2, CollectionMapped
    <3>2. nameOwners(bundle.collections[c])' # {}
      BY <1>5, <2>2
    <3>3. bundle'.collections[c] = bundle.collections[c]
      BY <1>1
    <3> QED BY <1>1, <2>2, <3>1, <3>2 DEF underOwnId
  <2> QED BY <2>1, <2>2
<1>7. underOwnId' = underOwnId
  <2>1. underOwnId' \subseteq DOMAIN bundle.collections /\ underOwnId \subseteq DOMAIN bundle.collections
    BY <1>1 DEF underOwnId
  <2> QED BY <1>6, <2>1
<1>8. ASSUME NEW c \in DOMAIN bundle.collections PROVE collectionIDMap'[c] = collectionIDMap[c]
  <2>1. CASE c \in underOwnId
    BY <1>1, <1>7, <2>1 DEF collectionIDMap
  <2>2. CASE c \notin underOwnId
    <3>1. collectionIDMap'[c] = CHOOSE o \in nameOwners(bundle.collections[c])' : TRUE
      BY <1>1, <1>7, <2>2 DEF collectionIDMap
    <3> QED BY <1>5, <2>2, <3>1
  <2> QED BY <2>1, <2>2
<1>9. /\ collectionIDMap = [c \in DOMAIN bundle.collections |-> collectionIDMap[c]]
      /\ collectionIDMap' = [c \in DOMAIN bundle.collections |-> collectionIDMap'[c]]
  BY <1>1 DEF collectionIDMap
<1> QED
  BY <1>7, <1>8, <1>9

LEMMA ImportedAgain == ASSUME TransferInv, ImportBundle PROVE RepeatChangesNothing'
<1> SUFFICES ASSUME result' = "imported", conflict = "skip" \/ SameNames
             PROVE  imported' = dst' /\ ~CollectionNameTaken' /\ ~ViewNameTaken'
  <2>1. UNCHANGED <<was, bundle, conflict>> /\ (SameNames' <=> SameNames)
    BY DEF ImportBundle, SameNames
  <2>2. result' = "imported" => Allowed(dst')
    BY DEF ImportBundle
  <2>3. imported' = dst' => (Allowed(imported)' <=> Allowed(dst'))
    BY DEF Allowed
  <2> QED BY <2>1, <2>2, <2>3 DEF RepeatChangesNothing
<1>1. /\ bundle' = bundle /\ conflict' = conflict /\ conflict \in {"skip", "overwrite"}
      /\ Database(bundle) /\ dst' = imported /\ Allowed(dst')
  BY DEF ImportBundle, TransferInv
<1>2. /\ targetIDMap' = targetIDMap /\ importedTargets' = dst'.targets
      /\ underOwnId' = underOwnId /\ collectionIDMap' = collectionIDMap
  BY MappedAgain, CollectedAgain
<1>3. /\ dst'.targets = importedTargets
      /\ dst'.snapshots = importedSnapshots /\ dst'.blobs = importedBlobs
      /\ dst'.collections = importedCollections /\ dst'.members = importedMembers
      /\ dst'.notes = importedNotes /\ dst'.views = importedViews /\ dst'.config = importedConfig
  BY <1>1 DEF imported
<1> DEFINE new == [c \in underOwnId |-> bundle.collections[c]]
<1>4. importedCollections = Keep(new, dst.collections)
  BY DEF importedCollections
<1>5. importedCollections' = Keep(new, dst'.collections)
  BY <1>1, <1>2 DEF importedCollections, Keep
<1>6. importedSnapshots' = Keep(newSnapshots, dst'.snapshots)
  <2>1. DOMAIN targetIDMap = bundle.targets
    BY DEF targetIDMap
  <2> QED BY <1>1, <1>2, <2>1 DEF importedSnapshots, newSnapshots, Keep
<1>7. importedNotes' = Keep(newNotes, dst'.notes)
  <2>1. \A r : remap(r, targetIDMap)' = remap(r', targetIDMap) /\ remap(r, collectionIDMap)' = remap(r', collectionIDMap)
    BY <1>2 DEF remap
  <2> QED BY <1>1, <1>2, <2>1 DEF importedNotes, newNotes, Keep, remap
<1>8. importedViews' = Keep(newViews, dst'.views)
  BY <1>1, <1>2 DEF importedViews, newViews, Keep, remap
<1>9. /\ importedSnapshots' = dst'.snapshots /\ importedNotes' = dst'.notes
      /\ importedViews' = dst'.views /\ importedCollections' = dst'.collections
  BY <1>3, <1>4, <1>5, <1>6, <1>7, <1>8, KeptAgain, NewRows
<1>10. importedBlobs' = dst'.blobs /\ importedConfig' = dst'.config
  BY <1>1, <1>3 DEF importedBlobs, importedConfig
<1>11. importedMembers' = dst'.members
  <2> DEFINE pairs == {<<collectionIDMap[m[1]], targetIDMap[m[2]]>> :
                m \in {x \in bundle.members : x[1] \in DOMAIN collectionIDMap /\ x[2] \in DOMAIN targetIDMap}}
  <2>1. importedMembers = dst.members \cup pairs
    BY DEF importedMembers
  <2>2. importedMembers' = dst'.members \cup pairs
    BY <1>1, <1>2 DEF importedMembers
  <2> HIDE DEF pairs
  <2> QED BY <1>3, <2>1, <2>2
<1>12. imported' = dst'
  <2>1. dst' = [targets |-> importedTargets, snapshots |-> importedSnapshots, blobs |-> importedBlobs,
                collections |-> importedCollections, members |-> importedMembers,
                notes |-> importedNotes, views |-> importedViews, config |-> importedConfig]
    BY <1>1 DEF imported
  <2>2. imported' = [targets |-> dst'.targets, snapshots |-> dst'.snapshots, blobs |-> dst'.blobs,
                     collections |-> dst'.collections, members |-> dst'.members,
                     notes |-> dst'.notes, views |-> dst'.views, config |-> dst'.config]
    BY <1>2, <1>9, <1>10, <1>11 DEF imported
  <2> QED BY <1>3, <2>1, <2>2
<1>13. ~CollectionNameTaken'
  <2> SUFFICES ASSUME conflict = "overwrite",
                      NEW c \in DOMAIN bundle.collections \cap DOMAIN dst'.collections,
                      NEW o \in nameOwners(bundle.collections[c])', o # c
               PROVE  FALSE
    BY <1>1 DEF CollectionNameTaken, nameOwners
  <2>1. o \in DOMAIN dst'.collections /\ dst'.collections[o] = bundle.collections[c]
    BY <1>1 DEF nameOwners
  <2>2. c \in DOMAIN new
    <3>1. DOMAIN Keep(new, dst.collections) = DOMAIN new \cup DOMAIN dst.collections
      BY KeptDomain
    <3>2. DOMAIN dst'.collections = DOMAIN new \cup DOMAIN dst.collections
      BY <1>3, <1>4, <3>1
    <3> QED BY <3>2 DEF underOwnId
  <2>3. dst'.collections[c] = bundle.collections[c]
    <3>1. new[c] = bundle.collections[c]
      BY <2>2
    <3> HIDE DEF new
    <3> QED BY <1>3, <1>4, <2>2, <3>1, KeptValue
  <2> QED BY <1>1, <2>1, <2>3 DEF Allowed
<1>14. ~ViewNameTaken'
  <2> SUFFICES ASSUME NEW v \in DOMAIN bundle.views, NEW w \in DOMAIN dst'.views, w # v,
                      bundle.views[v].name = dst'.views[w].name,
                      conflict = "overwrite" \/ v \notin DOMAIN dst'.views
               PROVE  FALSE
    BY <1>1 DEF ViewNameTaken
  <2>1. dst'.views = Keep(newViews, dst.views) /\ v \in DOMAIN newViews
    BY <1>3, NewRows DEF newViews
  <2>2. v \in DOMAIN dst'.views
    <3>1. DOMAIN Keep(newViews, dst.views) = DOMAIN newViews \cup DOMAIN dst.views
      BY KeptDomain
    <3> QED BY <2>1, <3>1
  <2>3. dst'.views[v] = newViews[v]
    <3>1. conflict # "skip"
      BY <2>2
    <3>2. Keep(newViews, dst.views)[v] = newViews[v]
      BY <2>1, <3>1, KeptValue
    <3> QED BY <2>1, <3>2
  <2>4. dst'.views[v].name = bundle.views[v].name
    BY <1>1, <2>3, NewFields
  <2> QED BY <1>1, <2>2, <2>4 DEF Allowed
<1> QED
  BY <1>12, <1>13, <1>14

LEMMA RepeatKept ==
    TransferInv /\ RepeatChangesNothing /\ [TransferNext]_transferVars => RepeatChangesNothing'
<1> SUFFICES ASSUME TransferInv, RepeatChangesNothing, [TransferNext]_transferVars
             PROVE  RepeatChangesNothing'
  OBVIOUS
<1>1. ASSUME result' = "none" PROVE RepeatChangesNothing'
  BY <1>1 DEF RepeatChangesNothing
<1>2. CASE ReadTable
  BY <1>1, <1>2, TablesAre DEF ReadTable, TransferInv
<1>3. CASE \E a \in Later : StoreRows(a)
  BY <1>1, <1>3, TablesAre DEF StoreRows, TransferInv
<1>4. CASE \E t \in TargetIds : DeleteTarget(t)
  BY <1>1, <1>4, TablesAre DEF DeleteTarget, TransferInv
<1>5. CASE ImportBundle
  BY <1>5, ImportedAgain
<1>6. CASE UNCHANGED transferVars
  <2>1. UNCHANGED <<dst, was, bundle, result, conflict>>
    BY <1>6 DEF transferVars
  <2>2. SameNames' <=> SameNames
    BY <2>1 DEF SameNames
  <2>3. targetIDMap' = targetIDMap
    BY <2>1 DEF targetIDMap
  <2>4. underOwnId' = underOwnId
    BY <2>1 DEF underOwnId, nameOwners
  <2>5. collectionIDMap' = collectionIDMap
    BY <2>1, <2>4 DEF collectionIDMap, nameOwners
  <2>6. importedTargets' = importedTargets /\ importedMembers' = importedMembers
        /\ importedBlobs' = importedBlobs /\ importedConfig' = importedConfig
    BY <2>1, <2>3, <2>5 DEF importedTargets, importedMembers, importedBlobs, importedConfig
  <2>7. importedSnapshots' = importedSnapshots /\ importedCollections' = importedCollections
    BY <2>1, <2>3, <2>4 DEF importedSnapshots, importedCollections, Keep
  <2>8. importedNotes' = importedNotes /\ importedViews' = importedViews
    BY <2>1, <2>3, <2>5 DEF importedNotes, importedViews, Keep, remap
  <2>9. imported' = imported
    BY <2>6, <2>7, <2>8 DEF imported
  <2>10. Allowed(imported)' <=> Allowed(imported)
    BY <2>9 DEF Allowed
  <2>11. (CollectionNameTaken' <=> CollectionNameTaken) /\ (ViewNameTaken' <=> ViewNameTaken)
    BY <2>1 DEF CollectionNameTaken, ViewNameTaken, nameOwners
  <2> QED BY <2>1, <2>2, <2>9, <2>10, <2>11 DEF RepeatChangesNothing
<1> QED
  BY <1>2, <1>3, <1>4, <1>5, <1>6 DEF TransferNext

(* Nothing is said before an import has ended; then nothing changes.       *)
TransferGoal == RoundTrip /\ SkipKeeps /\ SnapshotsFollow /\ MembersFollow /\ WholeBundlesImport

LEMMA TransferGoalKept == TransferInv /\ TransferGoal /\ [TransferNext]_transferVars => TransferGoal'
<1> SUFFICES ASSUME TransferInv, TransferGoal, [TransferNext]_transferVars PROVE TransferGoal'
  OBVIOUS
<1>1. ASSUME result' = "none" PROVE TransferGoal'
  BY <1>1 DEF TransferGoal, RoundTrip, SkipKeeps, SnapshotsFollow, MembersFollow, WholeBundlesImport
<1>2. CASE ReadTable
  BY <1>1, <1>2, TablesAre DEF ReadTable, TransferInv
<1>3. CASE \E a \in Later : StoreRows(a)
  BY <1>1, <1>3, TablesAre DEF StoreRows, TransferInv
<1>4. CASE \E t \in TargetIds : DeleteTarget(t)
  BY <1>1, <1>4, TablesAre DEF DeleteTarget, TransferInv
<1>5. CASE ImportBundle
  BY <1>5, RoundTripped, SkipKept, SnapshotsArrive, MembersArrive, WholeArrives DEF TransferGoal
<1>6. CASE UNCHANGED transferVars
  <2>1. UNCHANGED <<src, dst, was, bundle, result, conflict, changes>>
    BY <1>6 DEF transferVars
  <2>2. RoundTrip' <=> RoundTrip
    BY <2>1 DEF RoundTrip
  <2>3. SkipKeeps' <=> SkipKeeps
    BY <2>1 DEF SkipKeeps
  <2>4. SnapshotsFollow' <=> SnapshotsFollow
    BY <2>1 DEF SnapshotsFollow
  <2>5. MembersFollow' <=> MembersFollow
    <3>1. \A t : /\ Named(dst, t)' = Named(dst, t) /\ Named(bundle, t)' = Named(bundle, t)
                 /\ Named(was, t)' = Named(was, t)
      BY <2>1 DEF Named
    <3>2. SameNames' <=> SameNames
      BY <2>1 DEF SameNames
    <3> QED BY <2>1, <3>1, <3>2 DEF MembersFollow
  <2>6. WholeBundlesImport' <=> WholeBundlesImport
    <3>1. (WholeBundle' <=> WholeBundle) /\ (NoNameTaken' <=> NoNameTaken) /\ (SameNames' <=> SameNames)
      BY <2>1 DEF WholeBundle, NoNameTaken, SameNames
    <3> QED BY <2>1, <3>1 DEF WholeBundlesImport
  <2> QED BY <2>2, <2>3, <2>4, <2>5, <2>6 DEF TransferGoal
<1> QED
  BY <1>2, <1>3, <1>4, <1>5, <1>6 DEF TransferNext

LEMMA TransferGoalHolds == TransferSpec => []TransferGoal
<1>1. TransferInit => TransferGoal
  BY DEF TransferInit, TransferGoal, RoundTrip, SkipKeeps, SnapshotsFollow, MembersFollow, WholeBundlesImport
<1> QED
  BY <1>1, TransferStart, TransferStep, TransferGoalKept, PTL DEF TransferSpec

(* What is exported at rest arrives in an empty installation as it was:    *)
(* every row, every reference, with either strategy (BuildBundle and       *)
(* ImportBundle, whatever the data).                                       *)
THEOREM RoundTripHolds == TransferSpec => []RoundTrip
<1>1. TransferGoal => RoundTrip
  BY DEF TransferGoal
<1> QED BY <1>1, TransferGoalHolds, PTL

(* An import that skips keeps every row it finds (conflict "skip" in       *)
(* ImportBundle).                                                          *)
THEOREM SkipKeepsHolds == TransferSpec => []SkipKeeps
<1>1. TransferGoal => SkipKeeps
  BY DEF TransferGoal
<1> QED BY <1>1, TransferGoalHolds, PTL

(* Every snapshot of the bundle whose target is in it is there after an    *)
(* import, under a target of its host (targetIDMap in ImportBundle).       *)
THEOREM SnapshotsFollowTargets == TransferSpec => []SnapshotsFollow
<1>1. TransferGoal => SnapshotsFollow
  BY DEF TransferGoal
<1> QED BY <1>1, TransferGoalHolds, PTL

(* Unless a collection was renamed, a collection has exactly the members   *)
(* of both installations after an import (collectionIDMap and targetIDMap  *)
(* in ImportBundle).                                                       *)
THEOREM MembersFollowCollections == TransferSpec => []MembersFollow
<1>1. TransferGoal => MembersFollow
  BY DEF TransferGoal
<1> QED BY <1>1, TransferGoalHolds, PTL

(* A bundle that holds what its rows refer to is not refused, names of     *)
(* views and renamed collections apart, whatever the source did while it   *)
(* was exported (ImportBundle and the constraints of the schema).          *)
THEOREM WholeBundlesAreImported == TransferSpec => []WholeBundlesImport
<1>1. TransferGoal => WholeBundlesImport
  BY DEF TransferGoal
<1> QED BY <1>1, TransferGoalHolds, PTL

(* An import that is repeated succeeds and changes nothing: identifiers    *)
(* are mapped as before and rows are written as they are, for any bundle   *)
(* and any installation, unless it writes over collections that were       *)
(* renamed (targetIDMap, collectionIDMap and the conflict strategy in      *)
(* ImportBundle).                                                          *)
THEOREM ImportsRepeat == TransferSpec => []RepeatChangesNothing
<1>1. TransferInit => RepeatChangesNothing
  BY DEF TransferInit, RepeatChangesNothing
<1> QED
  BY <1>1, TransferStart, TransferStep, RepeatKept, PTL DEF TransferSpec
=============================================================================
