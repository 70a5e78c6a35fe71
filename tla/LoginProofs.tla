---------------------------- MODULE LoginProofs ----------------------------
(***************************************************************************)
(* Theorems about AdminSessions, for any number of gateways and sessions,  *)
(* any limit and any lifetime, and about LoginThrottle, for windows,       *)
(* cooldowns and a memory of any length.                                   *)
(*                                                                         *)
(* The limit holds because every valid session is in the sorted set once a *)
(* gateway has started, and the set never has more members than the limit  *)
(* nor ends before them; until then a session is in the set or in front of *)
(* every gateway that scans.  Who leaves the set is older, by the score;   *)
(* the invariant says how far a score may be from the truth: not at all    *)
(* downwards, by the lag of a page upwards, or else for a login that came  *)
(* after every session that is not yet in the set.                         *)
(*                                                                         *)
(* Less than two windows' attempts fit into a window's length because the  *)
(* first attempt of a window is out of sight when the next one starts, and *)
(* because a cooldown, or the life of the counters, is no shorter.         *)
(***************************************************************************)
EXTENDS AdminSessions, LoginThrottle, FiniteSetTheorems, WellFoundedInduction, TLAPS

Live(t) == ttl[t] > 0

Fields == DOMAIN NoScan

Typed ==
  /\ ttl \in [Tokens -> 0..Lifetime]
  /\ DOMAIN score \subseteq Tokens /\ \A m \in DOMAIN score : score[m] \in Int
  /\ indexTTL \in Nat

ScanTyped ==
  /\ DOMAIN scan = Gateways
  /\ \A n \in Gateways :
       /\ DOMAIN scan[n] = Fields
       /\ scan[n].lag \in 0..Lag
       /\ DOMAIN scan[n].page \subseteq Tokens
       /\ \A t \in DOMAIN scan[n].page : scan[n].page[t] \in 1..Lifetime

\* The sorted set is within the limit and outlives its members.
IndexInv ==
  /\ Cardinality(DOMAIN score) <= Limit
  /\ \A m \in DOMAIN score : ttl[m] <= indexTTL

\* What a gateway that scans has not seen is in the sorted set.
Seen == \A n \in Gateways : scan[n].pc = "scan" =>
          Sessions \subseteq DOMAIN score \cup scan[n].todo \cup DOMAIN scan[n].page

\* What it was told is not more than a lag ago.
Told == \A n \in Gateways : \A t \in DOMAIN scan[n].page :
          Live(t) => ttl[t] <= scan[n].page[t] /\ scan[n].page[t] <= ttl[t] + scan[n].lag

AllIn == adopted => Sessions \subseteq DOMAIN score

InTime(m) == score[m] <= ttl[m] - Lifetime + Lag

\* The scores and the truth.
Floor == \A m \in DOMAIN score : Live(m) => ttl[m] - Lifetime <= score[m]

Order == \A e, k \in DOMAIN score :
           Live(e) /\ Live(k) /\ score[e] <= score[k] => ttl[e] <= ttl[k] + Lag

Ranked == \A e \in Tokens \ DOMAIN score, k \in DOMAIN score :
            Live(e) /\ Live(k) => InTime(k) \/ ttl[e] <= ttl[k]

IndexAll == Typed /\ IndexInv /\ Floor /\ Order /\ Ranked

SessionsInv == IndexAll /\ ScanTyped /\ Seen /\ Told /\ AllIn

-----------------------------------------------------------------------------
(***************************************************************************)
(* A session joins the sorted set.                                         *)
(***************************************************************************)

Members == {m \in DOMAIN score : Live(m)}

\* t, with life left, joins under the score s, and out leave.
Joins(t, life, s, out) ==
  /\ out \subseteq Members \cup {t}
  /\ ttl' = [m \in Tokens |-> IF m \in out THEN 0 ELSE IF m = t THEN life ELSE ttl[m]]
  /\ DOMAIN score' = (Members \cup {t}) \ out
  /\ \A m \in DOMAIN score' : score'[m] = IF m = t THEN s ELSE score[m]
  /\ \A o \in out, k \in DOMAIN score' :
       (IF o = t THEN s ELSE score[o]) <= (IF k = t THEN s ELSE score[k])
  /\ Cardinality(DOMAIN score') <= Limit
  /\ out # {} => Cardinality(DOMAIN score') = Limit
  /\ indexTTL' \in Nat /\ indexTTL' >= life
  /\ Members # {} => indexTTL' >= indexTTL

LEMMA LiveIs ==
  ASSUME Typed, NEW t \in Tokens
  PROVE  /\ ttl[t] \in 0..Lifetime /\ Live(t) <=> ttl[t] # 0
         /\ t \in Sessions <=> Live(t)
  BY SessionsAssumption DEF Typed, Live, Sessions

LEMMA PutJoins ==
  ASSUME Typed, NEW t \in Tokens, ~(t \in Members), NEW life \in 1..Lifetime, NEW s \in Int,
         NEW ends \in 1..Lifetime, ends >= life, NEW keys,
         keys = [m \in Tokens |-> IF m = t THEN life ELSE ttl[m]],
         Put(keys, Pruned(ttl), t, s, ends)
  PROVE  \E out : Joins(t, life, s, out)
<1> DEFINE index == Pruned(ttl)
           joined == With(index, t, s)
<1>1. /\ DOMAIN index = Members /\ \A m \in Members : index[m] = score[m]
      /\ Members \subseteq Tokens
  BY DEF Pruned, Members, Live, Typed
<1>2. /\ DOMAIN joined = Members \cup {t}
      /\ \A m \in DOMAIN joined : joined[m] = IF m = t THEN s ELSE score[m]
  BY <1>1 DEF With
<1>3. PICK out \in Excess(joined) :
        /\ ttl' = [m \in Tokens |-> IF m \in out THEN 0 ELSE keys[m]]
        /\ score' = [m \in DOMAIN joined \ out |-> joined[m]]
        /\ indexTTL' = IndexTTL(index, ends)
  BY DEF Put
<1> HIDE DEF joined, index
<1>4. /\ out \subseteq DOMAIN joined
      /\ Cardinality(out) = IF Cardinality(DOMAIN joined) > Limit
                            THEN Cardinality(DOMAIN joined) - Limit ELSE 0
      /\ \A o \in out, k \in DOMAIN joined \ out : joined[o] <= joined[k]
  BY <1>3 DEF Excess
<1>5. IsFiniteSet(DOMAIN joined) /\ IsFiniteSet(out)
  BY <1>1, <1>2, <1>4, SessionsAssumption, FS_Subset
<1>6. Cardinality(DOMAIN joined \ out) = Cardinality(DOMAIN joined) - Cardinality(out)
  <2>1. DOMAIN joined \cap out = out
    BY <1>4
  <2> QED BY <1>5, <2>1, FS_Difference
<1>7. /\ Cardinality(DOMAIN joined) \in Nat /\ Cardinality(out) \in Nat
      /\ (Cardinality(out) = 0 <=> out = {})
  BY <1>5, FS_CardinalityType, FS_EmptySet
<1>8. /\ Cardinality(DOMAIN joined \ out) <= Limit
      /\ out # {} => Cardinality(DOMAIN joined \ out) = Limit
  BY <1>4, <1>6, <1>7, SessionsAssumption
<1>9. /\ indexTTL' \in Nat /\ indexTTL' >= life
      /\ Members # {} => indexTTL' >= indexTTL
  BY <1>1, <1>3, SessionsAssumption DEF IndexTTL, Typed
<1>10. ttl' = [m \in Tokens |-> IF m \in out THEN 0 ELSE IF m = t THEN life ELSE ttl[m]]
  BY <1>3
<1>11. /\ DOMAIN score' = (Members \cup {t}) \ out
       /\ \A m \in DOMAIN score' : score'[m] = IF m = t THEN s ELSE score[m]
  BY <1>2, <1>3
<1>12. \A o \in out, k \in DOMAIN score' :
         (IF o = t THEN s ELSE score[o]) <= (IF k = t THEN s ELSE score[k])
  BY <1>2, <1>4, <1>11
<1> QED BY <1>2, <1>3, <1>4, <1>8, <1>9, <1>10, <1>11, <1>12 DEF Joins

\* What its score has to say of t.
Fits(t, life, s) ==
  /\ life - Lifetime <= s
  /\ \A k \in Members : /\ s <= score[k] => life <= ttl[k] + Lag
                        /\ score[k] <= s => ttl[k] <= life + Lag
  /\ \/ s <= life - Lifetime + Lag
     \/ \A e \in Tokens \ DOMAIN score : ttl[e] <= life

LEMMA JoinKeeps ==
  ASSUME IndexAll, NEW t \in Tokens, t \notin Members, NEW life \in 1..Lifetime, NEW s \in Int,
         NEW out, Joins(t, life, s, out), ttl[t] \in {0, life}, Fits(t, life, s)
  PROVE  /\ IndexAll'
         /\ \A m \in Tokens : Live(m)' => \/ m \in DOMAIN score'
                                          \/ m # t /\ Live(m) /\ m \notin DOMAIN score
         /\ \A m \in Tokens : Live(m)' => (m = t /\ ttl'[m] = life) \/ ttl'[m] = ttl[m]
<1>1. /\ Typed /\ IndexInv /\ Floor /\ Order /\ Ranked
      /\ Lifetime \in Nat /\ Lag \in Nat /\ Limit \in Nat
  BY SessionsAssumption DEF IndexAll
<1>2. Members \subseteq Tokens /\ \A m \in Tokens : ttl[m] \in 0..Lifetime
  BY <1>1 DEF Members, Typed
<1>3. /\ DOMAIN ttl' = Tokens
      /\ \A m \in Tokens : ttl'[m] = IF m \in out THEN 0 ELSE IF m = t THEN life ELSE ttl[m]
  BY DEF Joins
<1>4. \A m \in Tokens : ttl'[m] \in 0..Lifetime
  BY <1>1, <1>2, <1>3
<1>5. Typed'
  <2>1. DOMAIN score' \subseteq Tokens /\ indexTTL' \in Nat
    BY <1>2 DEF Joins
  <2>2. \A m \in DOMAIN score' : score'[m] \in Int
    BY <1>1 DEF Joins, Members, Typed
  <2>3. ttl' \in [Tokens -> 0..Lifetime]
    <3>1. ttl' = [m \in Tokens |-> ttl'[m]]
      BY DEF Joins
    <3> QED BY <1>4, <3>1
  <2> QED BY <2>1, <2>2, <2>3 DEF Typed
\* Who is in the set afterwards: t, or a member as it was.
<1>6. ASSUME NEW m \in DOMAIN score'
      PROVE  /\ m \in Tokens /\ m \notin out
             /\ \/ m = t /\ ttl'[m] = life /\ score'[m] = s
                \/ m \in Members /\ m # t /\ ttl'[m] = ttl[m] /\ score'[m] = score[m]
  BY <1>2, <1>3 DEF Joins
<1>7. ASSUME NEW m \in Tokens, Live(m)', m \notin DOMAIN score'
      PROVE  m # t /\ m \notin DOMAIN score /\ Live(m) /\ ttl'[m] = ttl[m]
  <2>1. m \notin out
    BY <1>3, <1>7 DEF Live
  <2>2. m # t /\ m \notin Members
    BY <1>7, <2>1 DEF Joins
  <2>3. ttl'[m] = ttl[m]
    BY <1>3, <2>1, <2>2
  <2> QED BY <1>7, <2>2, <2>3 DEF Live, Members
<1>8. IndexInv'
  <2>1. ASSUME NEW m \in DOMAIN score' PROVE ttl'[m] <= indexTTL'
    <3>1. CASE m = t
      BY <1>6, <2>1, <3>1 DEF Joins
    <3>2. CASE m # t
      <4>1. m \in Members /\ ttl'[m] = ttl[m] /\ indexTTL' >= indexTTL /\ indexTTL' \in Nat
        BY <1>6, <2>1, <3>2 DEF Joins
      <4>2. ttl[m] <= indexTTL /\ ttl[m] \in 0..Lifetime /\ indexTTL \in Nat
        BY <1>1, <1>2, <4>1 DEF IndexInv, Members, Typed
      <4> QED BY <1>1, <4>1, <4>2
    <3> QED BY <3>1, <3>2
  <2> QED BY <2>1 DEF IndexInv, Joins
<1>9. Floor'
  BY <1>1, <1>6 DEF Floor, Fits, Members, Live
<1>10. Order'
  <2>1. ASSUME NEW e \in DOMAIN score', NEW k \in DOMAIN score', Live(e)', Live(k)', score'[e] <= score'[k]
        PROVE  ttl'[e] <= ttl'[k] + Lag
    <3>1. CASE e = t /\ k = t
      BY <1>1, <1>6, <2>1, <3>1
    <3>2. CASE e = t /\ k # t
      BY <1>6, <2>1, <3>2 DEF Fits
    <3>3. CASE e # t /\ k = t
      BY <1>6, <2>1, <3>3 DEF Fits
    <3>4. CASE e # t /\ k # t
      <4>1. /\ e \in Members /\ k \in Members /\ score[e] <= score[k]
            /\ ttl'[e] = ttl[e] /\ ttl'[k] = ttl[k]
        BY <1>6, <2>1, <3>4
      <4> QED BY <1>1, <4>1 DEF Order, Members
    <3> QED BY <3>1, <3>2, <3>3, <3>4
  <2> QED BY <2>1 DEF Order
<1>11. Ranked'
  <2>1. ASSUME NEW e \in Tokens \ DOMAIN score', NEW k \in DOMAIN score', Live(e)', Live(k)'
        PROVE  score'[k] <= ttl'[k] - Lifetime + Lag \/ ttl'[e] <= ttl'[k]
    <3>1. e # t /\ e \notin DOMAIN score /\ Live(e) /\ ttl'[e] = ttl[e]
      BY <1>7, <2>1
    <3>2. CASE k = t
      BY <1>6, <2>1, <3>1, <3>2 DEF Fits
    <3>3. CASE k # t
      <4>1. k \in Members /\ ttl'[k] = ttl[k] /\ score'[k] = score[k]
        BY <1>6, <2>1, <3>3
      <4> QED BY <1>1, <3>1, <4>1 DEF Ranked, Members, InTime
    <3> QED BY <3>2, <3>3
  <2> QED BY <2>1 DEF Ranked, InTime
<1>12. ASSUME NEW m \in Tokens, Live(m)'
       PROVE  (m = t /\ ttl'[m] = life) \/ ttl'[m] = ttl[m]
  BY <1>1, <1>2, <1>3, <1>12 DEF Live
<1>13. IndexAll'
  BY <1>5, <1>8, <1>9, <1>10, <1>11 DEF IndexAll
<1>14. \A m \in Tokens : Live(m)' => \/ m \in DOMAIN score'
                                     \/ m # t /\ Live(m) /\ m \notin DOMAIN score
  BY <1>7 DEF Live
<1> QED BY <1>12, <1>13, <1>14

\* Who has to leave is older, or as good as.
LEMMA JoinEvicts ==
  ASSUME IndexAll, NEW t \in Tokens, t \notin Members, NEW life \in 1..Lifetime, NEW s \in Int,
         NEW out, Joins(t, life, s, out), Fits(t, life, s), NEW o \in out
  PROVE  /\ Cardinality({k \in Tokens : ttl'[k] > 0}) >= Limit
         /\ \A k \in DOMAIN score' : (IF o = t THEN life ELSE ttl[o]) <= ttl'[k] + Lag
<1>1. /\ Typed /\ Order /\ Lifetime \in Nat /\ Lag \in Nat /\ Limit \in Nat
      /\ Members \subseteq Tokens /\ o \in Members \cup {t}
  BY SessionsAssumption DEF IndexAll, Members, Typed, Joins
<1>2. ASSUME NEW m \in DOMAIN score'
      PROVE  /\ m \in Tokens
             /\ \/ m = t /\ ttl'[m] = life
                \/ m \in Members /\ m # t /\ ttl'[m] = ttl[m]
  BY <1>1 DEF Joins
<1>3. DOMAIN score' \subseteq {k \in Tokens : ttl'[k] > 0}
  BY <1>1, <1>2 DEF Members, Live
<1>4. Cardinality({k \in Tokens : ttl'[k] > 0}) >= Limit
  <2> DEFINE K == {k \in Tokens : ttl'[k] > 0}
             D == DOMAIN score'
  <2>1. IsFiniteSet(K) /\ D \subseteq K /\ Cardinality(D) = Limit
    BY <1>3, SessionsAssumption, FS_Subset DEF Joins
  <2> HIDE DEF K, D
  <2>2. Cardinality(D) <= Cardinality(K)
    BY <2>1, FS_Subset
  <2>3. Cardinality(K) \in Nat
    BY <2>1, FS_CardinalityType
  <2>4. Cardinality(K) >= Limit
    BY <1>1, <2>1, <2>2, <2>3
  <2> QED BY <2>4 DEF K
<1>5. ASSUME NEW k \in DOMAIN score'
      PROVE  (IF o = t THEN life ELSE ttl[o]) <= ttl'[k] + Lag
  <2>1. (IF o = t THEN s ELSE score[o]) <= (IF k = t THEN s ELSE score[k]) /\ k # o
    BY DEF Joins
  <2>2. CASE o = t
    BY <1>2, <2>1, <2>2 DEF Fits
  <2>3. CASE o # t /\ k = t
    BY <1>1, <1>2, <2>1, <2>3 DEF Fits
  <2>4. CASE o # t /\ k # t
    BY <1>1, <1>2, <2>1, <2>4 DEF Order, Members
  <2> QED BY <2>2, <2>3, <2>4
<1> QED BY <1>4, <1>5

\* Members leave the set because they are gone, or all of it is forgotten with them.
LEMMA ShrinkKeeps ==
  ASSUME IndexAll, DOMAIN score' \subseteq DOMAIN score, \A m \in DOMAIN score' : score'[m] = score[m],
         ttl' \in [Tokens -> 0..Lifetime], \A m \in Tokens : ttl'[m] \in {0, ttl[m]},
         \A m \in DOMAIN score \ DOMAIN score' : ttl'[m] = 0,
         indexTTL' \in Nat, DOMAIN score' # {} => indexTTL' = indexTTL
  PROVE  IndexAll'
<1>1. /\ Typed /\ IndexInv /\ Floor /\ Order /\ Ranked
      /\ Lifetime \in Nat /\ Lag \in Nat /\ Limit \in Nat
  BY SessionsAssumption DEF IndexAll
<1>2. DOMAIN score \subseteq Tokens /\ \A m \in Tokens : Live(m)' => Live(m) /\ ttl'[m] = ttl[m]
  BY <1>1 DEF Live, Typed
<1>3. Typed' /\ Floor' /\ Order'
  BY <1>1, <1>2 DEF Typed, Floor, Order
<1>4. Ranked'
  BY <1>1, <1>2 DEF Ranked, InTime, Live
<1>5. IndexInv'
  <2>1. Cardinality(DOMAIN score') <= Cardinality(DOMAIN score) /\ Cardinality(DOMAIN score') \in Nat
        /\ Cardinality(DOMAIN score) \in Nat
    BY <1>2, SessionsAssumption, FS_Subset, FS_CardinalityType
  <2>2. ASSUME NEW m \in DOMAIN score' PROVE ttl'[m] <= indexTTL'
    BY <1>1, <1>2, <2>2 DEF IndexInv, Typed
  <2> QED BY <1>1, <2>1, <2>2 DEF IndexInv
<1> QED BY <1>3, <1>4, <1>5 DEF IndexAll

-----------------------------------------------------------------------------
(***************************************************************************)
(* The steps.                                                              *)
(***************************************************************************)

\* A least counterexample n of the cardinality has an element to spare.
LEMMA IntMax ==
  ASSUME NEW S \in SUBSET Int, IsFiniteSet(S), S # {}
  PROVE  \E x \in S : \A y \in S : y <= x
<1> DEFINE Bad(n) == \E T \in SUBSET Int : /\ IsFiniteSet(T) /\ T # {} /\ Cardinality(T) = n
                                           /\ ~ \E x \in T : \A y \in T : y <= x
           B == {n \in Nat : Bad(n)}
           R == {p \in Nat \X Nat : p[1] < p[2]}
<1>1. SUFFICES ASSUME B # {} PROVE FALSE
  BY FS_CardinalityType
<1>2. PICK n \in B : n - 1 \notin B
  <2>1. IsWellFoundedOn(R, Nat)
    BY NatLessThanWellFounded DEF OpToRel
  <2>2. B \subseteq Nat
    OBVIOUS
  <2> HIDE DEF B, R
  <2>3. PICK n \in B : \A y \in B : ~ (<<y, n>> \in R)
    BY <1>1, <2>1, <2>2, WFMin, Zenon
  <2>4. ASSUME n - 1 \in B PROVE <<n - 1, n>> \in R
    <3> DEFINE y == n - 1
    <3>1. y \in Nat /\ n \in Nat /\ y < n
      BY <2>2, <2>4
    <3> HIDE DEF y
    <3>2. <<y, n>> \in Nat \X Nat /\ <<y, n>>[1] = y /\ <<y, n>>[2] = n
      BY <3>1
    <3>3. <<y, n>> \in R
      BY <3>1, <3>2 DEF R
    <3> QED BY <3>3 DEF y
  <2> QED BY <2>3, <2>4
<1>3. PICK T \in SUBSET Int : /\ IsFiniteSet(T) /\ T # {} /\ Cardinality(T) = n
                              /\ ~ \E x \in T : \A y \in T : y <= x
  BY <1>2
<1>4. PICK x \in T : TRUE
  BY <1>3
<1>5. IsFiniteSet(T \ {x}) /\ Cardinality(T \ {x}) = n - 1
  BY <1>3, FS_RemoveElement
<1>6. T \ {x} # {}
  BY <1>3
<1>7. n - 1 \in Nat
  BY <1>5, FS_CardinalityType
<1>8. PICK m \in T \ {x} : \A y \in T \ {x} : y <= m
  BY <1>2, <1>3, <1>5, <1>6, <1>7
<1>9. m \in Int /\ x \in Int /\ \A y \in T : y \in Int
  BY <1>3, <1>8
<1>10. (\A y \in T : y <= m) \/ (\A y \in T : y <= x)
  BY <1>8, <1>9
<1> QED BY <1>3, <1>8, <1>10

LEMMA LoginScoreIs ==
  ASSUME Typed
  PROVE  /\ LoginScore(Pruned(ttl)) \in Nat
         /\ \A m \in Members : score[m] < LoginScore(Pruned(ttl))
<1> DEFINE index == Pruned(ttl)
           next == {index[m] + 1 : m \in DOMAIN index}
           S == {0} \cup next
<1>1. /\ DOMAIN index = Members /\ \A m \in Members : index[m] = score[m] /\ score[m] \in Int
      /\ Members \subseteq Tokens
  BY DEF Pruned, Members, Live, Typed
<1>2. IsFiniteSet(next)
  <2> DEFINE f == [m \in Members |-> index[m] + 1]
             T == next
  <2>1. f \in [Members -> T] /\ \A y \in T : \E m \in Members : f[m] = y
    BY <1>1
  <2>2. f \in Surjection(Members, T)
    BY <2>1 DEF Surjection
  <2>3. IsFiniteSet(Members)
    BY <1>1, SessionsAssumption, FS_Subset
  <2> HIDE DEF f, T
  <2>4. IsFiniteSet(T)
    BY <2>2, <2>3, FS_Surjection
  <2> QED BY <2>4 DEF T
<1>3. S \in SUBSET Int /\ 0 \in S /\ \A m \in Members : score[m] + 1 \in S
  BY <1>1
<1>4. IsFiniteSet(S)
  <2> HIDE DEF next
  <2>1. IsFiniteSet(next \cup {0})
    BY <1>2, FS_AddElement
  <2>2. S = next \cup {0}
    OBVIOUS
  <2> QED BY <2>1, <2>2
<1>5. LoginScore(index) = Largest(S)
  BY DEF LoginScore
<1> HIDE DEF S, index
<1>6. \E x \in S : \A y \in S : y <= x
  BY <1>3, <1>4, IntMax
<1>7. Largest(S) \in S /\ \A y \in S : y <= Largest(S)
  BY <1>6 DEF Largest
<1>8. Largest(S) \in Int /\ 0 <= Largest(S) /\ \A m \in Members : score[m] + 1 <= Largest(S)
  BY <1>3, <1>7
<1>9. Largest(S) \in Nat /\ \A m \in Members : score[m] < Largest(S)
  BY <1>1, <1>8
<1> QED BY <1>5, <1>9 DEF index

\* A login joins with a whole lifetime, after every member.
LEMMA LoginJoins ==
  ASSUME IndexAll, NEW t \in Tokens, Login(t)
  PROVE  /\ t \notin Members /\ ttl[t] = 0
         /\ Lifetime \in 1..Lifetime /\ LoginScore(Pruned(ttl)) \in Int
         /\ \E out : Joins(t, Lifetime, LoginScore(Pruned(ttl)), out)
         /\ Fits(t, Lifetime, LoginScore(Pruned(ttl)))
         /\ \A n \in Gateways : t \notin DOMAIN scan[n].page
         /\ UNCHANGED <<scan, adopted>>
<1> DEFINE s == LoginScore(Pruned(ttl))
           keys == [ttl EXCEPT ![t] = Lifetime]
<1>1. /\ Typed /\ t \notin Sessions /\ UNCHANGED <<scan, adopted>>
      /\ \A n \in Gateways : t \notin DOMAIN scan[n].page
      /\ Put(keys, Pruned(ttl), t, s, Lifetime)
  BY DEF Login, IndexAll
<1>2. t \notin Members /\ ttl[t] = 0
  BY <1>1, LiveIs DEF Members
<1>3. s \in Nat /\ \A m \in Members : score[m] < s
  BY <1>1, LoginScoreIs
<1>4. Lifetime \in 1..Lifetime /\ Lifetime \in Nat /\ Lag \in Nat
  BY SessionsAssumption
<1>5. keys = [m \in Tokens |-> IF m = t THEN Lifetime ELSE ttl[m]]
  BY <1>1 DEF Typed
<1> HIDE DEF s, keys
<1>6. \E out : Joins(t, Lifetime, s, out)
  <2>1. s \in Int /\ Lifetime >= Lifetime
    BY <1>3, <1>4
  <2> QED BY <1>1, <1>2, <1>4, <1>5, <2>1, PutJoins
<1>7. Fits(t, Lifetime, s)
  <2>1. \A m \in Tokens : ttl[m] \in 0..Lifetime
    BY <1>1 DEF Typed
  <2>2. \A m \in Members : m \in Tokens /\ score[m] \in Int
    BY <1>1 DEF Typed, Members
  <2> QED BY <1>3, <1>4, <2>1, <2>2 DEF Fits
<1> QED BY <1>1, <1>2, <1>3, <1>4, <1>6, <1>7 DEF s

\* What a gateway adopts joins with what it has left, by what the gateway was told.
Adopts(n, t) ==
  /\ t \in DOMAIN scan[n].page
  /\ t \notin Members /\ Live(t)
  /\ LET s == scan[n].page[t] - Lifetime IN
     /\ s \in Int /\ Fits(t, ttl[t], s)
     /\ \E out : Joins(t, ttl[t], s, out)

Passes(n, t) ==
  /\ t \in DOMAIN scan[n].page
  /\ t \in Members \/ ~Live(t)
  /\ DOMAIN score' = Members /\ \A m \in Members : score'[m] = score[m]
  /\ indexTTL' = IF Members = {} THEN 0 ELSE indexTTL
  /\ UNCHANGED ttl

LEMMA AdoptIs ==
  ASSUME SessionsInv, NEW n \in Gateways, Adopt(n)
  PROVE  \E t \in Tokens :
           /\ scan' = [scan EXCEPT ![n].page = [m \in DOMAIN scan[n].page \ {t} |-> scan[n].page[m]]]
           /\ UNCHANGED adopted
           /\ Adopts(n, t) \/ Passes(n, t)
<1>1. PICK t \in DOMAIN scan[n].page :
        /\ scan' = [scan EXCEPT ![n].page = [m \in DOMAIN scan[n].page \ {t} |-> scan[n].page[m]]]
        /\ \/ /\ MayAdopt(t)
              /\ Put(ttl, Pruned(ttl), t, scan[n].page[t] - Lifetime, scan[n].page[t])
           \/ /\ ~MayAdopt(t)
              /\ score' = Pruned(ttl)
              /\ indexTTL' = IF DOMAIN Pruned(ttl) = {} THEN 0 ELSE indexTTL
              /\ UNCHANGED ttl
        /\ UNCHANGED adopted
  BY DEF Adopt
<1> DEFINE page == scan[n].page[t]
           s == page - Lifetime
<1>2. /\ t \in Tokens /\ page \in 1..Lifetime /\ scan[n].lag \in 0..Lag /\ Typed /\ IndexAll
      /\ Floor /\ Ranked /\ Lifetime \in Nat /\ Lag \in Nat
  BY <1>1, SessionsAssumption DEF SessionsInv, ScanTyped, IndexAll
<1>3. /\ DOMAIN Pruned(ttl) = Members /\ \A m \in Members : Pruned(ttl)[m] = score[m]
  BY DEF Pruned, Members, Live
<1>4. MayAdopt(t) <=> t \notin Members /\ Live(t)
  BY <1>2, <1>3, LiveIs DEF MayAdopt
<1>5. CASE MayAdopt(t) /\ Put(ttl, Pruned(ttl), t, s, page)
  <2>1. t \notin Members /\ Live(t) /\ t \notin DOMAIN score
    BY <1>4, <1>5 DEF Members
  <2>2. ttl[t] \in 1..Lifetime /\ ttl[t] <= page /\ page <= ttl[t] + scan[n].lag
    BY <1>1, <1>2, <2>1, LiveIs DEF SessionsInv, Told
  <2>3. ttl = [m \in Tokens |-> IF m = t THEN ttl[t] ELSE ttl[m]]
    BY <1>2 DEF Typed
  <2>4. s \in Int /\ ttl[t] - Lifetime <= s /\ s <= ttl[t] - Lifetime + Lag
    BY <1>2, <2>2
  <2>5. Fits(t, ttl[t], s)
    <3>1. ASSUME NEW k \in Members
          PROVE  /\ s <= score[k] => ttl[t] <= ttl[k] + Lag
                 /\ score[k] <= s => ttl[k] <= ttl[t] + Lag
      <4>1. k \in Tokens /\ score[k] \in Int /\ ttl[k] \in 0..Lifetime
        BY <1>2 DEF Members, Typed
      <4>2. ttl[k] - Lifetime <= score[k]
        BY <1>2 DEF Floor, Members
      <4>3. score[k] <= ttl[k] - Lifetime + Lag \/ ttl[t] <= ttl[k]
        BY <1>2, <2>1 DEF Ranked, Members, InTime
      <4> QED BY <1>2, <2>2, <2>4, <4>1, <4>2, <4>3
    <3> QED BY <2>4, <3>1 DEF Fits
  <2> DEFINE score1 == s
             ends == page
             life == ttl[t]
  <2>6. /\ Put(ttl, Pruned(ttl), t, score1, ends) /\ score1 \in Int /\ ends \in 1..Lifetime
        /\ life \in 1..Lifetime /\ ends >= life
        /\ ttl = [m \in Tokens |-> IF m = t THEN life ELSE ttl[m]]
    BY <1>2, <1>5, <2>2, <2>3, <2>4
  <2> HIDE DEF score1, ends, life
  <2>7. \E out : Joins(t, life, score1, out)
    BY <1>2, <2>1, <2>6, PutJoins
  <2>8. Adopts(n, t)
    BY <1>1, <2>1, <2>4, <2>5, <2>7 DEF Adopts, score1, life
  <2> QED BY <1>1, <1>2, <2>8
<1>6. CASE ~MayAdopt(t) /\ score' = Pruned(ttl) /\ UNCHANGED ttl
           /\ indexTTL' = IF DOMAIN Pruned(ttl) = {} THEN 0 ELSE indexTTL
  <2>1. Passes(n, t)
    BY <1>1, <1>3, <1>4, <1>6 DEF Passes
  <2> QED BY <1>1, <1>2, <2>1
<1> QED BY <1>1, <1>5, <1>6

-----------------------------------------------------------------------------
(***************************************************************************)
(* What the scans know.                                                    *)
(***************************************************************************)

\* Who is valid afterwards is in the sorted set or was valid outside of it, not t.
Stays(t) == \A m \in Tokens : Live(m)' => \/ m \in DOMAIN score'
                                          \/ m # t /\ Live(m) /\ m \notin DOMAIN score

\* And has what it had left, but for t.
Lasts(t) == \A m \in Tokens : Live(m)' => m = t \/ ttl'[m] = ttl[m]

LEMMA SeenIs ==
  ASSUME Typed, Seen, NEW n \in Gateways, scan[n].pc = "scan", NEW m \in Tokens, Live(m),
         m \notin DOMAIN score
  PROVE  m \in scan[n].todo \/ m \in DOMAIN scan[n].page
BY DEF Typed, Seen, Sessions, Live

LEMMA AllInKept ==
  ASSUME Typed, AllIn, UNCHANGED adopted, NEW t \in Tokens, Stays(t)
  PROVE  AllIn'
<1>1. ASSUME adopted, NEW m \in Tokens, ttl'[m] > 0 PROVE m \in DOMAIN score'
  <2>1. Live(m) => m \in DOMAIN score
    BY <1>1 DEF AllIn, Sessions, Live
  <2> QED BY <1>1, <2>1 DEF Stays, Live
<1> QED BY <1>1 DEF AllIn, Sessions

\* No gateway did anything.
LEMMA ScansKept ==
  ASSUME SessionsInv, UNCHANGED <<scan, adopted>>, NEW t \in Tokens, Stays(t), Lasts(t),
         \A n \in Gateways : t \in DOMAIN scan[n].page => ~Live(t)' \/ ttl'[t] = ttl[t]
  PROVE  ScanTyped' /\ Seen' /\ Told' /\ AllIn'
<1>1. ScanTyped'
  BY DEF SessionsInv, ScanTyped
<1>2. Seen'
  <2>1. ASSUME NEW n \in Gateways, scan[n].pc = "scan", NEW m \in Tokens, ttl'[m] > 0,
               m \notin DOMAIN score'
        PROVE  m \in scan[n].todo \/ m \in DOMAIN scan[n].page
    <3>1. Live(m) /\ m \notin DOMAIN score
      BY <2>1 DEF Stays, Live
    <3> QED BY <2>1, <3>1, SeenIs DEF SessionsInv, IndexAll
  <2> QED BY <2>1 DEF Seen, Sessions
<1>3. Told'
  <2>1. ASSUME NEW n \in Gateways, NEW m \in DOMAIN scan[n].page, Live(m)'
        PROVE  ttl'[m] <= scan[n].page[m] /\ scan[n].page[m] <= ttl'[m] + scan[n].lag
    <3>1. m \in Tokens
      BY DEF SessionsInv, ScanTyped
    <3>2. ttl'[m] = ttl[m]
      BY <2>1, <3>1 DEF Lasts
    <3> QED BY <2>1, <3>2 DEF SessionsInv, Told, Live
  <2> QED BY <2>1 DEF Told
<1>4. AllIn'
  BY AllInKept DEF SessionsInv, IndexAll
<1> QED BY <1>1, <1>2, <1>3, <1>4

\* Gateway n had asked for t, and has no question about it any more.
LEMMA PageShrinks ==
  ASSUME SessionsInv, NEW n \in Gateways, NEW t \in Tokens, Stays(t),
         \A m \in Tokens : Live(m)' => ttl'[m] = ttl[m], UNCHANGED adopted,
         scan' = [scan EXCEPT ![n].page = [m \in DOMAIN scan[n].page \ {t} |-> scan[n].page[m]]]
  PROVE  ScanTyped' /\ Seen' /\ Told' /\ AllIn'
<1>1. /\ DOMAIN scan' = Gateways
      /\ \A k \in Gateways :
           /\ DOMAIN scan'[k] = Fields
           /\ scan'[k].pc = scan[k].pc /\ scan'[k].todo = scan[k].todo /\ scan'[k].lag = scan[k].lag
           /\ DOMAIN scan'[k].page \subseteq DOMAIN scan[k].page
           /\ \A m \in DOMAIN scan'[k].page : scan'[k].page[m] = scan[k].page[m]
           /\ \A m \in DOMAIN scan[k].page : m # t => m \in DOMAIN scan'[k].page
  BY DEF SessionsInv, ScanTyped, Fields, NoScan
<1>2. ScanTyped'
  BY <1>1 DEF SessionsInv, ScanTyped
<1>3. Seen'
  <2>1. ASSUME NEW k \in Gateways, scan[k].pc = "scan", NEW m \in Tokens, ttl'[m] > 0,
               m \notin DOMAIN score'
        PROVE  m \in scan[k].todo \/ m \in DOMAIN scan'[k].page
    <3>1. Live(m) /\ m \notin DOMAIN score /\ m # t
      BY <2>1 DEF Stays, Live
    <3> QED BY <1>1, <2>1, <3>1, SeenIs DEF SessionsInv, IndexAll
  <2> QED BY <1>1, <2>1 DEF Seen, Sessions
<1>4. Told'
  <2>1. ASSUME NEW k \in Gateways, NEW m \in DOMAIN scan'[k].page, Live(m)'
        PROVE  ttl'[m] <= scan'[k].page[m] /\ scan'[k].page[m] <= ttl'[m] + scan'[k].lag
    <3>1. m \in Tokens /\ m \in DOMAIN scan[k].page
      BY <1>1 DEF SessionsInv, ScanTyped
    <3>2. ttl'[m] = ttl[m]
      BY <2>1, <3>1
    <3> QED BY <1>1, <2>1, <3>1, <3>2 DEF SessionsInv, Told, Live
  <2> QED BY <2>1 DEF Told
<1>5. AllIn'
  BY AllInKept DEF SessionsInv, IndexAll
<1> QED BY <1>2, <1>3, <1>4, <1>5

-----------------------------------------------------------------------------
(***************************************************************************)
(* The steps.                                                              *)
(***************************************************************************)

LEMMA LoginKeeps ==
  ASSUME SessionsInv, NEW t \in Tokens, Login(t)
  PROVE  SessionsInv'
<1> DEFINE s == LoginScore(Pruned(ttl))
<1>1. /\ IndexAll /\ t \notin Members /\ ttl[t] = 0 /\ Lifetime \in 1..Lifetime /\ s \in Int
      /\ Fits(t, Lifetime, s)
      /\ \A n \in Gateways : t \notin DOMAIN scan[n].page
      /\ UNCHANGED <<scan, adopted>>
      /\ \E out : Joins(t, Lifetime, s, out)
  BY LoginJoins DEF SessionsInv
<1> HIDE DEF s
<1>2. PICK out : Joins(t, Lifetime, s, out)
  BY <1>1
<1>3. IndexAll' /\ Stays(t) /\ Lasts(t)
  BY <1>1, <1>2, JoinKeeps DEF Stays, Lasts
<1>4. ScanTyped' /\ Seen' /\ Told' /\ AllIn'
  BY <1>1, <1>3, ScansKept
<1> QED BY <1>3, <1>4 DEF SessionsInv

LEMMA LogoutKeeps ==
  ASSUME SessionsInv, NEW t \in Tokens, Logout(t)
  PROVE  SessionsInv'
<1>1. /\ IndexAll /\ Typed /\ UNCHANGED <<scan, adopted>>
      /\ \A m \in Tokens : ttl'[m] = IF m = t THEN 0 ELSE ttl[m]
      /\ ttl' \in [Tokens -> 0..Lifetime]
  BY SessionsAssumption DEF Logout, SessionsInv, IndexAll, Typed
<1>2. /\ DOMAIN score' = DOMAIN score \ {t}
      /\ \A m \in DOMAIN score' : score'[m] = score[m]
      /\ indexTTL' \in Nat
      /\ DOMAIN score' # {} => indexTTL' = indexTTL
  BY <1>1 DEF Logout, Typed
<1>3. /\ \A m \in DOMAIN score \ DOMAIN score' : ttl'[m] = 0
      /\ \A m \in Tokens : ttl'[m] \in {0, ttl[m]}
      /\ DOMAIN score' \subseteq DOMAIN score
  BY <1>1, <1>2
<1>4. IndexAll'
  BY <1>1, <1>2, <1>3, ShrinkKeeps
<1>5. /\ ~Live(t)'
      /\ \A m \in Tokens : Live(m)' => m # t /\ Live(m) /\ ttl'[m] = ttl[m]
  BY <1>1 DEF Live
<1>6. Stays(t) /\ Lasts(t)
  BY <1>2, <1>5 DEF Stays, Lasts
<1>7. ScanTyped' /\ Seen' /\ Told' /\ AllIn'
  BY <1>1, <1>5, <1>6, ScansKept
<1> QED BY <1>4, <1>7 DEF SessionsInv

LEMMA AdoptKeeps ==
  ASSUME SessionsInv, NEW n \in Gateways, Adopt(n)
  PROVE  SessionsInv'
<1>1. PICK t \in Tokens :
        /\ scan' = [scan EXCEPT ![n].page = [m \in DOMAIN scan[n].page \ {t} |-> scan[n].page[m]]]
        /\ UNCHANGED adopted
        /\ Adopts(n, t) \/ Passes(n, t)
  BY AdoptIs
<1>2. IndexAll /\ Typed
  BY DEF SessionsInv, IndexAll
<1>3. IndexAll' /\ Stays(t) /\ \A m \in Tokens : Live(m)' => ttl'[m] = ttl[m]
  <2>1. CASE Adopts(n, t)
    <3> DEFINE s == scan[n].page[t] - Lifetime
               life == ttl[t]
    <3>1. /\ t \notin Members /\ life \in 1..Lifetime /\ s \in Int /\ Fits(t, life, s)
          /\ \E out : Joins(t, life, s, out)
      BY <1>2, <2>1, LiveIs, SessionsAssumption DEF Adopts, Live
    <3>2. PICK life0 \in 1..Lifetime : life0 = life
      BY <3>1
    <3> HIDE DEF s
    <3>3. PICK out : Joins(t, life0, s, out)
      BY <3>1, <3>2
    <3>4. /\ IndexAll'
          /\ \A m \in Tokens : Live(m)' => \/ m \in DOMAIN score'
                                           \/ m # t /\ Live(m) /\ m \notin DOMAIN score
          /\ \A m \in Tokens : Live(m)' => (m = t /\ ttl'[m] = life0) \/ ttl'[m] = ttl[m]
      BY <1>2, <3>1, <3>2, <3>3, JoinKeeps
    <3> QED BY <3>2, <3>4 DEF Stays
  <2>2. CASE Passes(n, t)
    <3>1. /\ DOMAIN score' = Members /\ \A m \in Members : score'[m] = score[m]
          /\ indexTTL' = IF Members = {} THEN 0 ELSE indexTTL
          /\ ttl' = ttl /\ (t \in Members \/ ~Live(t))
      BY <2>2 DEF Passes
    <3>2. /\ Members \subseteq DOMAIN score /\ ttl' \in [Tokens -> 0..Lifetime]
          /\ indexTTL' \in Nat /\ (DOMAIN score' # {} => indexTTL' = indexTTL)
      BY <1>2, <3>1 DEF Typed, Members
    <3>3. \A m \in DOMAIN score \ DOMAIN score' : ttl'[m] = 0
      BY <1>2, <3>1, LiveIs DEF Members, Typed
    <3>4. IndexAll'
      BY <1>2, <3>1, <3>2, <3>3, ShrinkKeeps
    <3>5. Stays(t)
      <4>1. ASSUME NEW m \in Tokens, Live(m)'
            PROVE  m \in DOMAIN score' \/ (m # t /\ Live(m) /\ m \notin DOMAIN score)
        <5>1. Live(m)
          BY <3>1, <4>1 DEF Live
        <5>2. m \in DOMAIN score => m \in DOMAIN score'
          BY <3>1, <5>1 DEF Members
        <5>3. t \in Members => t \in DOMAIN score'
          BY <3>1
        <5> QED BY <3>1, <5>1, <5>2, <5>3
      <4> QED BY <4>1 DEF Stays
    <3> QED BY <3>1, <3>4, <3>5
  <2> QED BY <1>1, <2>1, <2>2
<1>4. ScanTyped' /\ Seen' /\ Told' /\ AllIn'
  BY <1>1, <1>3, PageShrinks
<1> QED BY <1>3, <1>4 DEF SessionsInv

\* Steps of a gateway that leave the sessions alone.
LEMMA ScanKeeps ==
  ASSUME SessionsInv, NEW n \in Gateways, UNCHANGED <<ttl, score, indexTTL>>,
         DOMAIN scan' = Gateways, \A k \in Gateways \ {n} : scan'[k] = scan[k],
         DOMAIN scan'[n] = Fields, scan'[n].lag \in 0..Lag,
         DOMAIN scan'[n].page \subseteq Sessions,
         \A t \in DOMAIN scan'[n].page : scan'[n].page[t] = ttl[t],
         scan'[n].pc = "scan" =>
           Sessions \subseteq DOMAIN score \cup scan'[n].todo \cup DOMAIN scan'[n].page,
         adopted' => Sessions \subseteq DOMAIN score
  PROVE  SessionsInv'
<1>1. IndexAll'
  BY DEF SessionsInv, IndexAll, Typed, IndexInv, Floor, Order, Ranked, InTime, Live
<1>2. /\ Typed /\ Sessions' = Sessions /\ Sessions \subseteq Tokens
      /\ \A t \in Sessions : ttl[t] \in 1..Lifetime
  BY LiveIs, SessionsAssumption DEF SessionsInv, IndexAll, Sessions, Live
<1>3. ScanTyped'
  <2>1. ASSUME NEW k \in Gateways
        PROVE  /\ DOMAIN scan'[k] = Fields
               /\ scan'[k].lag \in 0..Lag
               /\ DOMAIN scan'[k].page \subseteq Tokens
               /\ \A t \in DOMAIN scan'[k].page : scan'[k].page[t] \in 1..Lifetime
    <3>1. CASE k = n
      BY <1>2, <3>1
    <3>2. CASE k # n
      BY <3>2 DEF SessionsInv, ScanTyped
    <3> QED BY <3>1, <3>2
  <2> QED BY <2>1 DEF ScanTyped
<1>4. Seen'
  BY <1>2 DEF SessionsInv, Seen
<1>5. Told'
  <2>1. ASSUME NEW k \in Gateways, NEW t \in DOMAIN scan'[k].page, Live(t)'
        PROVE  ttl'[t] <= scan'[k].page[t] /\ scan'[k].page[t] <= ttl'[t] + scan'[k].lag
    <3>1. CASE k = n
      BY <1>2, <2>1, <3>1, SessionsAssumption
    <3>2. CASE k # n
      BY <2>1, <3>2 DEF SessionsInv, Told, Live
    <3> QED BY <3>1, <3>2
  <2> QED BY <2>1 DEF Told
<1>6. AllIn'
  BY <1>2 DEF AllIn
<1> QED BY <1>1, <1>3, <1>4, <1>5, <1>6 DEF SessionsInv

LEMMA GatewayKeeps ==
  ASSUME SessionsInv, NEW n \in Gateways, Start(n) \/ ScanPage(n) \/ ScanEnd(n) \/ Exit(n)
  PROVE  SessionsInv'
<1>1. /\ DOMAIN scan = Gateways /\ \A k \in Gateways : DOMAIN scan[k] = Fields
      /\ Lag \in Nat /\ DOMAIN EmptyIndex = {}
      /\ adopted => Sessions \subseteq DOMAIN score
      /\ scan[n].pc = "scan" =>
           Sessions \subseteq DOMAIN score \cup scan[n].todo \cup DOMAIN scan[n].page
  BY SessionsAssumption DEF SessionsInv, ScanTyped, AllIn, EmptyIndex, Seen
<1>2. CASE Start(n)
  <2>1. /\ scan' = [scan EXCEPT ![n] = [NoScan EXCEPT !.pc = "scan", !.todo = Sessions]]
        /\ UNCHANGED <<ttl, score, indexTTL, adopted>>
    BY <1>2 DEF Start
  <2>2. /\ scan'[n].lag = 0 /\ scan'[n].page = EmptyIndex /\ DOMAIN scan'[n] = Fields
        /\ scan'[n].todo = Sessions
        /\ DOMAIN scan' = Gateways /\ \A k \in Gateways \ {n} : scan'[k] = scan[k]
    BY <1>1, <2>1 DEF NoScan, Fields
  <2> QED BY <1>1, <2>1, <2>2, ScanKeeps
<1>3. CASE ScanPage(n)
  <2>1. PICK keys \in SUBSET scan[n].todo \ {{}} :
          scan' = [scan EXCEPT ![n].todo = @ \ keys, ![n].lag = 0,
                               ![n].page = [t \in keys \cap Sessions |-> ttl[t]]]
    BY <1>3 DEF ScanPage
  <2>2. /\ scan[n].pc = "scan" /\ DOMAIN scan[n].page = {}
        /\ UNCHANGED <<ttl, score, indexTTL, adopted>>
    BY <1>3 DEF ScanPage
  <2>3. /\ scan'[n].lag = 0 /\ scan'[n].page = [t \in keys \cap Sessions |-> ttl[t]]
        /\ DOMAIN scan'[n] = Fields
        /\ scan'[n].todo = scan[n].todo \ keys
        /\ DOMAIN scan' = Gateways /\ \A k \in Gateways \ {n} : scan'[k] = scan[k]
    BY <1>1, <2>1 DEF NoScan, Fields
  <2>4. /\ DOMAIN scan'[n].page = keys \cap Sessions
        /\ \A t \in DOMAIN scan'[n].page : scan'[n].page[t] = ttl[t]
    BY <2>3
  <2>5. Sessions \subseteq DOMAIN score \cup scan'[n].todo \cup DOMAIN scan'[n].page
    BY <1>1, <2>2, <2>3, <2>4
  <2>6. scan'[n].lag \in 0..Lag /\ (adopted' => Sessions \subseteq DOMAIN score)
    BY <1>1, <2>2, <2>3
  <2> QED BY <2>2, <2>3, <2>4, <2>5, <2>6, ScanKeeps
<1>4. CASE ScanEnd(n)
  <2>1. /\ scan' = [scan EXCEPT ![n] = [NoScan EXCEPT !.pc = "done"]]
        /\ UNCHANGED <<ttl, score, indexTTL>>
        /\ Sessions \subseteq DOMAIN score
    BY <1>1, <1>4 DEF ScanEnd
  <2>2. /\ scan'[n].lag = 0 /\ scan'[n].page = EmptyIndex /\ DOMAIN scan'[n] = Fields
        /\ scan'[n].pc = "done"
        /\ DOMAIN scan' = Gateways /\ \A k \in Gateways \ {n} : scan'[k] = scan[k]
    BY <1>1, <2>1 DEF NoScan, Fields
  <2> QED BY <1>1, <2>1, <2>2, ScanKeeps
<1>5. CASE Exit(n)
  <2>1. /\ scan' = [scan EXCEPT ![n] = NoScan]
        /\ UNCHANGED <<ttl, score, indexTTL, adopted>>
    BY <1>5 DEF Exit
  <2>2. /\ scan'[n].lag = 0 /\ scan'[n].page = EmptyIndex /\ DOMAIN scan'[n] = Fields
        /\ scan'[n].pc = "off"
        /\ DOMAIN scan' = Gateways /\ \A k \in Gateways \ {n} : scan'[k] = scan[k]
    BY <1>1, <2>1 DEF NoScan, Fields
  <2> QED BY <1>1, <2>1, <2>2, ScanKeeps
<1> QED BY <1>2, <1>3, <1>4, <1>5

LEMMA DownIs == \A i \in Nat : Down(i) \in Nat /\ Down(i) <= i /\ (i > 0 => Down(i) = i - 1)
BY DEF Down

\* Everything grows older by one, the scores too.
LEMMA TickKeeps ==
  ASSUME SessionsInv, Tick
  PROVE  SessionsInv'
<1>1. /\ Typed /\ IndexInv /\ Floor /\ Order /\ Ranked /\ ScanTyped /\ Seen /\ Told /\ AllIn
      /\ Lifetime \in Nat /\ Lag \in Nat /\ Limit \in Nat /\ UNCHANGED adopted
  BY SessionsAssumption DEF SessionsInv, IndexAll, Tick
<1>2. /\ \A m \in Tokens : ttl[m] \in 0..Lifetime /\ ttl'[m] = Down(ttl[m])
      /\ ttl' \in [Tokens -> 0..Lifetime]
      /\ indexTTL' \in Nat /\ indexTTL' = Down(indexTTL) /\ indexTTL \in Nat
  BY <1>1, DownIs DEF Tick, Typed
<1>3. \A m \in Tokens : ttl'[m] > 0 => ttl'[m] = ttl[m] - 1 /\ ttl[m] > 0
  BY <1>1, <1>2, DownIs
<1>4. /\ DOMAIN score' \subseteq DOMAIN score /\ DOMAIN score' \subseteq Tokens
      /\ \A m \in DOMAIN score' : score[m] \in Int /\ score'[m] = score[m] - 1
      /\ indexTTL' > 0 => DOMAIN score' = DOMAIN score
  BY <1>1, <1>2 DEF Tick, EmptyIndex, Typed
<1>5. \A m \in Tokens : ttl'[m] > 0 /\ m \in DOMAIN score => m \in DOMAIN score'
  <2>1. ASSUME NEW m \in Tokens, ttl'[m] > 0, m \in DOMAIN score PROVE indexTTL' > 0
    <3>1. ttl[m] <= indexTTL
      BY <1>1, <2>1 DEF IndexInv
    <3> QED BY <1>1, <1>2, <1>3, <2>1, <3>1, DownIs
  <2> QED BY <1>4, <2>1
<1>6. Typed'
  BY <1>2, <1>4 DEF Typed
<1>7. IndexInv'
  <2>1. Cardinality(DOMAIN score') <= Cardinality(DOMAIN score) /\ Cardinality(DOMAIN score') \in Nat
        /\ Cardinality(DOMAIN score) \in Nat
    BY <1>1, <1>4, SessionsAssumption, FS_Subset, FS_CardinalityType DEF Typed
  <2>2. ASSUME NEW m \in DOMAIN score' PROVE ttl'[m] <= indexTTL'
    BY <1>1, <1>2, <1>4, <2>2, DownIs DEF IndexInv, Typed, Down
  <2> QED BY <1>1, <2>1, <2>2 DEF IndexInv
<1>8. Floor'
  BY <1>1, <1>2, <1>3, <1>4 DEF Floor, Live
<1>9. Order'
  <2>1. ASSUME NEW e \in DOMAIN score', NEW k \in DOMAIN score', ttl'[e] > 0, ttl'[k] > 0, score'[e] <= score'[k]
        PROVE  ttl'[e] <= ttl'[k] + Lag
    <3>1. /\ e \in Tokens /\ k \in Tokens /\ e \in DOMAIN score /\ k \in DOMAIN score
          /\ score[e] <= score[k]
      BY <1>4, <2>1
    <3>2. ttl[e] <= ttl[k] + Lag
      BY <1>1, <1>3, <2>1, <3>1 DEF Order, Live
    <3> QED BY <1>1, <1>2, <1>3, <2>1, <3>1, <3>2
  <2> QED BY <2>1 DEF Order, Live
<1>10. Ranked'
  <2>1. ASSUME NEW e \in Tokens \ DOMAIN score', NEW k \in DOMAIN score', ttl'[e] > 0, ttl'[k] > 0
        PROVE  score'[k] <= ttl'[k] - Lifetime + Lag \/ ttl'[e] <= ttl'[k]
    <3>1. /\ k \in Tokens /\ k \in DOMAIN score /\ e \notin DOMAIN score /\ ttl[e] > 0 /\ ttl[k] > 0
      BY <1>3, <1>4, <1>5, <2>1
    <3>2. score[k] <= ttl[k] - Lifetime + Lag \/ ttl[e] <= ttl[k]
      BY <1>1, <3>1 DEF Ranked, Live, InTime
    <3> QED BY <1>1, <1>2, <1>3, <1>4, <2>1, <3>1, <3>2
  <2> QED BY <2>1 DEF Ranked, Live, InTime
<1>11. /\ DOMAIN scan' = Gateways
       /\ \A n \in Gateways :
            /\ scan'[n].pc = scan[n].pc /\ scan'[n].todo = scan[n].todo /\ scan'[n].page = scan[n].page
            /\ DOMAIN scan'[n] = Fields
            /\ IF DOMAIN scan[n].page = {} THEN scan'[n].lag = scan[n].lag
               ELSE scan[n].lag < Lag /\ scan'[n].lag = scan[n].lag + 1
  BY <1>1 DEF Tick, ScanTyped, Fields, NoScan
<1>12. ScanTyped'
  <2>1. ASSUME NEW n \in Gateways PROVE scan'[n].lag \in 0..Lag
    BY <1>1, <1>11 DEF ScanTyped
  <2> QED BY <1>1, <1>11, <2>1 DEF ScanTyped
<1>13. Seen'
  <2>1. ASSUME NEW n \in Gateways, scan'[n].pc = "scan", NEW m \in Tokens, ttl'[m] > 0,
               m \notin DOMAIN score'
        PROVE  m \in scan'[n].todo \/ m \in DOMAIN scan'[n].page
    <3>1. Live(m) /\ m \notin DOMAIN score
      BY <1>3, <1>5, <2>1 DEF Live
    <3> QED BY <1>1, <1>11, <2>1, <3>1, SeenIs
  <2> QED BY <2>1 DEF Seen, Sessions
<1>14. Told'
  <2>1. ASSUME NEW n \in Gateways, NEW m \in DOMAIN scan'[n].page, ttl'[m] > 0
        PROVE  ttl'[m] <= scan'[n].page[m] /\ scan'[n].page[m] <= ttl'[m] + scan'[n].lag
    <3>1. m \in Tokens /\ m \in DOMAIN scan[n].page /\ scan[n].page[m] \in Int /\ scan[n].lag \in Int
      BY <1>1, <1>11 DEF ScanTyped
    <3>2. ttl'[m] = ttl[m] - 1 /\ ttl[m] > 0 /\ ttl[m] \in Int
      BY <1>2, <1>3, <2>1, <3>1
    <3>3. ttl[m] <= scan[n].page[m] /\ scan[n].page[m] <= ttl[m] + scan[n].lag
      BY <1>1, <3>1, <3>2 DEF Told, Live
    <3>4. scan'[n].page[m] = scan[n].page[m] /\ scan'[n].lag = scan[n].lag + 1
      BY <1>11, <3>1
    <3> QED BY <3>1, <3>2, <3>3, <3>4
  <2> QED BY <2>1 DEF Told, Live
<1>15. AllIn'
  <2>1. ASSUME adopted, NEW m \in Tokens, ttl'[m] > 0 PROVE m \in DOMAIN score'
    <3>1. m \in DOMAIN score
      BY <1>1, <1>3, <2>1 DEF AllIn, Sessions
    <3> QED BY <1>5, <2>1, <3>1
  <2> QED BY <1>1, <2>1 DEF AllIn, Sessions
<1> QED BY <1>6, <1>7, <1>8, <1>9, <1>10, <1>12, <1>13, <1>14, <1>15 DEF SessionsInv, IndexAll

LEMMA InitInv == SessionsInit => SessionsInv
<1> SUFFICES ASSUME SessionsInit PROVE SessionsInv
  OBVIOUS
<1>1. /\ DOMAIN score = {} /\ indexTTL = 0 /\ ~adopted /\ ttl \in [Tokens -> 0..Lifetime]
      /\ DOMAIN scan = Gateways /\ \A n \in Gateways : scan[n] = NoScan
      /\ Lag \in Nat /\ Limit \in Nat
  BY SessionsAssumption DEF SessionsInit, EmptyIndex
<1>2. IndexAll
  BY <1>1, FS_EmptySet DEF IndexAll, Typed, IndexInv, Floor, Order, Ranked
<1>3. DOMAIN NoScan.page = {} /\ NoScan.lag = 0 /\ NoScan.pc = "off"
  BY DEF NoScan, EmptyIndex
<1>4. ScanTyped /\ Seen /\ Told /\ AllIn
  BY <1>1, <1>3 DEF ScanTyped, Seen, Told, AllIn, Fields
<1> QED BY <1>2, <1>4 DEF SessionsInv

LEMMA NextInv == SessionsInv /\ [SessionsNext]_sessionVars => SessionsInv'
<1> SUFFICES ASSUME SessionsInv, [SessionsNext]_sessionVars PROVE SessionsInv'
  OBVIOUS
<1>1. CASE Tick
  BY <1>1, TickKeeps
<1>2. ASSUME NEW t \in Tokens, Login(t) \/ Logout(t) PROVE SessionsInv'
  BY <1>2, LoginKeeps, LogoutKeeps
<1>3. ASSUME NEW n \in Gateways, Adopt(n) PROVE SessionsInv'
  BY <1>3, AdoptKeeps
<1>4. ASSUME NEW n \in Gateways, Start(n) \/ ScanPage(n) \/ ScanEnd(n) \/ Exit(n) PROVE SessionsInv'
  BY <1>4, GatewayKeeps
<1>5. CASE UNCHANGED sessionVars
  BY <1>5 DEF sessionVars, SessionsInv, IndexAll, Typed, IndexInv, Floor, Order, Ranked, InTime,
              ScanTyped, Seen, Told, AllIn, Live, Sessions
<1> QED BY <1>1, <1>2, <1>3, <1>4, <1>5 DEF SessionsNext

LEMMA Inductive == SessionsSpec => []SessionsInv
BY InitInv, NextInv, PTL DEF SessionsSpec

-----------------------------------------------------------------------------
(***************************************************************************)
(* The theorems.                                                           *)
(***************************************************************************)

\* Once one gateway has started, no more sessions than the limit are valid,
\* however many gateways log administrators in, adopt old sessions, stop and
\* start, and whatever expires between their steps (putAdminSessionScript,
\* migrateAdminSessions).
THEOREM SessionsAreCapped == SessionsSpec => []SessionsCapped
<1>1. SessionsInv => SessionsCapped
  <2> SUFFICES ASSUME SessionsInv, adopted PROVE Cardinality(Sessions) <= Limit
    BY DEF SessionsCapped
  <2>1. /\ Sessions \subseteq DOMAIN score /\ DOMAIN score \subseteq Tokens
        /\ Cardinality(DOMAIN score) <= Limit
    BY DEF SessionsInv, AllIn, IndexAll, Typed, IndexInv
  <2>2. IsFiniteSet(DOMAIN score) /\ IsFiniteSet(Sessions)
    BY <2>1, SessionsAssumption, FS_Subset
  <2>3. Cardinality(Sessions) <= Cardinality(DOMAIN score)
    BY <2>1, <2>2, FS_Subset
  <2>4. Cardinality(Sessions) \in Nat /\ Cardinality(DOMAIN score) \in Nat /\ Limit \in Nat
    BY <2>2, FS_CardinalityType, SessionsAssumption
  <2> QED BY <2>1, <2>3, <2>4
<1> QED BY <1>1, Inductive, PTL

Earned(t) ==
  Left(t) > 0 /\ ttl'[t] = 0 /\ ~Logout(t) /\ ~Tick =>
    /\ Cardinality({k \in Tokens : ttl'[k] > 0}) >= Limit
    /\ \A k \in DOMAIN score' : ttl'[k] > 0 => Left(t) <= ttl'[k] + Lag

\* A session that joins evicts only what the limit earns it.
LEMMA JoinEarns ==
  ASSUME IndexAll, NEW t \in Tokens, t \notin Members, NEW life \in 1..Lifetime, NEW s \in Int,
         NEW out, Joins(t, life, s, out), Fits(t, life, s), NEW o \in Tokens,
         Left(o) = IF o = t THEN life ELSE ttl[o]
  PROVE  Earned(o)
<1> SUFFICES ASSUME Left(o) > 0, ttl'[o] = 0
             PROVE  /\ Cardinality({k \in Tokens : ttl'[k] > 0}) >= Limit
                    /\ \A k \in DOMAIN score' : ttl'[k] > 0 => Left(o) <= ttl'[k] + Lag
  BY DEF Earned
<1>1. ttl'[o] = IF o \in out THEN 0 ELSE IF o = t THEN life ELSE ttl[o]
  BY DEF Joins
<1>2. Left(o) \in Int
  BY DEF IndexAll, Typed
<1>3. o \in out
  BY <1>1, <1>2
<1>4. /\ Cardinality({k \in Tokens : ttl'[k] > 0}) >= Limit
      /\ \A k \in DOMAIN score' : (IF o = t THEN life ELSE ttl[o]) <= ttl'[k] + Lag
  BY <1>3, JoinEvicts, Zenon
<1>5. \A k \in DOMAIN score' : Left(o) <= ttl'[k] + Lag
  BY <1>4
<1> QED BY <1>4, <1>5

\* Who logs in comes last and stays.
LEMMA LoginStays ==
  ASSUME IndexAll, NEW t \in Tokens, Login(t)
  PROVE  ttl'[t] = Lifetime /\ Lifetime > 0
<1> DEFINE s == LoginScore(Pruned(ttl))
<1>1. /\ \E out : Joins(t, Lifetime, s, out)
      /\ s \in Nat /\ \A m \in Members : score[m] < s
      /\ \A m \in Members : score[m] \in Int
      /\ Limit \in Nat \ {0} /\ Lifetime \in Nat \ {0}
  BY LoginJoins, LoginScoreIs, SessionsAssumption DEF IndexAll, Typed, Members
<1> HIDE DEF s
<1>2. PICK out : Joins(t, Lifetime, s, out)
  BY <1>1
<1>3. ASSUME t \in out PROVE FALSE
  <2>1. ASSUME NEW k \in DOMAIN score' PROVE FALSE
    <3>1. k \in Members /\ k # t /\ s <= score[k]
      BY <1>2, <1>3, <2>1 DEF Joins
    <3> QED BY <1>1, <3>1
  <2>2. DOMAIN score' = {}
    BY <2>1
  <2>3. Cardinality(DOMAIN score') = Limit
    BY <1>2, <1>3 DEF Joins
  <2> QED BY <1>1, <2>2, <2>3, FS_EmptySet
<1> QED BY <1>1, <1>2, <1>3 DEF Joins

LEMMA StepEarns ==
  ASSUME SessionsInv, SessionsNext, NEW o \in Tokens
  PROVE  Earned(o)
<1>1. IndexAll /\ Typed /\ Lifetime \in Nat
  BY SessionsAssumption DEF SessionsInv, IndexAll
<1>2. ASSUME NEW t \in Tokens, Login(t) PROVE Earned(o)
  <2> DEFINE s == LoginScore(Pruned(ttl))
  <2>1. /\ t \notin Members /\ ttl[t] = 0 /\ Lifetime \in 1..Lifetime /\ s \in Int
        /\ Fits(t, Lifetime, s) /\ \E out : Joins(t, Lifetime, s, out)
    BY <1>1, <1>2, LoginJoins
  <2> HIDE DEF s
  <2>2. PICK out : Joins(t, Lifetime, s, out)
    BY <2>1
  <2>3. CASE o = t
    <3>1. Left(o) = Lifetime
      BY <1>2, <2>3 DEF Left
    <3> QED BY <1>1, <2>1, <2>2, <2>3, <3>1, JoinEarns
  <2>4. CASE o # t /\ Login(o)
    <3>1. ttl'[t] = Lifetime /\ Lifetime > 0
      BY <1>1, <1>2, <2>1, LoginStays
    <3>2. ttl[t] = 0 /\ \E s2, out2 : Joins(o, Lifetime, s2, out2)
      BY <1>1, <2>1, <2>4, LoginJoins
    <3>3. ttl'[t] = 0
      BY <2>4, <3>2 DEF Joins
    <3> QED BY <1>1, <3>1, <3>3
  <2>5. CASE o # t /\ ~Login(o)
    <3>1. Left(o) = IF o = t THEN Lifetime ELSE ttl[o]
      BY <2>5 DEF Left
    <3> QED BY <1>1, <2>1, <2>2, <3>1, JoinEarns
  <2> QED BY <2>3, <2>4, <2>5
<1>3. ASSUME NEW n \in Gateways, Adopt(n) PROVE Earned(o)
  <2>1. PICK t \in Tokens : Adopts(n, t) \/ Passes(n, t)
    BY <1>3, AdoptIs
  <2>2. UNCHANGED adopted /\ Left(o) \in {Lifetime, ttl[o]} /\ (~Login(o) => Left(o) = ttl[o])
    BY <1>3 DEF Adopt, Left
  <2>3. ~Login(o)
    \* A login does not take anything from a page.
    <3>1. scan' # scan
      <4>1. PICK u \in DOMAIN scan[n].page :
              scan' = [scan EXCEPT ![n].page = [m \in DOMAIN scan[n].page \ {u} |-> scan[n].page[m]]]
        BY <1>3 DEF Adopt
      <4>2. DOMAIN scan'[n].page = DOMAIN scan[n].page \ {u}
        BY <4>1 DEF SessionsInv, ScanTyped, Fields, NoScan
      <4> QED BY <4>1, <4>2
    <3> QED BY <3>1 DEF Login
  <2>4. CASE Adopts(n, t)
    <3> DEFINE s == scan[n].page[t] - Lifetime
               life == ttl[t]
    <3>1. /\ t \notin Members /\ life \in 1..Lifetime /\ s \in Int /\ Fits(t, life, s)
          /\ \E out : Joins(t, life, s, out)
          /\ Left(o) = IF o = t THEN life ELSE ttl[o]
      BY <1>1, <2>2, <2>3, <2>4, LiveIs, SessionsAssumption DEF Adopts, Live
    <3>2. PICK life0 \in 1..Lifetime : life0 = life
      BY <3>1
    <3> HIDE DEF s
    <3>3. PICK out : Joins(t, life0, s, out)
      BY <3>1, <3>2
    <3> QED BY <1>1, <3>1, <3>2, <3>3, JoinEarns
  <2>5. CASE Passes(n, t)
    BY <1>1, <2>2, <2>3, <2>5 DEF Passes, Earned, Typed
  <2> QED BY <2>1, <2>4, <2>5
<1>4. ASSUME ttl' = ttl PROVE ~Login(o) => Earned(o)
  BY <1>1, <1>4 DEF Earned, Left, Typed
<1>5. ASSUME ttl' = ttl PROVE ~Login(o)
  BY <1>1, <1>5, LoginStays, LoginJoins
<1>6. ASSUME NEW n \in Gateways, Start(n) \/ ScanPage(n) \/ ScanEnd(n) \/ Exit(n) PROVE Earned(o)
  <2>1. ttl' = ttl
    BY <1>6 DEF Start, ScanPage, ScanEnd, Exit
  <2> QED BY <1>4, <1>5, <2>1
<1>7. ASSUME NEW t \in Tokens, Logout(t) PROVE Earned(o)
  <2>1. ttl' = [ttl EXCEPT ![t] = 0]
    BY <1>7 DEF Logout
  <2>2. CASE o = t
    BY <1>7, <2>2 DEF Earned
  <2>3. CASE o # t
    <3>1. ttl'[o] = ttl[o]
      BY <1>1, <2>1, <2>3 DEF Typed
    <3>2. ~Login(o)
      BY <1>1, <3>1, LoginStays, LoginJoins
    <3> QED BY <1>1, <3>1, <3>2 DEF Earned, Left, Typed
  <2> QED BY <2>2, <2>3
<1>8. ASSUME Tick PROVE Earned(o)
  BY <1>8 DEF Earned
<1> QED BY <1>2, <1>3, <1>6, <1>7, <1>8 DEF SessionsNext

\* A session ends before its time, without a logout, only for as many others as
\* the limit allows, and for none that is older by more than a gateway takes over
\* a page of keys, whatever the clocks and the old sessions' times of issue say
\* (putAdminSessionScript).
THEOREM EvictionsAreEarned == SessionsSpec => EvictionEarned
<1>1. ASSUME SessionsInv, [SessionsNext]_sessionVars
      PROVE  [\A t \in Tokens : Earned(t)]_sessionVars
  BY <1>1, StepEarns
<1>2. SessionsInv /\ [SessionsNext]_sessionVars => [\A t \in Tokens : Earned(t)]_sessionVars
  BY <1>1
<1>3. SessionsSpec => [][\A t \in Tokens : Earned(t)]_sessionVars
  BY <1>2, Inductive, PTL DEF SessionsSpec
<1> QED BY <1>3 DEF EvictionEarned, Earned

-----------------------------------------------------------------------------
(***************************************************************************)
(* The attempts of an address.                                             *)
(***************************************************************************)

Ages == 0..Window - 1

AddressTyped ==
  /\ address \in [blocked : Nat, window : 0..Window, count : 0..Tries, strikes : 0..5,
                  kept : 0..Memory]
  /\ granted \in [Ages -> Nat]

\* More time holds more attempts.
Grows == \A a, b \in Ages : a <= b => granted[a] <= granted[b]

\* Nothing is let through in a cooldown, and nothing was since the counters' last
\* write; the cooldown and the counters last no less than a window.
Quiet ==
  /\ \A a \in Ages : address.kept + a < Memory => granted[a] = 0
  /\ address.blocked > 0 =>
       /\ address.window = Window
       /\ \A a \in Ages : address.blocked + a < Window => granted[a] = 0

\* A window that runs started with an attempt, has counted the attempts since, and
\* the window before it has left out its first.
Running ==
  LET w == address.window IN
  w < Window =>
    /\ address.count >= 1 /\ granted[w] = address.count
    /\ w > 0 => granted[w - 1] < granted[w]
    /\ granted[Window - 1] <= address.count + Tries - 1

\* The next window finds less than one window's attempts, and none in this tick.
Over ==
  address.window = Window /\ address.blocked = 0 =>
    granted[0] = 0 /\ granted[Window - 1] < Tries

ThrottleInv == AddressTyped /\ Grows /\ Quiet /\ Running /\ Over /\ GrantsBounded

LEMMA AddressFields ==
  ASSUME AddressTyped
  PROVE  /\ address.blocked \in Nat /\ address.window \in 0..Window
         /\ address.count \in 0..Tries /\ address.strikes \in 0..5
         /\ address.kept \in 0..Memory
         /\ \A a \in Ages : granted[a] \in Nat
         /\ Window - 1 \in Ages /\ 0 \in Ages
         /\ \A a \in Ages : a \in Nat /\ a < Window /\ (a > 0 => a - 1 \in Ages)
         /\ address.window < Window => address.window \in Ages
BY ThrottleAssumption DEF AddressTyped, Ages

\* The cooldowns are no shorter than a window.
LEMMA DelayIs ==
  ASSUME NEW s \in 1..5
  PROVE  Delay(s) \in Nat /\ Delay(s) >= Window
<1>1. 2^0 = 1 /\ 2^1 = 2 /\ 2^2 = 4 /\ 2^3 = 8 /\ 2^4 = 16
  OBVIOUS
<1>2. PICK k \in {0, 1, 2, 3, 4} : k = s - 1
  OBVIOUS
<1>3. PICK f \in {1, 2, 4, 8, 16} : f = 2^k
  <2>1. CASE k = 0 BY <1>1, <2>1
  <2>2. CASE k = 1 BY <1>1, <2>2
  <2>3. CASE k = 2 BY <1>1, <2>3
  <2>4. CASE k = 3 BY <1>1, <2>4
  <2>5. CASE k = 4 BY <1>1, <2>5
  <2> QED BY <1>2, <2>1, <2>2, <2>3, <2>4, <2>5
<1>4. Delay(s) = IF f < LongestDelay THEN Window * f ELSE Window * LongestDelay
  BY <1>2, <1>3 DEF Delay
<1>5. Window \in Nat \ {0} /\ LongestDelay \in Nat \ {0}
  BY ThrottleAssumption
<1>6. Window * f \in Nat /\ Window * f >= Window
  BY <1>3, <1>5
<1>7. ASSUME NEW n \in Nat \ {0} PROVE Window * n \in Nat /\ Window * n >= Window
  BY <1>5, <1>7
<1> QED BY <1>4, <1>5, <1>6, <1>7

LEMMA StartsFine == ThrottleInit => ThrottleInv
<1> SUFFICES ASSUME ThrottleInit PROVE ThrottleInv
  OBVIOUS
<1> USE ThrottleAssumption DEF ThrottleInit, Fresh, Ages
<1>1. AddressTyped
  BY DEF AddressTyped
<1>2. Grows /\ Quiet /\ Running
  BY DEF Grows, Quiet, Running
<1>3. Over /\ GrantsBounded
  BY DEF Over, GrantsBounded
<1> QED BY <1>1, <1>2, <1>3 DEF ThrottleInv

LEMMA AttemptKeeps == ThrottleInv /\ Attempt => ThrottleInv'
<1> SUFFICES ASSUME ThrottleInv, Attempt PROVE ThrottleInv'
  OBVIOUS
<1> USE ThrottleAssumption DEF ThrottleInv
<1>1. CASE UNCHANGED throttleVars
  BY <1>1 DEF throttleVars, AddressTyped, Grows, Quiet, Running, Over, GrantsBounded
<1>2. CASE /\ address.blocked = 0
           /\ Count + 1 > Tries
           /\ address' = [Fresh EXCEPT !.strikes = Strike, !.blocked = Delay(Strike),
                                       !.kept = Memory]
           /\ UNCHANGED granted
  <2>1. Strike \in 1..5
    BY DEF Strike, AddressTyped
  <2>2. PICK d \in Nat : d = Delay(Strike) /\ d >= Window
    BY <2>1, DelayIs
  <2>3. address' = [blocked |-> d, window |-> Window, count |-> 0, strikes |-> Strike,
                    kept |-> Memory]
    BY <1>2, <2>2 DEF Fresh
  <2>4. AddressTyped'
    BY <1>2, <2>1, <2>2, <2>3 DEF AddressTyped
  <2>5. Grows' /\ GrantsBounded'
    BY <1>2 DEF Grows, GrantsBounded
  <2>6. Quiet'
    <3>1. \A a \in Ages : ~(Memory + a < Memory) /\ ~(d + a < Window)
      BY <2>2, AddressFields
    <3> QED BY <2>3, <3>1 DEF Quiet
  <2>7. Running' /\ Over'
    BY <2>2, <2>3 DEF Running, Over
  <2> QED BY <2>4, <2>5, <2>6, <2>7
<1>3. CASE /\ address.blocked = 0
           /\ Count + 1 <= Tries
           /\ address' = [address EXCEPT !.window = Age, !.count = Count + 1,
                                         !.kept = Memory]
           /\ granted' = [age \in 0..Window - 1 |-> granted[age] + 1]
  <2>1. /\ Age \in 0..Window - 1 /\ Count \in Nat
        /\ address.window = Window => Age = 0 /\ Count = 0
        /\ address.window < Window => Age = address.window /\ Count = address.count
    BY DEF Age, Count, AddressTyped
  <2>2. /\ address'.blocked = 0 /\ address'.window = Age /\ address'.count = Count + 1
        /\ address'.kept = Memory
    BY <1>3 DEF AddressTyped
  <2>3. \A a \in Ages : granted[a] \in Nat /\ granted'[a] = granted[a] + 1
    BY <1>3 DEF AddressTyped, Ages
  <2>4. AddressTyped'
    <3>1. granted' \in [Ages -> Nat]
      BY <1>3, <2>3 DEF Ages
    <3>2. Count + 1 \in 0..Tries /\ Age \in 0..Window /\ Memory \in 0..Memory
      BY <1>3, <2>1
    <3> QED BY <1>3, <3>1, <3>2 DEF AddressTyped
  <2>5. Grows'
    BY <2>3 DEF Grows
  <2>6. Quiet' /\ Over'
    BY <2>1, <2>2 DEF Quiet, Over, Ages
  <2>7. Running'
    <3>1. CASE address.window = Window
      BY <1>3, <2>1, <2>2, <2>3, <3>1 DEF Over, Running, Ages
    <3>2. CASE address.window < Window
      <4>1. granted[Age] = address.count /\ granted[Window - 1] <= address.count + Tries - 1
        BY <2>1, <3>2 DEF Running
      <4>2. Age > 0 => granted[Age - 1] < granted[Age]
        BY <2>1, <3>2 DEF Running
      <4>3. granted'[Age] = Count + 1 /\ granted'[Window - 1] <= Count + 1 + Tries - 1
        BY <2>1, <2>3, <3>2, <4>1, AddressFields
      <4>4. Age > 0 => granted'[Age - 1] < granted'[Age]
        BY <2>1, <2>3, <3>2, <4>2, AddressFields
      <4> QED BY <2>1, <2>2, <4>3, <4>4 DEF Running
    <3> QED BY <3>1, <3>2 DEF AddressTyped
  <2>8. GrantsBounded'
    <3>1. granted'[Window - 1] <= Count + 1 + Tries - 1
      BY <2>1, <2>2, <2>7 DEF Running
    <3>2. granted'[Window - 1] \in Nat
      BY <2>3, AddressFields
    <3> QED BY <1>3, <2>1, <3>1, <3>2 DEF GrantsBounded
  <2> QED BY <2>4, <2>5, <2>6, <2>7, <2>8
<1> QED BY <1>1, <1>2, <1>3 DEF Attempt

LEMMA WindowKeeps == ThrottleInv /\ ThrottleTick => ThrottleInv'
<1> SUFFICES ASSUME ThrottleInv, ThrottleTick PROVE ThrottleInv'
  OBVIOUS
<1> USE ThrottleAssumption DEF ThrottleInv
<1>1. /\ granted' \in [Ages -> Nat] /\ granted'[0] = 0
      /\ \A a \in Ages : a > 0 => a - 1 \in Ages /\ granted'[a] = granted[a - 1]
  BY DEF ThrottleTick, AddressTyped, Ages
<1>2. \A a \in Ages : granted'[a] <= granted[a] /\ granted[a] \in Nat /\ granted'[a] \in Nat
  BY <1>1 DEF Grows, AddressTyped, Ages
<1>3. Grows' /\ GrantsBounded'
  <2>1. ASSUME NEW a \in Ages, NEW b \in Ages, a <= b PROVE granted'[a] <= granted'[b]
    <3>1. CASE a = 0
      BY <1>1, <1>2, <3>1
    <3>2. CASE a > 0
      <4>1. /\ a - 1 \in Ages /\ b - 1 \in Ages /\ a - 1 <= b - 1
            /\ granted'[a] = granted[a - 1] /\ granted'[b] = granted[b - 1]
        BY <1>1, <2>1, <3>2, AddressFields
      <4> QED BY <4>1 DEF Grows
    <3> QED BY <3>1, <3>2, AddressFields
  <2>2. granted'[Window - 1] < 2 * Tries
    BY <1>2, AddressFields DEF GrantsBounded
  <2> QED BY <2>1, <2>2 DEF Grows, GrantsBounded
<1>4. CASE address.kept <= 1
  <2>1. address' = Fresh
    BY <1>4 DEF ThrottleTick
  <2>2. \A a \in Ages : granted'[a] = 0
    <3>1. ASSUME NEW a \in Ages, a > 0 PROVE granted'[a] = 0
      <4>1. a - 1 \in Ages /\ address.kept + (a - 1) < Memory
        BY <1>4, <3>1, AddressFields
      <4> QED BY <1>1, <3>1, <4>1 DEF Quiet
    <3> QED BY <1>1, <3>1, AddressFields
  <2> QED BY <1>1, <1>3, <2>1, <2>2
          DEF Fresh, AddressTyped, Quiet, Running, Over, Ages
<1>5. CASE address.kept > 1
  <2>1. /\ address'.blocked = OneLess(address.blocked) /\ address'.kept = address.kept - 1
        /\ address'.window = IF address.window < Window THEN address.window + 1
                             ELSE address.window
        /\ address'.count = address.count
    BY <1>5 DEF ThrottleTick, AddressTyped
  <2>2. AddressTyped'
    <3>1. /\ OneLess(address.blocked) \in Nat /\ address.kept - 1 \in 0..Memory
          /\ (IF address.window < Window THEN address.window + 1 ELSE address.window)
               \in 0..Window
      BY <1>5, AddressFields DEF OneLess
    <3>2. address' = [address EXCEPT !.blocked = OneLess(@), !.kept = @ - 1,
                                     !.window = IF @ < Window THEN @ + 1 ELSE @]
      BY <1>5, AddressFields DEF ThrottleTick
    <3> QED BY <1>1, <3>1, <3>2 DEF AddressTyped
  <2>3. Quiet'
    <3>1. \A a \in Ages : address'.kept + a < Memory => granted'[a] = 0
      <4> SUFFICES ASSUME NEW a \in Ages, address'.kept + a < Memory, a > 0
                   PROVE  granted'[a] = 0
        BY <1>1, AddressFields
      <4>1. a - 1 \in Ages /\ address.kept + (a - 1) < Memory
        BY <2>1, AddressFields
      <4> QED BY <1>1, <4>1 DEF Quiet
    <3>2. ASSUME address'.blocked > 0
          PROVE  /\ address'.window = Window
                 /\ \A a \in Ages : address'.blocked + a < Window => granted'[a] = 0
      <4>1. address.blocked > 0 /\ address'.blocked = address.blocked - 1
        BY <2>1, <3>2, AddressFields DEF OneLess
      <4>2. address.window = Window /\ address'.window = Window
        BY <2>1, <4>1 DEF Quiet
      <4> SUFFICES ASSUME NEW a \in Ages, address'.blocked + a < Window, a > 0
                   PROVE  granted'[a] = 0
        BY <1>1, <4>2, AddressFields
      <4>3. a - 1 \in Ages /\ address.blocked + (a - 1) < Window
        BY <4>1, AddressFields
      <4> QED BY <1>1, <4>1, <4>3 DEF Quiet
    <3> QED BY <3>1, <3>2 DEF Quiet
  <2>4. Running'
    <3> SUFFICES ASSUME address'.window < Window PROVE Running'
      BY DEF Running
    <3>1. address.window < Window /\ address'.window = address.window + 1
      BY <2>1 DEF AddressTyped
    <3> DEFINE w == address.window
    <3>2. /\ address.count >= 1 /\ granted[w] = address.count
          /\ granted[Window - 1] <= address.count + Tries - 1
      BY <3>1 DEF Running
    <3>3. w + 1 \in Ages /\ w \in Ages /\ granted'[w + 1] = granted[w]
      <4>1. w \in Nat /\ w + 1 < Window /\ (w + 1) - 1 = w
        BY <3>1, AddressFields
      <4>2. w + 1 \in Ages /\ w + 1 > 0 /\ w \in Ages
        BY <4>1 DEF Ages
      <4> QED BY <1>1, <4>1, <4>2
    <3>4. granted'[w] < granted[w]
      <4>1. CASE w = 0
        BY <1>1, <3>2, <3>3, <4>1, AddressFields
      <4>2. CASE w > 0
        BY <1>1, <3>1, <3>3, <4>2 DEF Running
      <4> QED BY <4>1, <4>2, AddressFields
    <3>5. granted'[Window - 1] <= address.count + Tries - 1
      BY <1>2, <3>2, AddressFields
    <3>6. (w + 1) - 1 = w
      BY AddressFields
    <3> QED BY <2>1, <3>1, <3>2, <3>3, <3>4, <3>5, <3>6 DEF Running
  <2>5. Over'
    <3> SUFFICES ASSUME address'.window = Window, address'.blocked = 0 PROVE Over'
      BY DEF Over
    <3>1. CASE address.window < Window
      <4>1. address.window = Window - 1
        BY <2>1, <3>1 DEF AddressTyped
      <4>2. granted'[Window - 1] < Tries
        BY <1>1, <4>1 DEF Running, AddressTyped, Ages
      <4> QED BY <1>1, <4>2 DEF Over
    <3>2. CASE address.window = Window /\ address.blocked = 0
      BY <1>1, <1>2, <3>2 DEF Over, Ages
    <3>3. CASE address.window = Window /\ address.blocked > 0
      <4>1. address.blocked = 1
        BY <2>1, <3>3 DEF OneLess, AddressTyped
      <4>2. granted'[Window - 1] = 0
        <5>1. CASE Window = 1
          BY <1>1, <5>1
        <5>2. CASE Window > 1
          <6>1. Window - 1 > 0 /\ Window - 2 \in Ages /\ address.blocked + (Window - 2) < Window
            BY <4>1, <5>2 DEF Ages
          <6>2. granted[Window - 2] = 0
            BY <4>1, <6>1 DEF Quiet
          <6>3. (Window - 1) - 1 = Window - 2
            OBVIOUS
          <6> QED BY <1>1, <6>1, <6>2, <6>3, AddressFields
        <5> QED BY <5>1, <5>2
      <4> QED BY <1>1, <4>2 DEF Over
    <3> QED BY <3>1, <3>2, <3>3 DEF AddressTyped
  <2> QED BY <1>3, <2>2, <2>3, <2>4, <2>5
<1> QED BY <1>4, <1>5 DEF AddressTyped

\* GrantsBounded is true in every reachable state: any stretch of a window's length
\* lets less than two windows' attempts through, whatever the lengths of the
\* window, the cooldowns and the memory (loginAttemptScript).
THEOREM GrantsAreBounded == ThrottleSpec => []GrantsBounded
<1>1. ThrottleInit => ThrottleInv
  BY StartsFine
<1>2. ThrottleInv /\ [ThrottleNext]_throttleVars => ThrottleInv'
  <2> SUFFICES ASSUME ThrottleInv, [ThrottleNext]_throttleVars PROVE ThrottleInv'
    OBVIOUS
  <2>1. CASE UNCHANGED throttleVars
    BY <2>1 DEF throttleVars, ThrottleInv, AddressTyped, Grows, Quiet, Running, Over,
                GrantsBounded
  <2> QED BY <2>1, AttemptKeeps, WindowKeeps DEF ThrottleNext
<1>3. ThrottleInv => GrantsBounded
  BY DEF ThrottleInv
<1> QED BY <1>1, <1>2, <1>3, PTL DEF ThrottleSpec

=============================================================================
