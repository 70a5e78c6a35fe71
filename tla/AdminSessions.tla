---------------------------- MODULE AdminSessions ----------------------------
(***************************************************************************)
(* The administrator's sessions: one Redis key for each, which expires a   *)
(* fixed time after the login, and a sorted set that orders them by the    *)
(* time of their login and holds them to a limit.  Sessions older than the *)
(* set are adopted into it by every gateway that starts.                   *)
(***************************************************************************)
EXTENDS Integers, FiniteSets

CONSTANTS
  Gateways,
  Tokens,    \* sessions there will be: the bound on activity
  Old,       \* those of before there was a sorted set
  Limit,     \* adminSessionLimit
  Lifetime,  \* adminSessionTTL, in ticks
  Lag,       \* ticks a gateway may take over one page of keys
  Ahead      \* how far logins of one tick may put a score ahead of the clock

ASSUME SessionsAssumption ==
  /\ IsFiniteSet(Tokens)
  /\ Old \subseteq Tokens
  /\ Limit \in Nat \ {0} /\ Lifetime \in Nat \ {0}
  /\ Lag \in Nat /\ Ahead \in Nat

VARIABLES
  ttl,       \* what is left of the key of each session, 0 when there is none
  score,     \* the sorted set: the score of its members, seen from the present
  indexTTL,  \* what is left of the sorted set
  scan,      \* of each gateway: how far migrateAdminSessions is
  adopted    \* history: some gateway has finished it

sessionVars == <<ttl, score, indexTTL, scan, adopted>>

EmptyIndex == [t \in {} |-> 0]

NoScan == [pc |-> "off", todo |-> {}, page |-> EmptyIndex, lag |-> 0]

Sessions == {t \in Tokens : ttl[t] > 0}

Largest(S) == CHOOSE x \in S : \A y \in S : y <= x

SessionsInit ==
  /\ ttl \in {f \in [Tokens -> 0..Lifetime] : \A t \in Tokens \ Old : f[t] = 0}
  /\ score = EmptyIndex
  /\ indexTTL = 0
  /\ scan = [n \in Gateways |-> NoScan]
  /\ adopted = FALSE

-----------------------------------------------------------------------------
(***************************************************************************)
(* putAdminSessionScript.                                                  *)
(***************************************************************************)

\* Members of the sorted set whose key is gone leave it first.
Pruned(keys) == [t \in {m \in DOMAIN score : keys[m] > 0} |-> score[t]]

\* A login comes after every session there is, whatever the clock says.
LoginScore(index) ==
  Largest({0} \cup {index[m] + 1 : m \in DOMAIN index})

With(index, t, s) == [m \in DOMAIN index \cup {t} |-> IF m = t THEN s ELSE index[m]]

\* The members of the lowest scores beyond the limit; equal scores go by the name.
Excess(index) ==
  {out \in SUBSET DOMAIN index :
     /\ Cardinality(out) = IF Cardinality(DOMAIN index) > Limit
                           THEN Cardinality(DOMAIN index) - Limit ELSE 0
     /\ \A t \in out, kept \in DOMAIN index \ out : index[t] <= index[kept]}

\* Variant: the sorted set lives as long as the last session put into it.
IndexTTLOf(index, life) == life

\* The sorted set outlives its members.
IndexTTL(index, life) == IF DOMAIN index # {} /\ indexTTL > life THEN indexTTL ELSE life

Put(keys, index, t, s, life) ==
  LET joined == With(index, t, s) IN
  \E out \in Excess(joined) :
    /\ ttl' = [m \in Tokens |-> IF m \in out THEN 0 ELSE keys[m]]
    /\ score' = [m \in DOMAIN joined \ out |-> joined[m]]
    /\ indexTTL' = IndexTTL(index, life)

\* A name is new: it may have been another session's only once nothing knows it.
Login(t) ==
  LET index == Pruned(ttl) IN
  /\ t \notin Sessions
  /\ \A n \in Gateways : t \notin scan[n].todo \cup DOMAIN scan[n].page
  /\ LoginScore(index) <= Ahead
  /\ Put([ttl EXCEPT ![t] = Lifetime], index, t, LoginScore(index), Lifetime)
  /\ UNCHANGED <<scan, adopted>>

\* One transaction.
Logout(t) ==
  /\ t \in Sessions
  /\ ttl' = [ttl EXCEPT ![t] = 0]
  /\ score' = [m \in DOMAIN score \ {t} |-> score[m]]
  /\ indexTTL' = IF DOMAIN score \subseteq {t} THEN 0 ELSE indexTTL
  /\ UNCHANGED <<scan, adopted>>

-----------------------------------------------------------------------------
(***************************************************************************)
(* migrateAdminSessions, at the start of a gateway: a page of keys, how    *)
(* long each has left, then one script for each.                           *)
(***************************************************************************)

Start(n) ==
  /\ scan[n].pc = "off"
  /\ scan' = [scan EXCEPT ![n] = [NoScan EXCEPT !.pc = "scan", !.todo = Sessions]]
  /\ UNCHANGED <<ttl, score, indexTTL, adopted>>

ScanPage(n) ==
  /\ scan[n].pc = "scan"
  /\ DOMAIN scan[n].page = {}
  /\ \E keys \in SUBSET scan[n].todo \ {{}} :
       scan' = [scan EXCEPT ![n].todo = @ \ keys, ![n].lag = 0,
                            ![n].page = [t \in keys \cap Sessions |-> ttl[t]]]
  /\ UNCHANGED <<ttl, score, indexTTL, adopted>>

\* Variant: a session that is gone is adopted as well.
MayAdoptGone(t) == t \notin DOMAIN score

MayAdopt(t) == t \in Sessions /\ t \notin DOMAIN Pruned(ttl)

\* Its time of issue by the gateway's clock, taken to agree with Redis', and the time
\* left when it was asked.
Adopt(n) ==
  /\ \E t \in DOMAIN scan[n].page :
       LET life == scan[n].page[t]
           index == Pruned(ttl)
       IN /\ scan' = [scan EXCEPT ![n].page = [m \in DOMAIN @ \ {t} |-> @[m]]]
          /\ \/ /\ MayAdopt(t)
                /\ Put(ttl, index, t, life - Lifetime, life)
             \/ /\ ~MayAdopt(t)
                /\ score' = index
                /\ indexTTL' = IF DOMAIN index = {} THEN 0 ELSE indexTTL
                /\ UNCHANGED ttl
  /\ UNCHANGED adopted

ScanEnd(n) ==
  /\ scan[n].pc = "scan"
  /\ DOMAIN scan[n].page = {}
  /\ scan[n].todo = {}
  /\ scan' = [scan EXCEPT ![n] = [NoScan EXCEPT !.pc = "done"]]
  /\ adopted' = TRUE
  /\ UNCHANGED <<ttl, score, indexTTL>>

\* The gateway is stopped or killed, or Redis failed and it did not start.
Exit(n) ==
  /\ scan[n].pc # "off"
  /\ scan' = [scan EXCEPT ![n] = NoScan]
  /\ UNCHANGED <<ttl, score, indexTTL, adopted>>

-----------------------------------------------------------------------------

Down(n) == IF n = 0 THEN 0 ELSE n - 1

\* A tick: keys expire, and what was now is one tick ago.
Tick ==
  /\ \A n \in Gateways : DOMAIN scan[n].page # {} => scan[n].lag < Lag
  /\ ttl' = [t \in Tokens |-> Down(ttl[t])]
  /\ indexTTL' = Down(indexTTL)
  /\ score' = IF indexTTL' = 0 THEN EmptyIndex ELSE [m \in DOMAIN score |-> score[m] - 1]
  /\ scan' = [n \in Gateways |-> IF DOMAIN scan[n].page = {} THEN scan[n]
                                 ELSE [scan[n] EXCEPT !.lag = @ + 1]]
  /\ UNCHANGED adopted

SessionsNext ==
  \/ Tick
  \/ \E t \in Tokens : Login(t) \/ Logout(t)
  \/ \E n \in Gateways : Start(n) \/ ScanPage(n) \/ Adopt(n) \/ ScanEnd(n) \/ Exit(n)

SessionsSpec == SessionsInit /\ [][SessionsNext]_sessionVars

-----------------------------------------------------------------------------
(***************************************************************************)
(* Properties.                                                             *)
(***************************************************************************)

\* Once one gateway has started, no more sessions than the limit are valid, also
\* those it did not log in, whatever logs in, logs out or expires meanwhile
\* (putAdminSessionScript, migrateAdminSessions).
SessionsCapped == adopted => Cardinality(Sessions) <= Limit

\* What a session that is valid, or is being logged in, has left.
Left(t) == IF Login(t) THEN Lifetime ELSE ttl[t]

\* A session ends before its time, without a logout, only for as many others as
\* the limit allows, and only for newer ones: none of them is older by more than
\* a gateway may have taken over its page of keys (putAdminSessionScript).
EvictionEarned ==
  [][\A t \in Tokens :
       Left(t) > 0 /\ ttl'[t] = 0 /\ ~Logout(t) /\ ~Tick =>
         /\ Cardinality({k \in Tokens : ttl'[k] > 0}) >= Limit
         /\ \A k \in DOMAIN score' : ttl'[k] > 0 => Left(t) <= ttl'[k] + Lag]_sessionVars

=============================================================================
