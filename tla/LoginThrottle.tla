---------------------------- MODULE LoginThrottle ----------------------------
(***************************************************************************)
(* loginAttemptScript: the attempts of one address, counted in a window    *)
(* that starts with an attempt, and a cooldown that grows with every one   *)
(* too many.  One script is one step for all gateways.                     *)
(***************************************************************************)
EXTENDS Integers

CONSTANTS
  Tries,        \* attempts let through in a window
  Window,       \* its length in ticks, and the shortest cooldown
  LongestDelay, \* the longest cooldown, in windows
  Memory        \* ticks the counters are kept after they were last written

ASSUME ThrottleAssumption ==
  /\ Tries \in Nat \ {0} /\ Window \in Nat \ {0} /\ LongestDelay \in Nat \ {0}
  /\ Memory \in Nat /\ Window <= Memory

\* What is kept of an address; the window is where it started, if it has.
Fresh == [blocked |-> 0, window |-> Window, count |-> 0, strikes |-> 0, kept |-> 0]

VARIABLES
  address,  \* the counters of the address
  granted   \* history: attempts let through no more than so many ticks ago

throttleVars == <<address, granted>>

ThrottleInit ==
  /\ address = Fresh
  /\ granted = [age \in 0..Window - 1 |-> 0]

\* Strikes beyond the fifth change nothing.
Strike == IF address.strikes < 5 THEN address.strikes + 1 ELSE 5

\* Variant: the first cooldown is half as long as the second.
DelayHalved(strikes) ==
  IF Window * 2^strikes < 2 * Window * LongestDelay
  THEN (Window * 2^strikes) \div 4 ELSE Window * LongestDelay

Delay(strikes) ==
  IF 2^(strikes - 1) < LongestDelay THEN Window * 2^(strikes - 1) ELSE Window * LongestDelay

\* The window of the attempt and how many it has seen before.
Count == IF address.window >= Window THEN 0 ELSE address.count

Age == IF address.window >= Window THEN 0 ELSE address.window

Attempt ==
  \/ /\ address.blocked > 0
     /\ UNCHANGED throttleVars
  \/ /\ address.blocked = 0
     /\ Count + 1 > Tries
     /\ address' = [Fresh EXCEPT !.strikes = Strike, !.blocked = Delay(Strike), !.kept = Memory]
     /\ UNCHANGED granted
  \/ /\ address.blocked = 0
     /\ Count + 1 <= Tries
     /\ address' = [address EXCEPT !.window = Age, !.count = Count + 1, !.kept = Memory]
     /\ granted' = [age \in 0..Window - 1 |-> granted[age] + 1]

OneLess(n) == IF n = 0 THEN 0 ELSE n - 1

ThrottleTick ==
  /\ address' = IF address.kept <= 1 THEN Fresh
                ELSE [address EXCEPT !.blocked = OneLess(@), !.kept = @ - 1,
                                     !.window = IF @ < Window THEN @ + 1 ELSE @]
  /\ granted' = [age \in 0..Window - 1 |-> IF age = 0 THEN 0 ELSE granted[age - 1]]

ThrottleNext == Attempt \/ ThrottleTick

ThrottleSpec == ThrottleInit /\ [][ThrottleNext]_throttleVars

-----------------------------------------------------------------------------

\* However the attempts of an address, the end of its window, its cooldowns and
\* the expiry of its counters interleave, any stretch of a window's length lets
\* less than two windows' attempts through (loginAttemptScript).
GrantsBounded == granted[Window - 1] < 2 * Tries

=============================================================================
