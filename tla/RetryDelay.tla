----------------------------- MODULE RetryDelay -----------------------------
(****************************************************************************)
(* The delay with which the receiver negatively acknowledges a message that *)
(* the next component did not take (receiver/jetstreamreceiver: config.go,  *)
(* and consumeRetryDelay of receiver_single.go).                            *)
(*                                                                          *)
(* Durations are integers up to MaxDuration, 2^63 - 1 in the code.  The     *)
(* delay is computed with floating point numbers, each operation rounded to *)
(* one of Floats.  They are counted in units in the last place of the       *)
(* number one: for float64 One is 2^52, and the largest of Floats, 2^1024   *)
(* times that, stands for infinity.  Each delay is computed from the number *)
(* of the delivery, not from the delay before.                              *)
(****************************************************************************)
EXTENDS Integers

CONSTANTS
  MaxDuration,  \* the largest duration
  One,          \* the number one
  Floats,       \* the floating point numbers that are not negative
  Even          \* those with an even significand

ASSUME RetryAssumption ==
  /\ MaxDuration \in Nat
  /\ Floats \subseteq Nat /\ One \in Floats \ {0}
  /\ \E f \in Floats : \A g \in Floats : g <= f

NaN == -1   \* not a number, in the place of a multiplier
Infinity == CHOOSE f \in Floats : \A g \in Floats : g <= f

ValidExponential(retry) ==
  /\ retry.initial > 0
  /\ ~(retry.multiplier # NaN /\ retry.multiplier < One)
  /\ retry.multiplier \notin {NaN, Infinity}
  /\ retry.max >= retry.initial

(* Config.Validate, of consume_retry.                                       *)
ValidRetry(retry) ==
  \/ retry.strategy = "none"
  \/ retry.strategy \in {"", "constant"} /\ retry.initial >= 0
  \/ retry.strategy = "exponential" /\ ValidExponential(retry)

------------------------------------------------------------------------------
(* Arithmetic: the result num / den is rounded to the nearest number, and   *)
(* to the even one when two are as near.                                    *)

Distance(f, num, den) == IF f * den >= num THEN f * den - num ELSE num - f * den

Round(num, den) ==
  LET nearest == {f \in Floats : \A g \in Floats : Distance(f, num, den) <= Distance(g, num, den)}
  IN CHOOSE f \in nearest : f \in Even \/ nearest \intersect Even = {}

Float(duration) == Round(duration * One, 1)
FloatProduct(x, y) == Round(x * y, One)

(* The conversion of a number to a duration, which drops the fraction.      *)
Duration(x) == IF x \div One > MaxDuration THEN -MaxDuration - 1 ELSE x \div One

(* math.Pow, of a number of at least one and a whole exponent: one turn of  *)
(* its loop for every bit of the exponent, the lowest first.                *)
Turn(state) ==
  IF state.rest = 0
    THEN state
    ELSE [rest    |-> state.rest \div 2,
          product |-> IF state.rest % 2 = 1 THEN FloatProduct(state.product, state.square)
                                            ELSE state.product,
          square  |-> FloatProduct(state.square, state.square)]

Power(base, n) ==
  LET loop[k \in 0..n] == IF k = 0 THEN [rest |-> n, product |-> One, square |-> base]
                                   ELSE Turn(loop[k - 1])
  IN loop[n].product

------------------------------------------------------------------------------
(* An operator named <Operator>_<Change> is a fault the properties are      *)
(* tried against.                                                           *)
DelayForAttempt_NoMaximum(retry, n) ==
  IF n <= 1
    THEN retry.initial
    ELSE Duration(FloatProduct(Float(retry.initial), Power(retry.multiplier, n - 1)))

DelayForAttempt(retry, n) ==
  IF n <= 1
    THEN retry.initial
    ELSE LET delay == FloatProduct(Float(retry.initial), Power(retry.multiplier, n - 1)) IN
         IF delay = Infinity \/ delay >= Float(retry.max) THEN retry.max ELSE Duration(delay)

(* The number of the delivery comes with the message, or none when the      *)
(* message's metadata cannot be read.                                       *)
ConsumeRetryDelay(retry, delivered) ==
  CASE retry.strategy = "none" -> 0
    [] retry.strategy = "exponential" /\ delivered # {} ->
         DelayForAttempt(retry, CHOOSE n \in delivered : TRUE)
    [] OTHER -> retry.initial
==============================================================================
