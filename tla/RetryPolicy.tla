------------------------------ MODULE RetryPolicy ------------------------------
(***************************************************************************)
(* The retry policy of queued requests (internal/core/mailer/retry.go).    *)
(*                                                                         *)
(* A policy is a record with the fields of the Go struct.  Durations are   *)
(* signed machine integers: MaxDuration is the largest one (2^63 - 1 ns in *)
(* the program) and arithmetic wraps around it.                            *)
(***************************************************************************)
EXTENDS Integers, Sequences

CONSTANT MaxDuration

ASSUME MaxDurationAssumption == MaxDuration \in Nat \ {0}

\* The policies the configuration accepts (NewRetryConfig): at least one attempt, positive
\* delays, and a longest delay that is not below the first one.
ValidPolicy(p) ==
    /\ p.MaxAttempts >= 1
    /\ p.BaseDelay > 0
    /\ p.MaxDelay >= p.BaseDelay

\* Two's complement arithmetic on durations.
Wrap(d) == ((d + MaxDuration + 1) % (2 * (MaxDuration + 1))) - (MaxDuration + 1)

Least(a, b) == IF a <= b THEN a ELSE b

\* The loop stops doubling at the first value that reaches MaxDelay; the result is capped.
Delay(p, attempt) ==
    LET delay[i \in Nat] ==
          IF i <= 1 THEN p.BaseDelay
          ELSE IF delay[i - 1] < p.MaxDelay THEN Wrap(2 * delay[i - 1])
          ELSE delay[i - 1]
    IN  Least(delay[attempt], p.MaxDelay)

CanRetry(p, attempt) == attempt < p.MaxAttempts

\* The distinct waits, in the order the attempts use them.
Delays(p) ==
    LET delays[n \in Nat] ==
          IF n = 0 THEN << >>
          ELSE LET prev == delays[n - 1] IN
               IF prev = << >> \/ prev[Len(prev)] # Delay(p, n)
               THEN Append(prev, Delay(p, n)) ELSE prev
    IN  delays[p.MaxAttempts - 1]

=============================================================================
