----------------------------- MODULE RunLimits -----------------------------
(***************************************************************************)
(* How long a verification run may take, in seconds, from the number of    *)
(* documents on its file.                                                  *)
(***************************************************************************)
EXTENDS Integers

CONSTANTS
  Rate,      \* hundredths of a second per document, headroom included
  MinSoft,   \* the least soft limit: what any file gets
  MaxSoft,   \* the greatest: a refusal of larger files
  Step,      \* from the soft limit to the hard one
  Slack      \* from the hard limit to the watchdog

ASSUME LimitsAssumption ==
  /\ {Rate, MinSoft, MaxSoft} \subseteq Nat
  /\ {Step, Slack} \subseteq Nat \ {0}
  /\ MinSoft <= MaxSoft

(* The budget of so many documents, clamped.  SoftTimeLimitExceeded ends   *)
(* the pass, which can still mark its run.                                 *)
Soft(documents) ==
  LET budget == (documents * Rate) \div 100
  IN IF budget < MinSoft THEN MinSoft
     ELSE IF budget > MaxSoft THEN MaxSoft
     ELSE budget

(* A pass that ignored the soft limit is killed here.                      *)
Hard(documents) == Soft(documents) + Step

(* How old a RUNNING run must be for a reader to give up on it.            *)
Watchdog(hard) == hard + Slack
============================================================================
