------------------------------ MODULE PinOverride ------------------------------
(***************************************************************************)
(* PINAuthService for one supervisor: setting and verifying the PIN, the   *)
(* lock after wrong ones, and the override token that a right one buys.    *)
(***************************************************************************)
EXTENDS Naturals, FiniteSets

CONSTANTS Devices,      \* PIN requests in flight
          PinAttempts,  \* wrong PINs before a lock (max_attempts, 3 in the code)
          MaxTries      \* bound: PIN verifications

ASSUME PinAssumption == IsFiniteSet(Devices) /\ PinAttempts \in Nat /\ MaxTries \in Nat

VARIABLES pin,      \* the supervisor's pin_authentication document
          override, \* supervisor_override_tokens: how many are unused
          device,   \* the requests in flight
          wrong,    \* wrong PINs entered so far
          right     \* right PINs entered so far

pinVars == <<pin, override, device, wrong, right>>

AtRest == [step |-> "idle", failed |-> 0, match |-> FALSE]

PinTypeOK ==
    /\ pin \in [enabled : BOOLEAN, failed : 0..MaxTries, locked : {"never", "until", "over"}]
    /\ override \in 0..MaxTries
    /\ device \in [Devices -> [step : {"idle", "unlock", "judge", "issue"},
                               failed : 0..MaxTries, match : BOOLEAN]]
    /\ wrong \in 0..MaxTries /\ right \in 0..MaxTries

PinInit ==
    /\ pin = [enabled |-> FALSE, failed |-> 0, locked |-> "never"]
    /\ override = 0
    /\ device = [d \in Devices |-> AtRest]
    /\ wrong = 0 /\ right = 0

Stands(d, s) == device[d].step = s
Advance(d, s) == device' = [device EXCEPT ![d].step = s]
Quit(d) == device' = [device EXCEPT ![d] = AtRest]

\* set_pin leaves locked_until alone
SetPin ==
    /\ pin' = [pin EXCEPT !.enabled = TRUE, !.failed = 0]
    /\ UNCHANGED <<override, device, wrong, right>>

DisablePin ==
    /\ pin' = [pin EXCEPT !.enabled = FALSE]
    /\ UNCHANGED <<override, device, wrong, right>>

LockEnds ==
    /\ pin.locked = "until"
    /\ pin' = [pin EXCEPT !.locked = "over"]
    /\ UNCHANGED <<override, device, wrong, right>>

\* verify_pin for generate_override_token: the document is read once
Usable(p) == p.enabled /\ p.locked # "until"
ReadPin(d) ==
    /\ Stands(d, "idle") /\ Usable(pin)
    /\ wrong + right < MaxTries
    /\ \E match \in BOOLEAN :
          /\ device' = [device EXCEPT ![d] =
                [step |-> IF pin.locked = "over" THEN "unlock" ELSE "judge",
                 failed |-> pin.failed, match |-> match]]
          /\ wrong' = IF match THEN wrong ELSE wrong + 1
          /\ right' = IF match THEN right + 1 ELSE right
    /\ UNCHANGED <<pin, override>>

UnlockPin(d) ==
    /\ Stands(d, "unlock")
    /\ pin' = [pin EXCEPT !.locked = "never", !.failed = 0]
    /\ Advance(d, "judge")
    /\ UNCHANGED <<override, wrong, right>>

\* The new number of failures comes from the document as it was read, before
\* an unlock and before whatever other requests have written since.
AfterFailure(d) ==
    LET n == device[d].failed + 1
    IN [pin EXCEPT !.failed = n, !.locked = IF n >= PinAttempts THEN "until" ELSE @]

JudgePin(d) ==
    /\ Stands(d, "judge")
    /\ IF device[d].match
          THEN pin' = [pin EXCEPT !.failed = 0] /\ Advance(d, "issue")
          ELSE pin' = AfterFailure(d) /\ Quit(d)
    /\ UNCHANGED <<override, wrong, right>>

IssueOverride(d) ==
    /\ Stands(d, "issue")
    /\ override' = override + 1
    /\ Quit(d)
    /\ UNCHANGED <<pin, wrong, right>>

\* validate_override_token: one update_one that matches used: False
UseUp(n) == n - 1
UseOverride ==
    /\ override > 0
    /\ override' = UseUp(override)
    /\ UNCHANGED <<pin, device, wrong, right>>

\* expires_at passes, or the TTL index removes the token
OverrideExpires ==
    /\ override > 0
    /\ override' = override - 1
    /\ UNCHANGED <<pin, device, wrong, right>>

DeviceGone(d) ==
    /\ ~Stands(d, "idle")
    /\ Quit(d)
    /\ UNCHANGED <<pin, override, wrong, right>>

PinNext ==
    \/ \E d \in Devices : ReadPin(d) \/ UnlockPin(d) \/ JudgePin(d)
                          \/ IssueOverride(d) \/ DeviceGone(d)
    \/ SetPin \/ DisablePin \/ LockEnds \/ OverrideExpires

------------------------------------------------------------------------------
(* Properties                                                               *)

\* The PIN is locked only after that many wrong ones, whatever lost updates and
\* the stale counter behind an expired lock have done to the number stored.
LockEarned ==
    /\ pin.failed <= wrong
    /\ pin.locked # "never" => wrong >= PinAttempts
==============================================================================
