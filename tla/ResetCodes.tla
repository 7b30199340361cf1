------------------------------ MODULE ResetCodes ------------------------------
(***************************************************************************)
(* OTPService and the password-reset endpoints for one user: the code that *)
(* is sent out, the reset token it buys, the password change that consumes *)
(* the token.  Every request is a chain of database calls that interleave; *)
(* the TTL indexes delete documents at any time.                           *)
(***************************************************************************)
EXTENDS Naturals, Sequences, FiniteSets

CONSTANTS Callers,      \* requests in flight
          MaxAttempts,  \* wrong codes before an OTP is dropped (5 in the code)
          MaxCodes,     \* bound: OTPs requested
          MaxAccepted   \* bound: right codes entered

ASSUME CodesAssumption ==
    /\ IsFiniteSet(Callers)
    /\ MaxAttempts \in Nat \ {0} /\ MaxCodes \in Nat /\ MaxAccepted \in Nat

VARIABLES otp,      \* password_reset_otps of the user, oldest first
          codes,    \* OTPs generated so far; each is its number
          spent,    \* codes whose verification has deleted the OTP
          resets,   \* password_reset_tokens of the user
          caller,   \* the requests in flight
          accepted, \* verifications that found the right code
          changed   \* password changes

codeVars == <<otp, codes, spent, resets, caller, accepted, changed>>
tallies == <<accepted, changed>>

Quiescent == [step |-> "idle", code |-> 0]

CodesTypeOK ==
    /\ otp \in Seq([code : 1..MaxCodes, attempts : Nat]) /\ Len(otp) <= MaxCodes
    /\ codes \in 0..MaxCodes /\ spent \subseteq 1..MaxCodes
    /\ resets \in 0..MaxAccepted /\ accepted \in 0..MaxAccepted /\ changed \in 0..MaxAccepted
    /\ caller \in [Callers ->
          [step : {"idle", "create", "send", "undo", "drop", "miss", "hit", "grant", "change"},
           code : 0..MaxCodes]]

CodesInit ==
    /\ otp = <<>> /\ codes = 0 /\ spent = {} /\ resets = 0
    /\ caller = [c \in Callers |-> Quiescent]
    /\ accepted = 0 /\ changed = 0

Waits(c, s) == caller[c].step = s
Go(c, s) == caller' = [caller EXCEPT ![c].step = s]
Done(c) == caller' = [caller EXCEPT ![c] = Quiescent]

------------------------------------------------------------------------------
(* Requests                                                                 *)

\* create_otp: delete_many, then insert_one; then the delivery, whose failure
\* deletes every OTP of the user again
DeleteOtps(c) ==
    /\ \/ Waits(c, "idle") /\ codes < MaxCodes /\ Go(c, "create")
       \/ Waits(c, "undo") /\ Done(c)
    /\ otp' = <<>>
    /\ UNCHANGED <<codes, spent, resets, tallies>>

InsertOtp(c) ==
    /\ Waits(c, "create") /\ codes < MaxCodes
    /\ codes' = codes + 1
    /\ otp' = Append(otp, [code |-> codes', attempts |-> 0])
    /\ Go(c, "send")
    /\ UNCHANGED <<spent, resets, tallies>>

Deliver(c) ==
    /\ Waits(c, "send")
    /\ Done(c) \/ Go(c, "undo")
    /\ UNCHANGED <<otp, codes, spent, resets, tallies>>

\* verify_otp: find_one and the decision on what it found; the calls filter by
\* user alone, so each of them means the user's oldest OTP at that moment
FoundOtp == Head(otp)
TooMany(d) == d.attempts >= MaxAttempts
ReadOtp(c) ==
    /\ Waits(c, "idle") /\ otp # <<>> /\ accepted < MaxAccepted
    /\ \E code \in 0..codes :   \* 0: a code that was never generated
          LET next == IF TooMany(FoundOtp) THEN "drop"
                      ELSE IF FoundOtp.code # code THEN "miss" ELSE "hit"
          IN /\ caller' = [caller EXCEPT ![c].step = next, ![c].code = code]
             /\ accepted' = IF next = "hit" THEN accepted + 1 ELSE accepted
    /\ UNCHANGED <<otp, codes, spent, resets, changed>>

\* mutant: the newest OTP goes
DropLast(s) == IF s = <<>> THEN s ELSE SubSeq(s, 1, Len(s) - 1)

DropFirst(s) == IF s = <<>> THEN s ELSE Tail(s)

DropOtp(c) ==
    /\ Waits(c, "drop")
    /\ otp' = DropFirst(otp)
    /\ Done(c)
    /\ UNCHANGED <<codes, spent, resets, tallies>>

CountMiss(c) ==
    /\ Waits(c, "miss")
    /\ otp' = IF otp = <<>> THEN otp ELSE [otp EXCEPT ![1].attempts = @ + 1]
    /\ Done(c)
    /\ UNCHANGED <<codes, spent, resets, tallies>>

SpendOtp(c) ==
    /\ Waits(c, "hit")
    /\ otp' = DropFirst(otp)
    /\ spent' = spent \cup {caller[c].code}
    /\ Go(c, "grant")
    /\ UNCHANGED <<codes, resets, tallies>>

\* create_reset_token
GrantReset(c) ==
    /\ Waits(c, "grant")
    /\ resets' = resets + 1
    /\ Done(c)
    /\ UNCHANGED <<otp, codes, spent, tallies>>

\* validate_reset_token: find_one_and_delete; then the password is written
ConsumeReset(n) == n - 1
ConfirmReset(c) ==
    /\ Waits(c, "idle") /\ resets > 0
    /\ resets' = ConsumeReset(resets)
    /\ Go(c, "change")
    /\ UNCHANGED <<otp, codes, spent, tallies>>

ChangePassword(c) ==
    /\ Waits(c, "change")
    /\ changed' = changed + 1
    /\ Done(c)
    /\ UNCHANGED <<otp, codes, spent, resets, accepted>>

\* the TTL indexes on expires_at
OtpExpires ==
    /\ otp # <<>>
    /\ otp' = Tail(otp)
    /\ UNCHANGED <<codes, spent, resets, caller, tallies>>

ResetExpires ==
    /\ resets > 0
    /\ resets' = resets - 1
    /\ UNCHANGED <<otp, codes, spent, caller, tallies>>

CallerDies(c) ==
    /\ ~Waits(c, "idle")
    /\ Done(c)
    /\ UNCHANGED <<otp, codes, spent, resets, tallies>>

CodesNext ==
    \/ \E c \in Callers :
          \/ DeleteOtps(c) \/ InsertOtp(c) \/ Deliver(c)
          \/ ReadOtp(c) \/ DropOtp(c) \/ CountMiss(c) \/ SpendOtp(c) \/ GrantReset(c)
          \/ ConfirmReset(c) \/ ChangePassword(c) \/ CallerDies(c)
    \/ OtpExpires \/ ResetExpires

CodesSpec == CodesInit /\ [][CodesNext]_codeVars

------------------------------------------------------------------------------
(* Properties                                                               *)

\* The limit on wrong codes is overrun only by the requests already past the
\* check, although it is read in one call and the counter raised in another,
\* possibly that of a younger OTP.
AttemptsBounded ==
    \A i \in DOMAIN otp : otp[i].attempts <= MaxAttempts - 1 + Cardinality(Callers)

\* A code whose verification went through to the delete is gone for good, also
\* when two requests had left two OTPs: what delete_one removes is the OTP that
\* find_one had returned, or that one was gone already.
CodeSpent == \A i \in DOMAIN otp : otp[i].code \notin spent

\* Every password change was paid for by an accepted code of its own, across
\* races, expiry and crashes: a reset token is consumed by one atomic call.
ChangeEarned ==
    changed + resets + Cardinality({c \in Callers : caller[c].step \in {"hit", "grant", "change"}})
        <= accepted

\* The reset codes of a user: wrong ones are bounded, a spent one is gone, every password change
\* was earned.
CodesInv == CodesTypeOK /\ AttemptsBounded /\ CodeSpent /\ ChangeEarned
==============================================================================
