------------------------------ MODULE AuthProofs ------------------------------
(***************************************************************************)
(* Machine-checked proofs about the refresh tokens, the reset codes, the   *)
(* supervisor's PIN with the adjustments it pays for, and the credentials  *)
(* on a device: for any number of overlapping requests, devices, clerks    *)
(* and logouts, any limit on wrong codes or PINs and any bound on what is  *)
(* created.                                                                *)
(***************************************************************************)
EXTENDS AuthTokens, ResetCodes, Adjustments, ClientAuth, FiniteSetTheorems, TLAPS

------------------------------------------------------------------------------
(* Counting                                                                 *)

\* A part of a finite set is finite and no larger.
LEMMA PartCounts ==
    ASSUME NEW S, IsFiniteSet(S), NEW T, T \subseteq S
    PROVE  /\ IsFiniteSet(T)
           /\ Cardinality(T) \in Nat /\ Cardinality(S) \in Nat
           /\ Cardinality(T) <= Cardinality(S)
BY FS_Subset, FS_CardinalityType

\* The parts of a bounded sum are bounded.
LEMMA SumBound ==
    ASSUME NEW x \in Nat, NEW y \in Nat, NEW m \in Nat, x + y <= m
    PROVE  x \in 0..m /\ y \in 0..m
OBVIOUS

\* An element that leaves a set lowers the count by one.
LEMMA LeaveCounts ==
    ASSUME NEW S, IsFiniteSet(S), NEW x \in S, NEW T, T \subseteq S \ {x}
    PROVE  Cardinality(T) + 1 <= Cardinality(S)
<1>1. IsFiniteSet(S \ {x}) /\ Cardinality(S \ {x}) = Cardinality(S) - 1
  BY FS_RemoveElement
<1>2. Cardinality(T) \in Nat /\ Cardinality(T) <= Cardinality(S \ {x})
  BY <1>1, PartCounts
<1> QED BY <1>1, <1>2, FS_CardinalityType

\* An element that joins a set raises the count by at most one.
LEMMA JoinCounts ==
    ASSUME NEW S, IsFiniteSet(S), NEW x, NEW T, T \subseteq S \cup {x}
    PROVE  /\ IsFiniteSet(T) /\ Cardinality(T) \in Nat
           /\ Cardinality(T) <= Cardinality(S) + 1
<1>1. IsFiniteSet(S \cup {x}) /\ Cardinality(S \cup {x}) <= Cardinality(S) + 1
  <2>1. /\ IsFiniteSet(S \cup {x})
        /\ Cardinality(S \cup {x}) = IF x \in S THEN Cardinality(S) ELSE Cardinality(S) + 1
    BY FS_AddElement
  <2>2. Cardinality(S) \in Nat
    BY FS_CardinalityType
  <2> QED BY <2>1, <2>2
<1>2. IsFiniteSet(T) /\ Cardinality(T) \in Nat /\ Cardinality(T) <= Cardinality(S \cup {x})
  BY <1>1, PartCounts
<1> QED BY <1>1, <1>2, FS_CardinalityType

------------------------------------------------------------------------------
(* The PIN, the override token, the ledger                                  *)

\* A verification in flight carries a wrong PIN that is counted, and what it read is older.
Judged ==
    \A d \in Devices : device[d].step # "idle" /\ ~device[d].match => device[d].failed < wrong

\* Verifications in flight that will buy, or are buying, a token.
Buyers == {d \in Devices : device[d].step # "idle" /\ device[d].match}

\* Only a right PIN comes to the issuing of a token.
IssuerRight == \A d \in Devices : device[d].step = "issue" => device[d].match

\* Unused tokens, consumed tokens and the tokens still to come are all paid for.
Balance == override + granted + Cardinality(Buyers) <= right

\* No more PINs were verified than the model lets through.
TriesBounded == wrong + right <= MaxTries

\* What a stage in flight has behind it when it comes to write the state.
StageCovered(k) ==
    /\ k.step # "idle" => state # Absent
    /\ k.step = "enter" => k.to \in {"POSTED", "ROLLED_BACK"}
    /\ k.step # "idle" /\ k.to \in {"AUTHORIZED", "POSTED"} => granted > 0
    /\ k.step # "idle" /\ k.to = "ROLLED_BACK" => posted > 0
    /\ k.step \in {"check", "write"} /\ k.to = "POSTED" => posted > 0
    /\ k.step \in {"check", "write"} /\ k.to = "ROLLED_BACK" => reversed > 0
    /\ k.step = "write" /\ k.to = "FINALIZED" => posted > 0

PinIInv == PinTypeOK /\ LockEarned /\ Judged /\ IssuerRight /\ TriesBounded
LedgerIInv ==
    /\ AdjustmentTypeOK
    /\ LedgerCovered
    /\ state = "AUTHORIZED" => granted > 0
    /\ \A c \in Clerks : StageCovered(clerk[c])
AdjustmentIInv == PinIInv /\ Balance /\ LedgerIInv

\* One request moves; the others stand where they stood.
LEMMA DeviceMoves ==
    ASSUME PinTypeOK, NEW d \in Devices, NEW k,
           k \in [step : {"idle", "unlock", "judge", "issue"}, failed : 0..MaxTries, match : BOOLEAN],
           device' = [device EXCEPT ![d] = k]
    PROVE  /\ device' \in [Devices -> [step : {"idle", "unlock", "judge", "issue"},
                                       failed : 0..MaxTries, match : BOOLEAN]]
           /\ device'[d] = k
           /\ \A e \in Devices : e # d => device'[e] = device[e]
BY DEF PinTypeOK

\* What a write to one field of the PIN document leaves in it.
PinDocument == [enabled : BOOLEAN, failed : 0..MaxTries, locked : {"never", "until", "over"}]
LEMMA FailedWrite ==
    ASSUME NEW p \in PinDocument, NEW n \in 0..MaxTries
    PROVE  LET q == [p EXCEPT !.failed = n]
           IN q \in PinDocument /\ q.failed = n /\ q.locked = p.locked
BY DEF PinDocument

LEMMA EnabledWrite ==
    ASSUME NEW p \in PinDocument, NEW b \in BOOLEAN
    PROVE  LET q == [p EXCEPT !.enabled = b]
           IN q \in PinDocument /\ q.failed = p.failed /\ q.locked = p.locked
BY DEF PinDocument

LEMMA LockedWrite ==
    ASSUME NEW p \in PinDocument, NEW l \in {"never", "until", "over"}
    PROVE  LET q == [p EXCEPT !.locked = l]
           IN q \in PinDocument /\ q.failed = p.failed /\ q.locked = l
BY DEF PinDocument

\* The steps of the PIN service keep its invariant: a stored number of failures, however stale,
\* is covered by wrong PINs.
LEMMA PinStep ==
    ASSUME PinIInv, Balance, granted \in Nat, PinNext \/ UseOverride
    PROVE  PinIInv'
<1> USE DEF PinIInv
<1>a. MaxTries \in Nat /\ PinAttempts \in Nat /\ IsFiniteSet(Devices)
  BY PinAssumption
<1>b. Cardinality(Buyers) \in Nat
  BY <1>a, PartCounts DEF Buyers
<1>z. 0 \in 0..MaxTries
  BY <1>a
<1>p. pin \in PinDocument
  BY DEF PinTypeOK, PinDocument
<1>r. /\ AtRest \in [step : {"idle", "unlock", "judge", "issue"}, failed : 0..MaxTries, match : BOOLEAN]
      /\ AtRest.step = "idle"
  BY <1>a DEF AtRest
<1>1. ASSUME NEW d \in Devices, ReadPin(d) PROVE PinIInv'
  <2>1. PICK match \in BOOLEAN :
          /\ device' = [device EXCEPT ![d] =
                [step |-> IF pin.locked = "over" THEN "unlock" ELSE "judge",
                 failed |-> pin.failed, match |-> match]]
          /\ wrong' = IF match THEN wrong ELSE wrong + 1
          /\ right' = IF match THEN right + 1 ELSE right
    BY <1>1 DEF ReadPin
  <2> DEFINE k == [step |-> IF pin.locked = "over" THEN "unlock" ELSE "judge",
                   failed |-> pin.failed, match |-> match]
  <2>2. k \in [step : {"idle", "unlock", "judge", "issue"}, failed : 0..MaxTries, match : BOOLEAN]
    BY DEF PinTypeOK
  <2>3. UNCHANGED <<pin, override>> /\ wrong + right < MaxTries
    BY <1>1 DEF ReadPin
  <2>4. /\ device' \in [Devices -> [step : {"idle", "unlock", "judge", "issue"},
                                    failed : 0..MaxTries, match : BOOLEAN]]
        /\ device'[d] = k
        /\ \A e \in Devices : e # d => device'[e] = device[e]
    <3> HIDE DEF k
    <3>1. device' = [device EXCEPT ![d] = k]
      BY <2>1 DEF k
    <3> QED BY <3>1, <2>2, DeviceMoves
  <2>5. k.step \in {"unlock", "judge"} /\ k.match = match /\ k.failed = pin.failed
    OBVIOUS
  <2>6. wrong \in Nat /\ right \in Nat /\ wrong' \in Nat /\ right' \in Nat
        /\ wrong <= wrong' /\ wrong' + right' <= MaxTries
    BY <2>1, <2>3, <1>a DEF PinTypeOK
  <2>6a. ~match => wrong' = wrong + 1
    BY <2>1
  <2>7. PinTypeOK'
    <3> HIDE DEF k
    <3>1. wrong' \in 0..MaxTries /\ right' \in 0..MaxTries
      BY <2>6, <1>a, SumBound
    <3>2. pin' = pin /\ override' = override
      BY <2>3
    <3> QED BY <2>4, <3>1, <3>2 DEF PinTypeOK
  <2>8. LockEarned'
    BY <2>3, <2>6, <1>a DEF LockEarned, PinTypeOK
  <2>9. Judged'
    <3> SUFFICES ASSUME NEW e \in Devices, device'[e].step # "idle", ~device'[e].match
                 PROVE  device'[e].failed < wrong'
      BY DEF Judged
    <3> HIDE DEF k
    <3>1. CASE e = d
      <4>1. wrong' = wrong + 1 /\ device'[e].failed = pin.failed
        BY <3>1, <2>4, <2>5, <2>6a
      <4>2. pin.failed \in Nat /\ pin.failed <= wrong
        BY <1>a DEF LockEarned, PinTypeOK
      <4> QED BY <4>1, <4>2, <2>6
    <3>2. CASE e # d
      BY <3>2, <2>4, <2>6 DEF Judged, PinTypeOK
    <3> QED BY <3>1, <3>2
  <2>10. IssuerRight'
    <3> HIDE DEF k
    <3> QED BY <2>4, <2>5 DEF IssuerRight
  <2> QED BY <2>6, <2>7, <2>8, <2>9, <2>10 DEF TriesBounded
<1>2. ASSUME NEW d \in Devices, UnlockPin(d) PROVE PinIInv'
  <2>1. /\ device[d].step = "unlock" /\ device' = [device EXCEPT ![d].step = "judge"]
        /\ pin' = [pin EXCEPT !.locked = "never", !.failed = 0] /\ UNCHANGED <<override, wrong, right>>
    BY <1>2 DEF UnlockPin, Stands, Advance
  <2>2. pin' = [[pin EXCEPT !.locked = "never"] EXCEPT !.failed = 0]
    BY <2>1
  <2>3. /\ pin' \in PinDocument
        /\ pin'.failed = 0 /\ pin'.locked = "never"
    <3>1. [pin EXCEPT !.locked = "never"] \in PinDocument /\ [pin EXCEPT !.locked = "never"].locked = "never"
      BY <1>p, LockedWrite
    <3> QED BY <2>2, <3>1, <1>z, FailedWrite
  <2>4. PinTypeOK' /\ LockEarned'
    BY <2>1, <2>3 DEF PinTypeOK, PinDocument, LockEarned
  <2>5. Judged' /\ IssuerRight'
    BY <2>1 DEF PinTypeOK, Judged, IssuerRight
  <2> QED BY <2>1, <2>4, <2>5 DEF TriesBounded
<1>3. ASSUME NEW d \in Devices, JudgePin(d) PROVE PinIInv'
  <2>0. device[d].step = "judge" /\ UNCHANGED <<override, wrong, right>>
    BY <1>3 DEF JudgePin, Stands
  <2>1. CASE device[d].match
    <3>1. pin' = [pin EXCEPT !.failed = 0] /\ device' = [device EXCEPT ![d].step = "issue"]
      BY <2>1, <1>3 DEF JudgePin, Advance
    <3>2. /\ pin' \in PinDocument
          /\ pin'.failed = 0 /\ pin'.locked = pin.locked
      BY <3>1, FailedWrite, <1>z, <1>p
    <3>3. PinTypeOK' /\ LockEarned'
      BY <2>0, <3>1, <3>2 DEF PinTypeOK, PinDocument, LockEarned
    <3>4. Judged' /\ IssuerRight'
      BY <2>0, <2>1, <3>1 DEF PinTypeOK, Judged, IssuerRight
    <3> QED BY <2>0, <3>3, <3>4 DEF TriesBounded
  <2>2. CASE ~device[d].match
    <3>1. pin' = AfterFailure(d) /\ device' = [device EXCEPT ![d] = AtRest]
      BY <2>2, <1>3 DEF JudgePin, Quit
    <3>2. device[d].failed + 1 <= wrong /\ device[d].failed \in Nat /\ wrong \in 0..MaxTries
      BY <2>0, <2>2 DEF Judged, PinTypeOK
    <3>3. /\ pin' \in PinDocument
          /\ pin'.failed <= wrong
          /\ pin'.locked # "never" => wrong >= PinAttempts
      <4> DEFINE n == device[d].failed + 1
                 q == [pin EXCEPT !.failed = n]
      <4>1. n \in 0..MaxTries /\ n <= wrong
        BY <3>2, <1>a
      <4>2. q \in PinDocument /\ q.failed = n /\ q.locked = pin.locked
        <5> HIDE DEF n
        <5> QED BY <4>1, <1>p, FailedWrite
      <4>3. pin' = [q EXCEPT !.locked = IF n >= PinAttempts THEN "until" ELSE q.locked]
        BY <3>1, <1>p DEF AfterFailure, PinDocument
      <4> DEFINE l == IF n >= PinAttempts THEN "until" ELSE q.locked
      <4>4. l \in {"never", "until", "over"} /\ (l # "never" => n >= PinAttempts \/ pin.locked # "never")
        <5> HIDE DEF n, q
        <5> QED BY <4>2, <1>p DEF PinDocument
      <4>5. pin' \in PinDocument /\ pin'.failed = n /\ pin'.locked = l
        <5>1. pin' = [q EXCEPT !.locked = l]
          BY <4>3
        <5> HIDE DEF n, q, l
        <5> QED BY <4>2, <4>4, <5>1, LockedWrite
      <4> HIDE DEF n, q, l
      <4> QED BY <4>1, <4>4, <4>5, <3>2, <1>a DEF LockEarned
    <3>4. PinTypeOK' /\ LockEarned'
      BY <2>0, <3>1, <3>3, <1>r, DeviceMoves DEF PinTypeOK, PinDocument, LockEarned
    <3>5. Judged' /\ IssuerRight'
      BY <2>0, <3>1, <1>r, DeviceMoves DEF Judged, IssuerRight
    <3> QED BY <2>0, <3>4, <3>5 DEF TriesBounded
  <2> QED BY <2>1, <2>2
<1>4. ASSUME NEW d \in Devices, IssueOverride(d) PROVE PinIInv'
  <2>1. /\ device[d].step = "issue" /\ device' = [device EXCEPT ![d] = AtRest]
        /\ override' = override + 1 /\ UNCHANGED <<pin, wrong, right>>
    BY <1>4 DEF IssueOverride, Stands, Quit
  <2>2. d \in Buyers
    BY <2>1 DEF Buyers, IssuerRight
  <2>3. Cardinality(Buyers) >= 1
    <3>1. IsFiniteSet(Buyers)
      BY <1>a, PartCounts DEF Buyers
    <3> QED BY <3>1, <2>2, <1>b, FS_EmptySet
  <2>4. override + 1 <= MaxTries
    BY <2>3, <1>a, <1>b DEF PinTypeOK, Balance
  <2> QED BY <2>1, <2>4, <1>r, DeviceMoves DEF PinTypeOK, LockEarned, Judged, IssuerRight, TriesBounded
<1>5. ASSUME NEW d \in Devices, DeviceGone(d) PROVE PinIInv'
  <2>1. device' = [device EXCEPT ![d] = AtRest] /\ UNCHANGED <<pin, override, wrong, right>>
    BY <1>5 DEF DeviceGone, Quit
  <2> QED BY <2>1, <1>r, DeviceMoves DEF PinTypeOK, LockEarned, Judged, IssuerRight, TriesBounded
<1>6. ASSUME SetPin \/ DisablePin \/ LockEnds PROVE PinIInv'
  <2>1. UNCHANGED <<override, device, wrong, right>>
    BY <1>6 DEF SetPin, DisablePin, LockEnds
  <2>2. /\ pin' \in PinDocument
        /\ pin'.failed <= pin.failed /\ (pin'.locked # "never" => pin.locked # "never")
    <3>1. pin.failed \in Nat
      BY <1>p, <1>a DEF PinDocument
    <3>2. CASE SetPin
      <4>1. [pin EXCEPT !.enabled = TRUE] \in PinDocument /\ [pin EXCEPT !.enabled = TRUE].locked = pin.locked
        BY <1>p, EnabledWrite
      <4>2. pin' = [[pin EXCEPT !.enabled = TRUE] EXCEPT !.failed = 0]
        BY <3>2 DEF SetPin
      <4>3. pin' \in PinDocument /\ pin'.failed = 0 /\ pin'.locked = pin.locked
        BY <4>1, <4>2, <1>z, FailedWrite
      <4> QED BY <4>3, <3>1
    <3>3. CASE DisablePin
      <4>1. pin' = [pin EXCEPT !.enabled = FALSE]
        BY <3>3 DEF DisablePin
      <4>2. pin' \in PinDocument /\ pin'.failed = pin.failed /\ pin'.locked = pin.locked
        BY <4>1, <1>p, EnabledWrite
      <4> QED BY <4>2, <3>1
    <3>4. CASE LockEnds
      <4>1. pin' = [pin EXCEPT !.locked = "over"] /\ pin.locked = "until"
        BY <3>4 DEF LockEnds
      <4>2. pin' \in PinDocument /\ pin'.failed = pin.failed
        BY <4>1, <1>p, LockedWrite
      <4> QED BY <4>1, <4>2, <3>1
    <3> QED BY <1>6, <3>2, <3>3, <3>4
  <2>3. PinTypeOK' /\ LockEarned'
    BY <2>1, <2>2 DEF PinTypeOK, PinDocument, LockEarned
  <2>4. Judged' /\ IssuerRight'
    BY <2>1 DEF Judged, IssuerRight
  <2> QED BY <2>1, <2>3, <2>4 DEF TriesBounded
<1>7. ASSUME OverrideExpires \/ UseOverride PROVE PinIInv'
  <2>1. UNCHANGED <<pin, device, wrong, right>> /\ override > 0 /\ override' = override - 1
    BY <1>7 DEF OverrideExpires, UseOverride, UseUp
  <2> QED BY <2>1, <1>a DEF PinTypeOK, LockEarned, Judged, IssuerRight, TriesBounded
<1> QED BY <1>1, <1>2, <1>3, <1>4, <1>5, <1>6, <1>7 DEF PinNext

\* The PIN service issues a token only against a right PIN counted for it alone.
LEMMA BalanceStep ==
    ASSUME PinIInv, Balance, granted \in Nat, PinNext, UNCHANGED granted
    PROVE  Balance'
<1> USE DEF PinIInv
<1>a. IsFiniteSet(Devices) /\ MaxTries \in Nat
  BY PinAssumption
<1>n. right \in Nat /\ override \in Nat
  BY <1>a DEF PinTypeOK
<1>b. /\ IsFiniteSet(Buyers) /\ Cardinality(Buyers) \in Nat
      /\ IsFiniteSet(Buyers') /\ Cardinality(Buyers') \in Nat
  BY <1>a, PartCounts DEF Buyers
<1>r. AtRest \in [step : {"idle", "unlock", "judge", "issue"}, failed : 0..MaxTries, match : BOOLEAN]
  BY <1>a DEF AtRest
<1>s. ASSUME Buyers' \subseteq Buyers, override' \in Nat, override' <= override, UNCHANGED right
      PROVE  Balance'
  <2>1. Cardinality(Buyers') <= Cardinality(Buyers)
    BY <1>s, <1>b, PartCounts
  <2> DEFINE b == Cardinality(Buyers')
  <2>2. override' + granted + b <= right
    <3> HIDE DEF b
    <3> QED BY <2>1, <1>s, <1>b, <1>n DEF Balance, b
  <2> QED BY <2>2, <1>s DEF Balance
<1>1. ASSUME NEW d \in Devices, ReadPin(d) PROVE Balance'
  <2>1. PICK match \in BOOLEAN :
          /\ device' = [device EXCEPT ![d] =
                [step |-> IF pin.locked = "over" THEN "unlock" ELSE "judge",
                 failed |-> pin.failed, match |-> match]]
          /\ right' = IF match THEN right + 1 ELSE right
    BY <1>1 DEF ReadPin
  <2>2. UNCHANGED override
    BY <1>1 DEF ReadPin
  <2>3. \A e \in Devices : e # d => device'[e] = device[e]
    BY <2>1 DEF PinTypeOK
  <2>4. device'[d].match = match
    BY <2>1 DEF PinTypeOK
  <2>5. CASE match
    <3>1. Buyers' \subseteq Buyers \cup {d}
      BY <2>3 DEF Buyers
    <3>2. Cardinality(Buyers') <= Cardinality(Buyers) + 1
      BY <3>1, <1>b, JoinCounts
    <3>3. right' = right + 1
      BY <2>1, <2>5
    <3>4. override + granted + Cardinality(Buyers') <= right + 1
      BY <3>2, <1>b, <1>n DEF Balance
    <3> QED BY <3>3, <3>4, <2>2 DEF Balance
  <2>6. CASE ~match
    <3>1. Buyers' \subseteq Buyers
      BY <2>3, <2>4, <2>6 DEF Buyers
    <3> QED BY <3>1, <2>1, <2>2, <2>6, <1>n, <1>s
  <2> QED BY <2>5, <2>6
<1>2. ASSUME NEW d \in Devices, UnlockPin(d) PROVE Balance'
  <2>1. /\ device[d].step = "unlock" /\ device' = [device EXCEPT ![d].step = "judge"]
        /\ UNCHANGED <<override, right>>
    BY <1>2 DEF UnlockPin, Stands, Advance
  <2>2. Buyers' \subseteq Buyers
    BY <2>1 DEF Buyers, PinTypeOK
  <2> QED BY <2>1, <2>2, <1>n, <1>s
<1>3. ASSUME NEW d \in Devices, JudgePin(d) PROVE Balance'
  <2>1. device[d].step = "judge" /\ UNCHANGED <<override, right>>
    BY <1>3 DEF JudgePin, Stands
  <2>2. CASE device[d].match
    <3>1. device' = [device EXCEPT ![d].step = "issue"]
      BY <2>2, <1>3 DEF JudgePin, Advance
    <3>2. Buyers' \subseteq Buyers
      BY <2>1, <2>2, <3>1 DEF Buyers, PinTypeOK
    <3> QED BY <2>1, <3>2, <1>n, <1>s
  <2>3. CASE ~device[d].match
    <3>1. device' = [device EXCEPT ![d] = AtRest]
      BY <2>3, <1>3 DEF JudgePin, Quit
    <3>2. Buyers' \subseteq Buyers
      BY <3>1, <1>r, DeviceMoves DEF Buyers, AtRest
    <3> QED BY <2>1, <3>2, <1>n, <1>s
  <2> QED BY <2>2, <2>3
<1>4. ASSUME NEW d \in Devices, IssueOverride(d) PROVE Balance'
  <2>1. /\ device[d].step = "issue" /\ device' = [device EXCEPT ![d] = AtRest]
        /\ override' = override + 1 /\ UNCHANGED right
    BY <1>4 DEF IssueOverride, Stands, Quit
  <2>2. d \in Buyers
    BY <2>1 DEF Buyers, IssuerRight
  <2>3. Buyers' \subseteq Buyers \ {d}
    BY <2>1, <1>r, DeviceMoves DEF Buyers, AtRest
  <2>4. Cardinality(Buyers') + 1 <= Cardinality(Buyers)
    BY <2>2, <2>3, <1>b, LeaveCounts
  <2> DEFINE b == Cardinality(Buyers')
  <2>5. (override + 1) + granted + b <= right
    <3> HIDE DEF b
    <3> QED BY <2>4, <1>b, <1>n DEF Balance, b
  <2> QED BY <2>1, <2>5 DEF Balance
<1>5. ASSUME NEW d \in Devices, DeviceGone(d) PROVE Balance'
  <2>1. device' = [device EXCEPT ![d] = AtRest] /\ UNCHANGED <<override, right>>
    BY <1>5 DEF DeviceGone, Quit
  <2>2. Buyers' \subseteq Buyers
    BY <2>1, <1>r, DeviceMoves DEF Buyers, AtRest
  <2> QED BY <2>1, <2>2, <1>n, <1>s
<1>6. ASSUME SetPin \/ DisablePin \/ LockEnds PROVE Balance'
  <2>1. UNCHANGED <<override, device, right>>
    BY <1>6 DEF SetPin, DisablePin, LockEnds
  <2>2. Buyers' \subseteq Buyers
    BY <2>1 DEF Buyers
  <2> QED BY <2>1, <2>2, <1>n, <1>s
<1>7. ASSUME OverrideExpires PROVE Balance'
  <2>1. UNCHANGED <<device, right>> /\ override > 0 /\ override' = override - 1
    BY <1>7 DEF OverrideExpires
  <2>2. Buyers' \subseteq Buyers
    BY <2>1 DEF Buyers
  <2>3. override' \in Nat /\ override' <= override
    BY <2>1, <1>n
  <2> QED BY <2>1, <2>2, <2>3, <1>s
<1> QED BY <1>1, <1>2, <1>3, <1>4, <1>5, <1>6, <1>7 DEF PinNext

\* The states of an adjustment, spelled out.
LEMMA StatesAre ==
    /\ AdjustmentStates = {"DRAFT", "PROPOSED", "PENDING_AUTHORIZATION", "AUTHORIZED", "POSTED",
                           "FINALIZED", "VOIDED", "ROLLED_BACK"}
    /\ Absent \notin AdjustmentStates
BY DEF AdjustmentStates, Transitions, Absent

\* What the transition table lets an adjustment come from.
LEMMA AllowedFrom ==
    ASSUME NEW from \in AdjustmentStates, NEW to, Allowed(from, to)
    PROVE  to = "FINALIZED" => from = "POSTED"
BY StatesAre DEF Allowed, Transitions

\* One stage moves; the others stand where they stood.
Stage == [step : {"idle", "enter", "check", "write"}, to : AdjustmentStates]
LEMMA ClerkMoves ==
    ASSUME AdjustmentTypeOK, NEW c \in Clerks, NEW k \in Stage, clerk' = [clerk EXCEPT ![c] = k]
    PROVE  /\ clerk' \in [Clerks -> Stage]
           /\ \A e \in Clerks : clerk'[e] = IF e = c THEN k ELSE clerk[e]
BY DEF AdjustmentTypeOK, Stage

\* A stage that goes on keeps where it is going.
LEMMA StageGoesOn ==
    ASSUME AdjustmentTypeOK, NEW c \in Clerks, NEW s
    PROVE  [clerk EXCEPT ![c].step = s] = [clerk EXCEPT ![c] = [step |-> s, to |-> clerk[c].to]]
<1>1. clerk[c] \in Stage
  BY DEF AdjustmentTypeOK, Stage
<1>2. [clerk[c] EXCEPT !.step = s] = [step |-> s, to |-> clerk[c].to]
  BY <1>1 DEF Stage
<1> QED BY <1>2

\* What a stage in flight rests on is only added to: grants, entries and reversals never shrink.
LEMMA StageKeeps ==
    ASSUME NEW k, StageCovered(k), state # Absent => state' # Absent,
           granted > 0 => granted' > 0, posted > 0 => posted' > 0, reversed > 0 => reversed' > 0
    PROVE  StageCovered(k)'
BY DEF StageCovered

\* Every stage of an adjustment keeps the ledger covered, whatever the others wrote meanwhile.
LEMMA LedgerStep ==
    ASSUME AdjustmentIInv,
           \/ CreateProposal
           \/ \E c \in Clerks : Request(c) \/ Load(c) \/ EnterLedger(c)
                                \/ Check(c) \/ WriteState(c) \/ StageDies(c)
           \/ \E c \in Clerks : Authorize(c) /\ granted' \in 0..MaxTries
    PROVE  LedgerIInv'
<1> USE DEF AdjustmentIInv, LedgerIInv
<1>a. MaxTries \in Nat /\ MaxEntries \in Nat
  BY PinAssumption, AdjustmentAssumption
<1>n. posted \in Nat /\ reversed \in Nat /\ granted \in Nat
  BY <1>a DEF AdjustmentTypeOK
<1>f. Free \in Stage /\ Free.step = "idle" /\ StageCovered(Free)' /\ Free.to = "VOIDED"
  BY StatesAre DEF Free, Stage, StageCovered
<1>1. CASE CreateProposal
  <2>1. state' = "DRAFT" /\ state = Absent /\ UNCHANGED <<posted, reversed, clerk, granted>>
    BY <1>1 DEF CreateProposal, ledger
  <2>2. AdjustmentTypeOK'
    BY <2>1, StatesAre DEF AdjustmentTypeOK
  <2>3. LedgerCovered' /\ (state = "AUTHORIZED" => granted > 0)'
    BY <2>1 DEF LedgerCovered
  <2>4. ASSUME NEW c \in Clerks PROVE StageCovered(clerk[c])'
    <3>1. state' # Absent
      BY <2>1 DEF Absent
    <3>2. StageCovered(clerk[c])
      OBVIOUS
    <3> QED BY <3>1, <3>2, <2>1 DEF StageCovered
  <2> QED BY <2>2, <2>3, <2>4
<1>2. ASSUME NEW c \in Clerks, NEW k \in Stage, clerk' = [clerk EXCEPT ![c] = k],
             UNCHANGED <<state, posted, reversed, granted>>, StageCovered(k)
      PROVE  LedgerIInv'
  <2>1. /\ clerk' \in [Clerks -> Stage]
        /\ \A e \in Clerks : clerk'[e] = IF e = c THEN k ELSE clerk[e]
    BY <1>2, ClerkMoves
  <2>2. AdjustmentTypeOK'
    BY <2>1, <1>2 DEF AdjustmentTypeOK, Stage
  <2>3. LedgerCovered' /\ (state = "AUTHORIZED" => granted > 0)'
    BY <1>2 DEF LedgerCovered
  <2>4. ASSUME NEW e \in Clerks PROVE StageCovered(clerk[e])'
    <3>1. StageCovered(clerk'[e])
      BY <2>1, <1>2
    <3> QED BY <3>1, <1>2 DEF StageCovered
  <2> QED BY <2>2, <2>3, <2>4
<1>3. ASSUME NEW c \in Clerks, Request(c) PROVE LedgerIInv'
  <2>1. PICK to \in {"PENDING_AUTHORIZATION", "FINALIZED", "VOIDED"} :
          clerk' = [clerk EXCEPT ![c] = [step |-> "check", to |-> to]]
    BY <1>3 DEF Request
  <2>2. UNCHANGED <<state, posted, reversed, granted>> /\ state # Absent
    BY <1>3 DEF Request, ledger
  <2> DEFINE k == [step |-> "check", to |-> to]
  <2>3. k \in Stage /\ StageCovered(k)
    BY <2>2, StatesAre DEF Stage, StageCovered
  <2> QED BY <2>1, <2>2, <2>3, <1>2
<1>4. ASSUME NEW c \in Clerks, Load(c) PROVE LedgerIInv'
  <2>1. PICK to \in DOMAIN Loads :
          state = Loads[to] /\ clerk' = [clerk EXCEPT ![c] = [step |-> "enter", to |-> to]]
    BY <1>4 DEF Load
  <2>2. UNCHANGED <<state, posted, reversed, granted>>
    BY <1>4 DEF Load, ledger
  <2>3. \/ to = "POSTED" /\ state = "AUTHORIZED"
        \/ to = "ROLLED_BACK" /\ state = "POSTED"
    BY <2>1 DEF Loads
  <2> DEFINE k == [step |-> "enter", to |-> to]
  <2>4. k \in Stage /\ StageCovered(k)
    BY <2>3, StatesAre DEF Stage, StageCovered, LedgerCovered, Absent
  <2> QED BY <2>1, <2>2, <2>4, <1>2
<1>5. ASSUME NEW c \in Clerks, EnterLedger(c) PROVE LedgerIInv'
  <2>0. PICK to : to = clerk[c].to
    OBVIOUS
  <2> DEFINE k == [step |-> "check", to |-> to]
  <2>1. clerk[c] \in Stage /\ clerk[c].step = "enter" /\ to \in {"POSTED", "ROLLED_BACK"}
    BY <1>5, <2>0 DEF EnterLedger, Busy, AdjustmentTypeOK, Stage, StageCovered
  <2>2. k \in Stage
    BY <2>1, StatesAre DEF Stage
  <2>3. clerk' = [clerk EXCEPT ![c] = k]
    BY <1>5, <2>0, StageGoesOn DEF EnterLedger
  <2>4. UNCHANGED <<state, granted>>
    BY <1>5 DEF EnterLedger
  <2>5. /\ posted' \in 0..MaxEntries /\ reversed' \in 0..MaxEntries
        /\ posted <= posted' /\ reversed <= reversed'
        /\ to = "POSTED" => posted' > 0 /\ reversed' = reversed
        /\ to # "POSTED" => reversed' > 0 /\ posted' = posted
    BY <1>5, <1>a, <1>n, <2>0 DEF EnterLedger, AdjustmentTypeOK
  <2>6. StageCovered(clerk[c])
    OBVIOUS
  <2>7. to = "POSTED" => granted > 0
    BY <2>0, <2>1, <2>6 DEF StageCovered
  <2>8. to = "ROLLED_BACK" => posted > 0
    BY <2>0, <2>1, <2>6 DEF StageCovered
  <2>9. /\ clerk' \in [Clerks -> Stage]
        /\ \A e \in Clerks : clerk'[e] = IF e = c THEN k ELSE clerk[e]
    <3> HIDE DEF k
    <3> QED BY <2>2, <2>3, ClerkMoves
  <2>10. AdjustmentTypeOK'
    BY <2>4, <2>5, <2>9 DEF AdjustmentTypeOK, Stage
  <2>p. posted > 0 => posted' > 0
    BY <2>5, <1>n, <1>a
  <2>q. reversed > 0 => reversed' > 0
    BY <2>5, <1>n, <1>a
  <2>11. LedgerCovered' /\ (state = "AUTHORIZED" => granted > 0)'
    <3>1. to = "POSTED" \/ to = "ROLLED_BACK"
      BY <2>1
    <3> QED BY <3>1, <2>4, <2>5, <2>7, <2>8, <2>p, <2>q DEF LedgerCovered
  <2>12. StageCovered(k)'
    <3>1. state' # Absent
      BY <2>1, <2>4, <2>6 DEF StageCovered
    <3>2. /\ k.step = "check" /\ k.to = to
      OBVIOUS
    <3>3. to = "POSTED" => granted' > 0 /\ posted' > 0
      BY <2>4, <2>5, <2>7
    <3>4. to = "ROLLED_BACK" => posted' > 0 /\ reversed' > 0
      BY <2>5, <2>8, <2>p
    <3>5. to \in {"POSTED", "ROLLED_BACK"}
      BY <2>1
    <3> HIDE DEF k
    <3> QED BY <3>1, <3>2, <3>3, <3>4, <3>5 DEF StageCovered
  <2>13. ASSUME NEW e \in Clerks, e # c PROVE StageCovered(clerk[e])'
    <3>1. clerk'[e] = clerk[e] /\ StageCovered(clerk[e])
      BY <2>9, <2>13
    <3> QED BY <3>1, <2>4, <2>p, <2>q DEF StageCovered
  <2>14. ASSUME NEW e \in Clerks PROVE StageCovered(clerk[e])'
    <3>1. CASE e = c
      <4>1. clerk'[e] = k
        BY <3>1, <2>9
      <4> QED BY <4>1, <2>12 DEF StageCovered
    <3> QED BY <3>1, <2>13
  <2> QED BY <2>10, <2>11, <2>14
<1>6. ASSUME NEW c \in Clerks, Check(c) PROVE LedgerIInv'
  <2>1. clerk[c] \in Stage /\ clerk[c].step = "check" /\ StageCovered(clerk[c])
    BY <1>6 DEF Check, Busy, AdjustmentTypeOK, Stage
  <2>2. UNCHANGED <<state, posted, reversed, granted>>
    BY <1>6 DEF Check, ledger
  <2>3. CASE Allowed(state, clerk[c].to)
    <3> DEFINE k == [step |-> "write", to |-> clerk[c].to]
    <3>1. clerk' = [clerk EXCEPT ![c] = k] /\ k \in Stage
      <4>1. clerk' = [clerk EXCEPT ![c].step = "write"]
        BY <2>3, <1>6 DEF Check
      <4> QED BY <4>1, <2>1, StageGoesOn DEF Stage
    <3>2. state \in AdjustmentStates
      BY <2>1 DEF StageCovered, AdjustmentTypeOK
    <3>3. clerk[c].to = "FINALIZED" => posted > 0
      BY <2>3, <3>2, AllowedFrom DEF LedgerCovered
    <3>4. StageCovered(k)
      BY <2>1, <3>3 DEF StageCovered
    <3> HIDE DEF k
    <3> QED BY <3>1, <3>4, <2>2, <1>2
  <2>4. CASE ~Allowed(state, clerk[c].to)
    <3>1. clerk' = [clerk EXCEPT ![c] = Free]
      BY <2>4, <1>6 DEF Check
    <3>2. StageCovered(Free)
      BY DEF Free, StageCovered
    <3> QED BY <3>1, <3>2, <2>2, <1>2, <1>f
  <2> QED BY <2>3, <2>4
<1>7. ASSUME NEW c \in Clerks, WriteState(c) PROVE LedgerIInv'
  <2>1. clerk[c] \in Stage /\ clerk[c].step = "write" /\ StageCovered(clerk[c])
    BY <1>7 DEF WriteState, Busy, AdjustmentTypeOK, Stage
  <2>2. /\ state' = clerk[c].to /\ clerk' = [clerk EXCEPT ![c] = Free]
        /\ UNCHANGED <<posted, reversed, granted>>
    BY <1>7 DEF WriteState, ledger
  <2>3. /\ clerk' \in [Clerks -> Stage]
        /\ \A e \in Clerks : clerk'[e] = IF e = c THEN Free ELSE clerk[e]
    BY <2>2, <1>f, ClerkMoves
  <2>4. state' \in AdjustmentStates /\ state' # Absent
    BY <2>1, <2>2, StatesAre DEF Stage
  <2>5. AdjustmentTypeOK'
    BY <2>2, <2>3, <2>4 DEF AdjustmentTypeOK, Stage
  <2>6. LedgerCovered' /\ (state = "AUTHORIZED" => granted > 0)'
    BY <2>1, <2>2 DEF LedgerCovered, StageCovered
  <2>7. ASSUME NEW e \in Clerks PROVE StageCovered(clerk[e])'
    <3>1. CASE e = c
      <4>1. clerk'[e] = Free
        BY <3>1, <2>3
      <4> QED BY <4>1, <1>f DEF StageCovered
    <3>2. CASE e # c
      <4>1. clerk'[e] = clerk[e] /\ StageCovered(clerk[e])
        BY <3>2, <2>3
      <4> QED BY <4>1, <2>2, <2>4 DEF StageCovered
    <3> QED BY <3>1, <3>2
  <2> QED BY <2>5, <2>6, <2>7
<1>8. ASSUME NEW c \in Clerks, StageDies(c) PROVE LedgerIInv'
  <2>1. clerk' = [clerk EXCEPT ![c] = Free] /\ UNCHANGED <<state, posted, reversed, granted>>
    BY <1>8 DEF StageDies, ledger
  <2>2. StageCovered(Free)
    BY DEF Free, StageCovered
  <2> QED BY <2>1, <2>2, <1>2, <1>f
<1>9. ASSUME NEW c \in Clerks, Authorize(c), granted' \in 0..MaxTries PROVE LedgerIInv'
  <2> DEFINE k == [step |-> "check", to |-> "AUTHORIZED"]
  <2>1. /\ state # Absent /\ granted' = granted + 1 /\ clerk' = [clerk EXCEPT ![c] = k]
        /\ UNCHANGED <<state, posted, reversed>>
    BY <1>9 DEF Authorize, ledger
  <2>2. k \in Stage
    BY StatesAre DEF Stage
  <2>3. granted' > 0
    BY <2>1, <1>n
  <2>4. k.step = "check" /\ k.to = "AUTHORIZED"
    OBVIOUS
  <2> HIDE DEF k
  <2>5. /\ clerk' \in [Clerks -> Stage]
        /\ \A e \in Clerks : clerk'[e] = IF e = c THEN k ELSE clerk[e]
    BY <2>1, <2>2, ClerkMoves
  <2>6. AdjustmentTypeOK'
    BY <2>1, <2>5, <1>9 DEF AdjustmentTypeOK, Stage
  <2>7. LedgerCovered' /\ (state = "AUTHORIZED" => granted > 0)'
    BY <2>1, <2>3 DEF LedgerCovered
  <2>8. ASSUME NEW e \in Clerks PROVE StageCovered(clerk[e])'
    <3>1. CASE e = c
      <4>1. clerk'[e] = k /\ state' # Absent
        BY <3>1, <2>5, <2>1
      <4> QED BY <4>1, <2>4, <2>3 DEF StageCovered
    <3>2. CASE e # c
      <4>1. clerk'[e] = clerk[e] /\ StageCovered(clerk[e])
        BY <3>2, <2>5
      <4> QED BY <4>1, <2>1, <2>3 DEF StageCovered
    <3> QED BY <3>1, <3>2
  <2> QED BY <2>6, <2>7, <2>8
<1> QED BY <1>1, <1>3, <1>4, <1>5, <1>6, <1>7, <1>8, <1>9

\* The invariant holds at the start.
LEMMA AdjustmentStart == PinInit /\ AdjustmentInit => AdjustmentIInv
<1> SUFFICES ASSUME PinInit, AdjustmentInit PROVE AdjustmentIInv
  OBVIOUS
<1>a. MaxTries \in Nat /\ MaxEntries \in Nat /\ PinAttempts \in Nat
  BY PinAssumption, AdjustmentAssumption
<1>1. PinTypeOK
  BY <1>a DEF PinInit, PinTypeOK, AtRest
<1>2. LockEarned /\ Judged /\ IssuerRight /\ TriesBounded
  BY <1>a DEF PinInit, LockEarned, Judged, IssuerRight, TriesBounded, AtRest
<1>3. Balance
  <2>1. Buyers = {}
    BY DEF PinInit, Buyers, AtRest
  <2> QED BY <2>1, FS_EmptySet DEF Balance, PinInit, AdjustmentInit
<1>4. LedgerIInv
  <2>1. AdjustmentTypeOK
    BY <1>a, StatesAre DEF AdjustmentInit, AdjustmentTypeOK, Free
  <2>2. LedgerCovered /\ state # "AUTHORIZED"
    BY DEF AdjustmentInit, LedgerCovered, Absent
  <2>3. ASSUME NEW c \in Clerks PROVE StageCovered(clerk[c])
    BY DEF AdjustmentInit, StageCovered, Free
  <2> QED BY <2>1, <2>2, <2>3 DEF LedgerIInv
<1> QED BY <1>1, <1>2, <1>3, <1>4 DEF AdjustmentIInv, PinIInv

\* ... and every step keeps it.
LEMMA AdjustmentKeeps ==
    AdjustmentIInv /\ [AdjustmentNext]_<<pinVars, adjustmentVars>> => AdjustmentIInv'
<1> SUFFICES ASSUME AdjustmentIInv, [AdjustmentNext]_<<pinVars, adjustmentVars>>
             PROVE  AdjustmentIInv'
  OBVIOUS
<1>a. MaxTries \in Nat /\ IsFiniteSet(Devices)
  BY PinAssumption
<1>g. granted \in Nat /\ PinIInv /\ Balance /\ LedgerIInv
  BY <1>a DEF AdjustmentIInv, LedgerIInv, AdjustmentTypeOK
<1>p. ASSUME UNCHANGED pinVars, UNCHANGED granted PROVE PinIInv' /\ Balance'
  <2>1. PinIInv'
    BY <1>p, <1>g DEF pinVars, PinIInv, PinTypeOK, LockEarned, Judged, IssuerRight, TriesBounded
  <2>2. Balance'
    BY <1>p, <1>g DEF pinVars, Balance, Buyers
  <2> QED BY <2>1, <2>2
<1>1. CASE \/ CreateProposal
           \/ \E c \in Clerks : Request(c) \/ Load(c) \/ EnterLedger(c)
                                \/ Check(c) \/ WriteState(c) \/ StageDies(c)
  <2>1. UNCHANGED pinVars /\ UNCHANGED granted
    BY <1>1 DEF CreateProposal, Request, Load, EnterLedger, Check, WriteState, StageDies
  <2>2. LedgerIInv'
    BY <1>1, LedgerStep
  <2> QED BY <2>1, <2>2, <1>p DEF AdjustmentIInv
<1>2. ASSUME NEW c \in Clerks, Authorize(c) PROVE AdjustmentIInv'
  <2>1. UseOverride /\ granted' = granted + 1
    BY <1>2 DEF Authorize
  <2>2. PinIInv'
    BY <2>1, <1>g, PinStep
  <2>3. UNCHANGED <<device, right>> /\ override > 0 /\ override' = override - 1
    BY <2>1 DEF UseOverride, UseUp
  <2>4. override \in Nat /\ right \in 0..MaxTries
    BY <1>a, <1>g DEF PinIInv, PinTypeOK
  <2>5. Buyers' = Buyers /\ Cardinality(Buyers) \in Nat
    BY <2>3, <1>a, PartCounts DEF Buyers
  <2>6. (override - 1) + (granted + 1) + Cardinality(Buyers) <= right
    BY <1>g, <2>3, <2>4, <2>5 DEF Balance
  <2>7. Balance'
    BY <2>1, <2>3, <2>5, <2>6 DEF Balance
  <2>8. granted + 1 \in 0..MaxTries
    <3>1. override + granted <= right /\ override >= 1
      BY <1>g, <2>3, <2>4, <2>5 DEF Balance
    <3> QED BY <3>1, <1>a, <1>g, <2>4
  <2>9. LedgerIInv'
    BY <1>2, <2>1, <2>8, LedgerStep
  <2> QED BY <2>2, <2>7, <2>9 DEF AdjustmentIInv
<1>3. CASE PinNext /\ UNCHANGED adjustmentVars
  <2>1. PinIInv' /\ Balance'
    BY <1>3, <1>g, PinStep, BalanceStep DEF adjustmentVars
  <2>2. LedgerIInv'
    BY <1>3, <1>g DEF adjustmentVars, LedgerIInv, AdjustmentTypeOK, LedgerCovered, StageCovered
  <2> QED BY <2>1, <2>2 DEF AdjustmentIInv
<1>4. CASE UNCHANGED <<pinVars, adjustmentVars>>
  <2>1. PinIInv' /\ Balance'
    BY <1>4, <1>p DEF adjustmentVars
  <2>2. LedgerIInv'
    BY <1>4, <1>g DEF adjustmentVars, LedgerIInv, AdjustmentTypeOK, LedgerCovered, StageCovered
  <2> QED BY <2>1, <2>2 DEF AdjustmentIInv
<1> QED BY <1>1, <1>2, <1>3, <1>4 DEF AdjustmentNext

\* The invariant says what was promised.
LEMMA AdjustmentCovers == AdjustmentIInv => AdjustmentInv
<1> SUFFICES ASSUME AdjustmentIInv PROVE AdjustmentInv
  OBVIOUS
<1>a. MaxTries \in Nat /\ IsFiniteSet(Devices)
  BY PinAssumption
<1>1. OverrideEarned
  <2> DEFINE I == {d \in Devices : Stands(d, "issue")}
  <2>1. I \subseteq Buyers
    BY DEF Stands, Buyers, AdjustmentIInv, PinIInv, IssuerRight
  <2>2. IsFiniteSet(Buyers)
    BY <1>a, PartCounts DEF Buyers
  <2>3. Cardinality(I) \in Nat /\ Cardinality(Buyers) \in Nat /\ Cardinality(I) <= Cardinality(Buyers)
    BY <2>1, <2>2, PartCounts
  <2>4. override \in Nat /\ granted \in Nat /\ right \in Nat
    BY <1>a DEF AdjustmentIInv, PinIInv, PinTypeOK, LedgerIInv, AdjustmentTypeOK
  <2>5. override + granted + Cardinality(Buyers) <= right
    BY DEF AdjustmentIInv, Balance
  <2> HIDE DEF I
  <2>6. override + granted + Cardinality(I) <= right
    BY <2>3, <2>4, <2>5
  <2> QED BY <2>6 DEF OverrideEarned, I
<1> QED BY <1>1 DEF AdjustmentInv, AdjustmentIInv, PinIInv, LedgerIInv

\* What a supervisor's PIN guards (verify_pin, validate_override_token and the stages of
\* InventoryAdjustmentService): locks are earned by wrong PINs, override tokens by right ones and
\* ledger entries by override tokens, for any number of devices and clerks at work at once.
THEOREM AdjustmentsCovered == AdjustmentSpec => []AdjustmentInv
<1>1. AdjustmentSpec => []AdjustmentIInv
  BY AdjustmentStart, AdjustmentKeeps, PTL DEF AdjustmentSpec
<1> QED BY <1>1, AdjustmentCovers, PTL

------------------------------------------------------------------------------
(* Reset codes                                                              *)

Otp == [code : 1..MaxCodes, attempts : Nat]
CallerState == [step : {"idle", "create", "send", "undo", "drop", "miss", "hit", "grant", "change"},
                code : 0..MaxCodes]

\* Requests past the check of the attempts that will raise the counter.
Missing == {c \in Callers : caller[c].step = "miss"}

\* Only the oldest code is ever counted against, and what is still to be counted fits as well.
AttemptsCovered ==
    \A i \in DOMAIN otp :
        /\ otp[i].attempts + Cardinality(Missing) <= MaxAttempts - 1 + Cardinality(Callers)
        /\ i > 1 => otp[i].attempts = 0

\* Codes are stored in the order in which they were made.
CodesOrdered ==
    /\ Len(otp) <= codes
    /\ \A i \in DOMAIN otp : otp[i].code <= codes
    /\ \A i, j \in DOMAIN otp : i < j => otp[i].code < otp[j].code

\* A spent code is older than every stored one, a code about to be spent not younger.
SpentOlder ==
    /\ \A s \in spent : s <= codes /\ \A i \in DOMAIN otp : s < otp[i].code
    /\ \A c \in Callers : caller[c].step = "hit" =>
          /\ caller[c].code \in 1..codes
          /\ \A i \in DOMAIN otp : caller[c].code <= otp[i].code

CodesIInv == CodesTypeOK /\ AttemptsCovered /\ CodesOrdered /\ SpentOlder /\ ChangeEarned

\* The bounds of the model, as the proofs use them.
LEMMA CodeBounds ==
    /\ MaxAttempts \in Nat /\ MaxAttempts >= 1 /\ MaxCodes \in Nat /\ MaxAccepted \in Nat
    /\ IsFiniteSet(Callers) /\ Cardinality(Callers) \in Nat
BY CodesAssumption, FS_CardinalityType

\* One request moves; the others stand where they stood.
LEMMA CallerMoves ==
    ASSUME CodesTypeOK, NEW c \in Callers, NEW k \in CallerState, caller' = [caller EXCEPT ![c] = k]
    PROVE  /\ caller' \in [Callers -> CallerState]
           /\ \A e \in Callers : caller'[e] = IF e = c THEN k ELSE caller[e]
BY DEF CodesTypeOK, CallerState

\* Go keeps the code of a request, Done forgets it.
LEMMA CallerGoes ==
    ASSUME CodesTypeOK, NEW c \in Callers,
           NEW s \in {"idle", "create", "send", "undo", "drop", "miss", "hit", "grant", "change"}, Go(c, s)
    PROVE  /\ caller' \in [Callers -> CallerState]
           /\ caller'[c].step = s /\ caller'[c].code = caller[c].code
           /\ \A e \in Callers : e # c => caller'[e] = caller[e]
BY DEF CodesTypeOK, CallerState, Go

LEMMA CallerDone ==
    ASSUME CodesTypeOK, NEW c \in Callers, Done(c)
    PROVE  /\ caller' \in [Callers -> CallerState]
           /\ caller'[c].step = "idle"
           /\ \A e \in Callers : e # c => caller'[e] = caller[e]
<1>1. Quiescent \in CallerState /\ Quiescent.step = "idle"
  BY CodeBounds DEF Quiescent, CallerState
<1> QED BY <1>1, CallerMoves DEF Done

\* What is left of the stored codes when older ones go: everything but the first k.
Rest(k) ==
    /\ otp' \in Seq(Otp) /\ Len(otp') <= Len(otp)
    /\ \A i \in DOMAIN otp' : i + k \in DOMAIN otp /\ otp'[i] = otp[i + k]

\* delete_one takes the oldest code, delete_many all of them.
LEMMA RestOf ==
    ASSUME CodesTypeOK
    PROVE  /\ otp' = otp => Rest(0)
           /\ otp' = <<>> => Rest(0)
           /\ otp # <<>> /\ otp' = Tail(otp) => Rest(1)
           /\ otp' = DropFirst(otp) => Rest(0) \/ Rest(1)
<1>1. otp \in Seq(Otp)
  BY DEF CodesTypeOK, Otp
<1>2. ASSUME otp' = otp PROVE Rest(0)
  <2>1. DOMAIN otp = 1..Len(otp) /\ Len(otp) \in Nat
    BY <1>1
  <2>2. otp' \in Seq(Otp) /\ Len(otp') <= Len(otp)
    BY <1>1, <1>2, <2>1
  <2>3. ASSUME NEW i \in DOMAIN otp' PROVE i + 0 \in DOMAIN otp /\ otp'[i] = otp[i + 0]
    <3>1. i \in 1..Len(otp) /\ i + 0 = i
      BY <1>2, <2>1
    <3> QED BY <3>1, <2>1, <1>2
  <2> QED BY <2>2, <2>3 DEF Rest
<1>3. ASSUME otp' = <<>> PROVE Rest(0)
  <2>1. <<>> \in Seq(Otp) /\ Len(<<>>) = 0 /\ DOMAIN <<>> = {}
    OBVIOUS
  <2>2. Len(otp) \in Nat
    BY <1>1
  <2> QED BY <1>3, <2>1, <2>2 DEF Rest
<1>4. ASSUME otp # <<>>, otp' = Tail(otp) PROVE Rest(1)
  <2>1. /\ Tail(otp) \in Seq(Otp) /\ Len(Tail(otp)) = Len(otp) - 1 /\ Len(otp) \in Nat
        /\ \A i \in 1..Len(Tail(otp)) : Tail(otp)[i] = otp[i + 1]
        /\ DOMAIN Tail(otp) = 1..Len(Tail(otp)) /\ DOMAIN otp = 1..Len(otp)
    BY <1>1, <1>4
  <2> QED BY <1>4, <2>1 DEF Rest
<1> QED BY <1>2, <1>3, <1>4 DEF DropFirst

\* A step that at most removes the oldest codes and sends no request to the calls that count or
\* spend one keeps what is known of the stored codes.
LEMMA QuietCodes ==
    ASSUME CodesIInv, Rest(0) \/ Rest(1), UNCHANGED <<codes, spent>>,
           \A c \in Callers : caller'[c].step \in {"miss", "hit"} => caller'[c] = caller[c]
    PROVE  AttemptsCovered' /\ CodesOrdered' /\ SpentOlder'
<1>1. PICK k \in Nat : Rest(k)
  OBVIOUS
<1>2. /\ otp \in Seq(Otp) /\ Len(otp) \in Nat /\ DOMAIN otp \subseteq Nat
      /\ otp' \in Seq(Otp) /\ Len(otp') \in Nat /\ DOMAIN otp' \subseteq Nat /\ codes \in Nat
  <2>1. otp \in Seq(Otp) /\ otp' \in Seq(Otp) /\ codes \in Nat
    BY <1>1, CodeBounds DEF CodesIInv, CodesTypeOK, Otp, Rest
  <2> QED BY <2>1
<1>3. \A i \in DOMAIN otp' : /\ i + k \in DOMAIN otp /\ otp'[i] = otp[i + k]
                             /\ otp[i + k] \in Otp /\ otp'[i] \in Otp
  BY <1>1, <1>2 DEF Rest
<1>4. AttemptsCovered'
  <2>1. Missing' \subseteq Missing
    BY DEF Missing
  <2>2. Cardinality(Missing') \in Nat /\ Cardinality(Missing) \in Nat
        /\ Cardinality(Missing') <= Cardinality(Missing)
    <3>1. IsFiniteSet(Missing)
      BY CodeBounds, PartCounts DEF Missing
    <3> QED BY <2>1, <3>1, PartCounts
  <2> SUFFICES ASSUME NEW i \in DOMAIN otp'
               PROVE  /\ otp'[i].attempts + Cardinality(Missing') <= MaxAttempts - 1 + Cardinality(Callers)
                      /\ i > 1 => otp'[i].attempts = 0
    BY DEF AttemptsCovered
  <2>3. PICK a \in Nat : a = otp[i + k].attempts
    BY <1>3 DEF Otp
  <2>4. /\ a + Cardinality(Missing) <= MaxAttempts - 1 + Cardinality(Callers)
        /\ i + k > 1 => a = 0
    BY <1>3, <2>3 DEF CodesIInv, AttemptsCovered
  <2>5. a + Cardinality(Missing') <= MaxAttempts - 1 + Cardinality(Callers)
    BY <2>2, <2>4, CodeBounds
  <2>6. i > 1 => i + k > 1
    BY <1>2
  <2> QED BY <1>3, <2>3, <2>4, <2>5, <2>6
<1>5. CodesOrdered'
  <2>1. Len(otp') <= codes'
    BY <1>1, <1>2 DEF Rest, CodesIInv, CodesOrdered
  <2>2. \A i \in DOMAIN otp' : otp'[i].code <= codes'
    BY <1>3 DEF CodesIInv, CodesOrdered
  <2>3. ASSUME NEW i \in DOMAIN otp', NEW j \in DOMAIN otp', i < j
        PROVE  otp'[i].code < otp'[j].code
    <3>1. i + k < j + k
      BY <2>3, <1>2
    <3> QED BY <3>1, <1>3 DEF CodesIInv, CodesOrdered
  <2> QED BY <2>1, <2>2, <2>3 DEF CodesOrdered
<1>6. SpentOlder'
  BY <1>3 DEF CodesIInv, SpentOlder
<1> QED BY <1>4, <1>5, <1>6

\* Requests between an accepted code and the password it will change.
Payers == {c \in Callers : caller[c].step \in {"hit", "grant", "change"}}

\* Neither an expiry nor a death lets more be changed than was accepted.
LEMMA EarnedKeeps ==
    ASSUME CodesIInv, Payers' \subseteq Payers, resets' \in Nat, resets' <= resets,
           UNCHANGED <<accepted, changed>>
    PROVE  ChangeEarned'
<1>1. IsFiniteSet(Payers)
  BY CodeBounds, PartCounts DEF Payers
<1>2. Cardinality(Payers') \in Nat /\ Cardinality(Payers) \in Nat
      /\ Cardinality(Payers') <= Cardinality(Payers)
  BY <1>1, PartCounts
<1>3. changed \in Nat /\ resets \in Nat /\ accepted \in Nat
  BY CodeBounds DEF CodesIInv, CodesTypeOK
<1>4. changed + resets + Cardinality(Payers) <= accepted
  BY DEF CodesIInv, ChangeEarned, Payers
<1>5. PICK p \in Nat, r \in Nat : p = Cardinality(Payers') /\ r = resets'
  BY <1>2
<1>6. changed + r + p <= accepted
  BY <1>2, <1>3, <1>4, <1>5
<1> QED BY <1>5, <1>6 DEF ChangeEarned, Payers

\* The parts of a sum of three are bounded by what bounds the sum.
LEMMA ThreeBounds ==
    ASSUME NEW x \in Nat, NEW y \in Nat, NEW z \in Nat, NEW n \in Nat, x + y + z <= n
    PROVE  x \in 0..n /\ y \in 0..n
OBVIOUS

\* What follows for the next state: the counters stay within the bounds of the model, and the
\* stored codes have their type.
LEMMA NextBounds ==
    ASSUME ChangeEarned', changed' \in Nat, resets' \in Nat, accepted' \in 0..MaxAccepted
    PROVE  changed' \in 0..MaxAccepted /\ resets' \in 0..MaxAccepted
<1>1. Cardinality(Payers') \in Nat
  BY CodeBounds, PartCounts DEF Payers
<1>2. changed' + resets' + Cardinality(Payers') <= accepted'
  BY DEF ChangeEarned, Payers
<1>3. accepted' \in Nat /\ accepted' <= MaxAccepted
  BY CodeBounds
<1>4. changed' \in 0..accepted' /\ resets' \in 0..accepted'
  BY <1>1, <1>2, <1>3, ThreeBounds
<1> QED BY <1>3, <1>4, CodeBounds

LEMMA NextType ==
    ASSUME otp' \in Seq(Otp), CodesOrdered', codes' \in 0..MaxCodes, spent' \subseteq 1..MaxCodes,
           resets' \in 0..MaxAccepted, accepted' \in 0..MaxAccepted, changed' \in 0..MaxAccepted,
           caller' \in [Callers -> CallerState]
    PROVE  CodesTypeOK'
<1>1. Len(otp') <= MaxCodes
  <2>1. Len(otp') \in Nat /\ codes' \in Nat /\ codes' <= MaxCodes /\ Len(otp') <= codes'
    BY CodeBounds DEF CodesOrdered
  <2> QED BY <2>1, CodeBounds
<1> QED BY <1>1 DEF CodesTypeOK, Otp, CallerState

\* A step that only removes codes, moves a request past them or ends one.
LEMMA QuietStep ==
    ASSUME CodesIInv, Rest(0) \/ Rest(1), UNCHANGED <<codes, spent, accepted>>,
           caller' \in [Callers -> CallerState],
           \A c \in Callers : caller'[c].step \in {"miss", "hit"} => caller'[c] = caller[c],
           ChangeEarned', changed' \in Nat, resets' \in Nat
    PROVE  CodesIInv'
<1>1. AttemptsCovered' /\ CodesOrdered' /\ SpentOlder'
  BY QuietCodes
<1>2. /\ otp' \in Seq(Otp) /\ (codes \in 0..MaxCodes)' /\ (spent \subseteq 1..MaxCodes)'
      /\ (accepted \in 0..MaxAccepted)'
  BY DEF Rest, CodesIInv, CodesTypeOK
<1>3. (changed \in 0..MaxAccepted /\ resets \in 0..MaxAccepted)'
  BY <1>2, NextBounds
<1>4. CodesTypeOK'
  BY <1>1, <1>2, <1>3, NextType
<1> QED BY <1>1, <1>4 DEF CodesIInv

\* create_otp appends a code younger than every other.
LEMMA InsertOtpKeeps ==
    ASSUME CodesIInv, NEW c \in Callers, InsertOtp(c)
    PROVE  CodesIInv'
<1> DEFINE o == [code |-> codes + 1, attempts |-> 0]
<1>1. /\ codes < MaxCodes /\ codes' = codes + 1 /\ otp' = Append(otp, o) /\ Go(c, "send")
      /\ caller[c].step = "create" /\ UNCHANGED <<spent, resets, accepted, changed>>
  BY DEF InsertOtp, Waits, tallies
<1>t. CodesTypeOK
  BY DEF CodesIInv
<1>2. otp \in Seq(Otp) /\ Len(otp) \in Nat /\ codes \in Nat /\ codes + 1 \in 0..MaxCodes
  <2>1. otp \in Seq(Otp)
    BY <1>t DEF CodesTypeOK, Otp
  <2> QED BY <2>1, <1>1, <1>t, CodeBounds DEF CodesTypeOK
<1>3. o \in Otp /\ o.code = codes + 1 /\ o.attempts = 0
  BY <1>2 DEF Otp
<1> HIDE DEF o
<1>4. /\ otp' \in Seq(Otp) /\ Len(otp') = Len(otp) + 1 /\ DOMAIN otp' = 1..(Len(otp) + 1)
      /\ DOMAIN otp = 1..Len(otp)
      /\ \A i \in 1..Len(otp) : otp'[i] = otp[i] /\ otp[i] \in Otp
      /\ otp'[Len(otp) + 1] = o
  BY <1>1, <1>2, <1>3
<1>5. /\ caller' \in [Callers -> CallerState]
      /\ caller'[c].step = "send"
      /\ \A e \in Callers : e # c => caller'[e] = caller[e]
  BY <1>1, <1>t, CallerGoes
<1>6. AttemptsCovered'
  <2>1. Missing' = Missing
    BY <1>1, <1>5 DEF Missing
  <2>2. Cardinality(Missing) \in Nat /\ Cardinality(Missing) <= Cardinality(Callers)
    BY CodeBounds, PartCounts DEF Missing
  <2>3. 0 + Cardinality(Missing) <= MaxAttempts - 1 + Cardinality(Callers)
    BY <2>2, CodeBounds
  <2> SUFFICES ASSUME NEW i \in DOMAIN otp'
               PROVE  /\ otp'[i].attempts + Cardinality(Missing) <= MaxAttempts - 1 + Cardinality(Callers)
                      /\ i > 1 => otp'[i].attempts = 0
    BY <2>1 DEF AttemptsCovered
  <2>4. CASE i = Len(otp) + 1
    BY <2>3, <2>4, <1>3, <1>4
  <2>5. CASE i # Len(otp) + 1
    <3>1. i \in DOMAIN otp /\ otp'[i] = otp[i]
      BY <2>5, <1>2, <1>4
    <3> QED BY <3>1 DEF CodesIInv, AttemptsCovered
  <2> QED BY <2>4, <2>5
<1>7. CodesOrdered'
  <2>0. /\ Len(otp) <= codes
        /\ \A i \in 1..Len(otp) : otp[i].code <= codes /\ otp[i].code \in Nat
        /\ \A i, j \in 1..Len(otp) : i < j => otp[i].code < otp[j].code
    <3>1. \A i \in 1..Len(otp) : otp[i].code \in Nat
      BY <1>4, CodeBounds DEF Otp
    <3> QED BY <3>1, <1>4 DEF CodesIInv, CodesOrdered
  <2>1. Len(otp') <= codes'
    BY <2>0, <1>1, <1>2, <1>4
  <2>2. ASSUME NEW i \in DOMAIN otp' PROVE otp'[i].code <= codes'
    <3>1. CASE i = Len(otp) + 1
      BY <3>1, <1>1, <1>2, <1>3, <1>4
    <3>2. CASE i # Len(otp) + 1
      <4>1. i \in 1..Len(otp) /\ otp'[i] = otp[i]
        BY <3>2, <1>2, <1>4
      <4> QED BY <4>1, <2>0, <1>1, <1>2
    <3> QED BY <3>1, <3>2
  <2>3. ASSUME NEW i \in DOMAIN otp', NEW j \in DOMAIN otp', i < j
        PROVE  otp'[i].code < otp'[j].code
    <3>1. i \in 1..Len(otp) /\ otp'[i] = otp[i]
      BY <2>3, <1>2, <1>4
    <3>2. CASE j = Len(otp) + 1
      <4>1. otp'[j].code = codes + 1
        BY <3>2, <1>3, <1>4
      <4> QED BY <4>1, <3>1, <2>0, <1>2
    <3>3. CASE j # Len(otp) + 1
      <4>1. j \in 1..Len(otp) /\ otp'[j] = otp[j]
        BY <3>3, <1>2, <1>4
      <4> QED BY <4>1, <3>1, <2>0, <2>3
    <3> QED BY <3>2, <3>3
  <2> QED BY <2>1, <2>2, <2>3 DEF CodesOrdered
<1>8. SpentOlder'
  <2>1. ASSUME NEW s \in Nat, s <= codes, \A i \in DOMAIN otp : s < otp[i].code,
               NEW i \in DOMAIN otp'
        PROVE  s < otp'[i].code
    <3>1. CASE i = Len(otp) + 1
      <4>1. otp'[i].code = codes + 1
        BY <3>1, <1>3, <1>4
      <4> QED BY <4>1, <2>1, <1>2
    <3>2. CASE i # Len(otp) + 1
      BY <3>2, <2>1, <1>2, <1>4
    <3> QED BY <3>1, <3>2
  <2>2. ASSUME NEW s \in Nat, s <= codes, \A i \in DOMAIN otp : s <= otp[i].code,
               NEW i \in DOMAIN otp'
        PROVE  s <= otp'[i].code
    <3>1. CASE i = Len(otp) + 1
      <4>1. otp'[i].code = codes + 1
        BY <3>1, <1>3, <1>4
      <4> QED BY <4>1, <2>2, <1>2
    <3>2. CASE i # Len(otp) + 1
      BY <3>2, <2>2, <1>2, <1>4
    <3> QED BY <3>1, <3>2
  <2>3. ASSUME NEW s \in spent' PROVE s <= codes' /\ \A i \in DOMAIN otp' : s < otp'[i].code
    <3>1. s \in spent /\ s \in Nat /\ s <= codes /\ \A i \in DOMAIN otp : s < otp[i].code
      BY <2>3, <1>1, <1>t DEF CodesIInv, SpentOlder, CodesTypeOK
    <3>2. s <= codes'
      BY <3>1, <1>1, <1>2
    <3> QED BY <3>1, <3>2, <2>1
  <2>4. ASSUME NEW e \in Callers, caller'[e].step = "hit"
        PROVE  caller'[e].code \in 1..codes' /\ \A i \in DOMAIN otp' : caller'[e].code <= otp'[i].code
    <3>1. /\ caller'[e] = caller[e] /\ caller[e].code \in 1..codes
          /\ \A i \in DOMAIN otp : caller[e].code <= otp[i].code
      BY <2>4, <1>5 DEF CodesIInv, SpentOlder
    <3>2. caller[e].code \in Nat /\ caller[e].code <= codes /\ caller[e].code \in 1..codes'
      BY <3>1, <1>1, <1>2
    <3> QED BY <3>1, <3>2, <2>2
  <2> QED BY <2>3, <2>4 DEF SpentOlder
<1>9. ChangeEarned'
  <2>1. Payers' \subseteq Payers
    BY <1>5 DEF Payers
  <2>2. resets \in Nat /\ resets' = resets
    BY <1>1, <1>t, CodeBounds DEF CodesTypeOK
  <2> QED BY <2>1, <2>2, <1>1, EarnedKeeps
<1>10. CodesTypeOK'
  <2>1. /\ (spent \subseteq 1..MaxCodes)' /\ (resets \in 0..MaxAccepted)'
        /\ (accepted \in 0..MaxAccepted)' /\ (changed \in 0..MaxAccepted)'
    BY <1>1, <1>t DEF CodesTypeOK
  <2>2. (codes \in 0..MaxCodes)'
    BY <1>1, <1>2
  <2> QED BY <2>1, <2>2, <1>4, <1>5, <1>7, NextType
<1> QED BY <1>6, <1>7, <1>8, <1>9, <1>10 DEF CodesIInv

\* verify_otp decides on the oldest code: one more wrong try is in flight only below the limit,
\* and what is about to be spent is not younger than any stored code.
LEMMA ReadOtpKeeps ==
    ASSUME CodesIInv, NEW c \in Callers, ReadOtp(c)
    PROVE  CodesIInv'
<1>t. CodesTypeOK
  BY DEF CodesIInv
<1>1. PICK code \in 0..codes :
        LET next == IF TooMany(FoundOtp) THEN "drop"
                    ELSE IF FoundOtp.code # code THEN "miss" ELSE "hit"
        IN /\ caller' = [caller EXCEPT ![c].step = next, ![c].code = code]
           /\ accepted' = IF next = "hit" THEN accepted + 1 ELSE accepted
  BY DEF ReadOtp
<1>2. /\ caller[c].step = "idle" /\ otp # <<>> /\ accepted < MaxAccepted
      /\ UNCHANGED <<otp, codes, spent, resets, changed>>
  BY DEF ReadOtp, Waits
<1>3. PICK next : next = IF TooMany(FoundOtp) THEN "drop"
                         ELSE IF FoundOtp.code # code THEN "miss" ELSE "hit"
  OBVIOUS
<1>4. /\ caller' = [caller EXCEPT ![c].step = next, ![c].code = code]
      /\ accepted' = IF next = "hit" THEN accepted + 1 ELSE accepted
      /\ next \in {"drop", "miss", "hit"}
  BY <1>1, <1>3
<1>5. /\ otp \in Seq(Otp) /\ Len(otp) \in Nat /\ Len(otp) >= 1 /\ FoundOtp = otp[1]
      /\ DOMAIN otp = 1..Len(otp) /\ \A i \in DOMAIN otp : otp[i] \in Otp
  <2>1. otp \in Seq(Otp)
    BY <1>t DEF CodesTypeOK, Otp
  <2> QED BY <2>1, <1>2 DEF FoundOtp
<1>6. /\ codes \in Nat /\ codes <= MaxCodes /\ code \in 0..MaxCodes /\ code \in Nat
      /\ accepted \in Nat /\ changed \in Nat /\ resets \in Nat
  BY <1>t, CodeBounds DEF CodesTypeOK
<1>7. /\ caller' \in [Callers -> CallerState]
      /\ caller'[c].step = next /\ caller'[c].code = code
      /\ \A e \in Callers : e # c => caller'[e] = caller[e]
  BY <1>4, <1>6, <1>t DEF CodesTypeOK, CallerState
<1>8. CodesOrdered'
  BY <1>2 DEF CodesIInv, CodesOrdered
<1>9. AttemptsCovered'
  <2>1. Cardinality(Missing') \in Nat /\ Cardinality(Missing') <= Cardinality(Callers)
    BY CodeBounds, PartCounts DEF Missing
  <2>2. CASE next = "miss"
    <3>1. otp[1].attempts \in Nat /\ ~(otp[1].attempts >= MaxAttempts)
      BY <2>2, <1>3, <1>5 DEF TooMany, Otp
    <3>2. otp[1].attempts + Cardinality(Missing') <= MaxAttempts - 1 + Cardinality(Callers)
      BY <3>1, <2>1, CodeBounds
    <3>3. 0 + Cardinality(Missing') <= MaxAttempts - 1 + Cardinality(Callers)
      BY <2>1, CodeBounds
    <3> SUFFICES ASSUME NEW i \in DOMAIN otp
                 PROVE  /\ otp[i].attempts + Cardinality(Missing') <= MaxAttempts - 1 + Cardinality(Callers)
                        /\ i > 1 => otp[i].attempts = 0
      BY <1>2 DEF AttemptsCovered
    <3>4. CASE i = 1
      BY <3>2, <3>4
    <3>5. CASE i # 1
      <4>1. i > 1
        BY <3>5, <1>5
      <4>2. otp[i].attempts = 0
        BY <4>1 DEF CodesIInv, AttemptsCovered
      <4> QED BY <4>2, <3>3
    <3> QED BY <3>4, <3>5
  <2>3. CASE next # "miss"
    <3>1. Missing' = Missing
      BY <2>3, <1>2, <1>7 DEF Missing
    <3> QED BY <3>1, <1>2 DEF CodesIInv, AttemptsCovered
  <2> QED BY <2>2, <2>3
<1>10. SpentOlder'
  <2>1. \A s \in spent : s <= codes /\ \A i \in DOMAIN otp : s < otp[i].code
    BY DEF CodesIInv, SpentOlder
  <2>2. ASSUME NEW e \in Callers, caller'[e].step = "hit"
        PROVE  caller'[e].code \in 1..codes /\ \A i \in DOMAIN otp : caller'[e].code <= otp[i].code
    <3>1. CASE e # c
      BY <3>1, <2>2, <1>7 DEF CodesIInv, SpentOlder
    <3>2. CASE e = c
      <4>1. next = "hit"
        BY <3>2, <2>2, <1>7
      <4>2. otp[1].code = code
        BY <4>1, <1>3, <1>5
      <4>3. otp[1].code >= 1 /\ otp[1].code <= codes
        <5>1. 1 \in DOMAIN otp /\ otp[1].code \in 1..MaxCodes
          BY <1>5 DEF Otp
        <5>2. otp[1].code <= codes
          BY <5>1 DEF CodesIInv, CodesOrdered
        <5> QED BY <5>1, <5>2, CodeBounds
      <4>4. ASSUME NEW i \in DOMAIN otp PROVE code <= otp[i].code
        <5>1. otp[i].code \in Nat
          BY <1>5, CodeBounds DEF Otp
        <5>2. i = 1 \/ 1 < i
          BY <1>5
        <5>3. i = 1 \/ otp[1].code < otp[i].code
          BY <5>2, <1>5 DEF CodesIInv, CodesOrdered
        <5> QED BY <5>1, <5>3, <4>2, <1>6
      <4> QED BY <4>2, <4>3, <4>4, <3>2, <1>6, <1>7
    <3> QED BY <3>1, <3>2
  <2> QED BY <2>1, <2>2, <1>2 DEF SpentOlder
<1>11. ChangeEarned'
  <2>0. changed + resets + Cardinality(Payers) <= accepted
    BY DEF CodesIInv, ChangeEarned, Payers
  <2>f. IsFiniteSet(Payers) /\ Cardinality(Payers) \in Nat
    BY CodeBounds, PartCounts DEF Payers
  <2>1. CASE next = "hit"
    <3>1. Payers' \subseteq Payers \cup {c}
      BY <1>7 DEF Payers
    <3>2. Cardinality(Payers') \in Nat /\ Cardinality(Payers') <= Cardinality(Payers) + 1
      BY <3>1, <2>f, JoinCounts
    <3>3. changed + resets + Cardinality(Payers') <= accepted + 1
      BY <3>2, <2>0, <2>f, <1>6
    <3>4. accepted' = accepted + 1
      BY <2>1, <1>4
    <3> QED BY <3>3, <3>4, <1>2 DEF ChangeEarned, Payers
  <2>2. CASE next # "hit"
    <3>1. Payers' \subseteq Payers
      BY <2>2, <1>4, <1>7 DEF Payers
    <3> QED BY <3>1, <2>2, <1>2, <1>4, <1>6, EarnedKeeps
  <2> QED BY <2>1, <2>2
<1>12. CodesTypeOK'
  <2>1. (otp \in Seq(Otp))' /\ (codes \in 0..MaxCodes)' /\ (spent \subseteq 1..MaxCodes)'
    BY <1>2, <1>5, <1>t DEF CodesTypeOK
  <2>2. (resets \in 0..MaxAccepted)' /\ (changed \in 0..MaxAccepted)'
    BY <1>2, <1>t DEF CodesTypeOK
  <2>3. (accepted \in 0..MaxAccepted)'
    BY <1>2, <1>4, <1>6, CodeBounds
  <2> QED BY <2>1, <2>2, <2>3, <1>7, <1>8, NextType
<1> QED BY <1>8, <1>9, <1>10, <1>11, <1>12 DEF CodesIInv

\* A wrong code is counted against the oldest code of that moment.
LEMMA CountMissKeeps ==
    ASSUME CodesIInv, NEW c \in Callers, CountMiss(c)
    PROVE  CodesIInv'
<1>t. CodesTypeOK
  BY DEF CodesIInv
<1>1. /\ caller[c].step = "miss" /\ Done(c) /\ UNCHANGED <<codes, spent, resets, accepted, changed>>
      /\ otp' = IF otp = <<>> THEN otp ELSE [otp EXCEPT ![1].attempts = @ + 1]
  BY DEF CountMiss, Waits, tallies
<1>2. /\ caller' \in [Callers -> CallerState]
      /\ caller'[c].step = "idle"
      /\ \A e \in Callers : e # c => caller'[e] = caller[e]
  BY <1>1, <1>t, CallerDone
<1>3. /\ otp \in Seq(Otp) /\ Len(otp) \in Nat /\ DOMAIN otp = 1..Len(otp)
      /\ \A i \in DOMAIN otp : otp[i] \in Otp
  <2>1. otp \in Seq(Otp)
    BY <1>t DEF CodesTypeOK, Otp
  <2> QED BY <2>1
<1>4. changed \in Nat /\ resets \in Nat /\ resets' = resets /\ changed' = changed
  BY <1>1, <1>t, CodeBounds DEF CodesTypeOK
<1>5. ChangeEarned'
  <2>1. Payers' \subseteq Payers
    BY <1>2 DEF Payers
  <2> QED BY <2>1, <1>1, <1>4, EarnedKeeps
<1>6. CASE otp = <<>>
  <2>1. Rest(0)
    BY <1>1, <1>6, <1>t, RestOf
  <2> QED BY <2>1, <1>1, <1>2, <1>4, <1>5, QuietStep
<1>7. CASE otp # <<>>
  <2>1. /\ 1 \in DOMAIN otp /\ otp[1] \in Otp /\ otp[1].attempts \in Nat
    BY <1>3, <1>7 DEF Otp
  <2>2. /\ otp' \in Seq(Otp) /\ Len(otp') = Len(otp) /\ DOMAIN otp' = DOMAIN otp
        /\ otp'[1].attempts = otp[1].attempts + 1
        /\ \A i \in DOMAIN otp : otp'[i].code = otp[i].code
        /\ \A i \in DOMAIN otp : i # 1 => otp'[i] = otp[i]
    <3>1. PICK o : o = [otp[1] EXCEPT !.attempts = otp[1].attempts + 1]
      OBVIOUS
    <3>2. o \in Otp /\ o.attempts = otp[1].attempts + 1 /\ o.code = otp[1].code
      BY <2>1, <3>1 DEF Otp
    <3>3. otp' = [otp EXCEPT ![1] = o]
      BY <1>1, <1>7, <3>1
    <3>4. /\ otp' \in Seq(Otp) /\ Len(otp') = Len(otp) /\ DOMAIN otp' = DOMAIN otp
          /\ otp'[1] = o /\ \A i \in DOMAIN otp : i # 1 => otp'[i] = otp[i]
      BY <3>2, <3>3, <2>1, <1>3
    <3> QED BY <3>2, <3>4
  <2>3. CodesOrdered'
    BY <2>2, <1>1 DEF CodesIInv, CodesOrdered
  <2>4. SpentOlder'
    BY <2>2, <1>1, <1>2 DEF CodesIInv, SpentOlder
  <2>5. AttemptsCovered'
    <3>1. IsFiniteSet(Missing) /\ Cardinality(Missing) \in Nat
      BY CodeBounds, PartCounts DEF Missing
    <3>2. c \in Missing /\ Missing' \subseteq Missing \ {c}
      BY <1>1, <1>2 DEF Missing
    <3>3. Cardinality(Missing') + 1 <= Cardinality(Missing)
      BY <3>1, <3>2, LeaveCounts
    <3>4. Cardinality(Missing') \in Nat
      BY CodeBounds, PartCounts DEF Missing
    <3> SUFFICES ASSUME NEW i \in DOMAIN otp
                 PROVE  /\ otp'[i].attempts + Cardinality(Missing') <= MaxAttempts - 1 + Cardinality(Callers)
                        /\ i > 1 => otp'[i].attempts = 0
      BY <2>2 DEF AttemptsCovered
    <3>5. /\ otp[i].attempts + Cardinality(Missing) <= MaxAttempts - 1 + Cardinality(Callers)
          /\ i > 1 => otp[i].attempts = 0
          /\ otp[i].attempts \in Nat
      BY <1>3 DEF CodesIInv, AttemptsCovered, Otp
    <3>6. PICK a \in Nat, m \in Nat : a = otp[i].attempts /\ m = Cardinality(Missing')
      BY <3>4, <3>5
    <3>7. a + 1 + m <= MaxAttempts - 1 + Cardinality(Callers)
      BY <3>1, <3>3, <3>5, <3>6, CodeBounds
    <3>8. CASE i = 1
      <4>1. otp'[i].attempts = a + 1
        BY <3>8, <3>6, <2>2
      <4> QED BY <4>1, <3>6, <3>7, <3>8
    <3>9. CASE i # 1
      <4>1. otp'[i].attempts = a
        BY <3>9, <3>6, <2>2
      <4>2. a + m <= MaxAttempts - 1 + Cardinality(Callers)
        BY <3>7, CodeBounds
      <4> QED BY <4>1, <4>2, <3>5, <3>6
    <3> QED BY <3>8, <3>9
  <2>6. CodesTypeOK'
    BY <2>2, <2>3, <1>1, <1>2, <1>t, NextType DEF CodesTypeOK
  <2> QED BY <2>3, <2>4, <2>5, <2>6, <1>5 DEF CodesIInv
<1> QED BY <1>6, <1>7

\* A right code is spent with the oldest code of that moment: it is that one, or older.
LEMMA SpendOtpKeeps ==
    ASSUME CodesIInv, NEW c \in Callers, SpendOtp(c)
    PROVE  CodesIInv'
<1>t. CodesTypeOK
  BY DEF CodesIInv
<1>1. /\ caller[c].step = "hit" /\ Go(c, "grant") /\ UNCHANGED <<codes, resets, accepted, changed>>
      /\ otp' = DropFirst(otp) /\ spent' = spent \cup {caller[c].code}
  BY DEF SpendOtp, Waits, tallies
<1>2. /\ caller' \in [Callers -> CallerState]
      /\ caller'[c].step = "grant"
      /\ \A e \in Callers : e # c => caller'[e] = caller[e]
  BY <1>1, <1>t, CallerGoes
<1>3. /\ otp \in Seq(Otp) /\ Len(otp) \in Nat /\ DOMAIN otp = 1..Len(otp)
      /\ \A i \in DOMAIN otp : otp[i] \in Otp
  <2>1. otp \in Seq(Otp)
    BY <1>t DEF CodesTypeOK, Otp
  <2> QED BY <2>1
<1>4. /\ caller[c].code \in 1..codes /\ caller[c].code \in 1..MaxCodes
      /\ \A i \in DOMAIN otp : caller[c].code <= otp[i].code
  BY <1>1, <1>t, CodeBounds DEF CodesIInv, SpentOlder, CodesTypeOK
<1>5. /\ otp' \in Seq(Otp) /\ Len(otp') \in Nat /\ Len(otp') <= Len(otp)
      /\ \A i \in DOMAIN otp' : /\ i \in Nat /\ i >= 1 /\ i + 1 \in DOMAIN otp /\ otp'[i] = otp[i + 1]
                                /\ otp[i + 1] \in Otp
  <2>1. CASE otp = <<>>
    BY <1>1, <2>1 DEF DropFirst
  <2>2. CASE otp # <<>>
    <3>1. Rest(1)
      BY <1>1, <1>t, <2>2, RestOf DEF DropFirst
    <3>2. DOMAIN otp' = 1..Len(otp') /\ Len(otp') \in Nat
      BY <3>1 DEF Rest
    <3> QED BY <3>1, <3>2, <1>3 DEF Rest
  <2> QED BY <2>1, <2>2
<1>6. AttemptsCovered'
  <2>1. Missing' = Missing
    BY <1>1, <1>2 DEF Missing
  <2>2. ASSUME NEW i \in DOMAIN otp'
        PROVE  /\ otp'[i].attempts + Cardinality(Missing) <= MaxAttempts - 1 + Cardinality(Callers)
               /\ i > 1 => otp'[i].attempts = 0
    <3>1. i + 1 \in DOMAIN otp /\ otp'[i] = otp[i + 1] /\ i + 1 > 1
      BY <1>5
    <3> QED BY <3>1 DEF CodesIInv, AttemptsCovered
  <2> QED BY <2>1, <2>2 DEF AttemptsCovered
<1>7. CodesOrdered'
  <2>1. Len(otp') <= codes
    BY <1>3, <1>5, <1>t, CodeBounds DEF CodesIInv, CodesOrdered, CodesTypeOK
  <2>2. \A i \in DOMAIN otp' : otp'[i].code <= codes
    BY <1>5 DEF CodesIInv, CodesOrdered
  <2>3. ASSUME NEW i \in DOMAIN otp', NEW j \in DOMAIN otp', i < j
        PROVE  otp'[i].code < otp'[j].code
    <3>1. i + 1 < j + 1
      BY <2>3, <1>5
    <3> QED BY <3>1, <1>5 DEF CodesIInv, CodesOrdered
  <2> QED BY <2>1, <2>2, <2>3, <1>1 DEF CodesOrdered
<1>8. SpentOlder'
  <2>1. ASSUME NEW s \in spent \cup {caller[c].code}
        PROVE  s <= codes /\ \A i \in DOMAIN otp' : s < otp'[i].code
    <3>1. CASE s \in spent
      BY <3>1, <1>5 DEF CodesIInv, SpentOlder
    <3>2. CASE s = caller[c].code
      <4>1. s \in Nat /\ s <= codes
        BY <3>2, <1>4, <1>t, CodeBounds DEF CodesTypeOK
      <4>2. ASSUME NEW i \in DOMAIN otp' PROVE s < otp'[i].code
        <5>1. 1 \in DOMAIN otp /\ 1 < i + 1 /\ i + 1 \in DOMAIN otp
          BY <1>3, <1>5
        <5>2. otp[1].code < otp[i + 1].code
          BY <5>1 DEF CodesIInv, CodesOrdered
        <5>3. s <= otp[1].code
          BY <5>1, <3>2, <1>4
        <5>4. otp[1] \in Otp /\ otp[i + 1] \in Otp
          BY <5>1, <1>3
        <5>5. otp[1].code \in Nat /\ otp[i + 1].code \in Nat
          BY <5>4, CodeBounds DEF Otp
        <5> QED BY <5>2, <5>3, <5>5, <4>1, <1>5
      <4> QED BY <4>1, <4>2
    <3> QED BY <3>1, <3>2
  <2>2. ASSUME NEW e \in Callers, caller'[e].step = "hit"
        PROVE  caller'[e].code \in 1..codes /\ \A i \in DOMAIN otp' : caller'[e].code <= otp'[i].code
    BY <2>2, <1>2, <1>5 DEF CodesIInv, SpentOlder
  <2> QED BY <2>1, <2>2, <1>1 DEF SpentOlder
<1>9. ChangeEarned'
  <2>1. Payers' \subseteq Payers
    BY <1>1, <1>2 DEF Payers
  <2>2. resets \in Nat /\ resets' = resets
    BY <1>1, <1>t, CodeBounds DEF CodesTypeOK
  <2> QED BY <2>1, <2>2, <1>1, EarnedKeeps
<1>10. CodesTypeOK'
  <2>1. /\ (codes \in 0..MaxCodes)' /\ (resets \in 0..MaxAccepted)'
        /\ (accepted \in 0..MaxAccepted)' /\ (changed \in 0..MaxAccepted)'
    BY <1>1, <1>t DEF CodesTypeOK
  <2>2. (spent \subseteq 1..MaxCodes)'
    BY <1>1, <1>4, <1>t DEF CodesTypeOK
  <2> QED BY <2>1, <2>2, <1>2, <1>5, <1>7, NextType
<1> QED BY <1>6, <1>7, <1>8, <1>9, <1>10 DEF CodesIInv

\* Every step of the code and reset service keeps the invariant.
LEMMA CodesKeep == CodesIInv /\ [CodesNext]_codeVars => CodesIInv'
<1> SUFFICES ASSUME CodesIInv, [CodesNext]_codeVars PROVE CodesIInv'
  OBVIOUS
<1>t. CodesTypeOK
  BY DEF CodesIInv
<1>n. changed \in Nat /\ resets \in Nat /\ accepted \in Nat
  BY <1>t, CodeBounds DEF CodesTypeOK
<1>e. changed + resets + Cardinality(Payers) <= accepted
  BY DEF CodesIInv, ChangeEarned, Payers
<1>f. IsFiniteSet(Payers) /\ Cardinality(Payers) \in Nat /\ Cardinality(Payers') \in Nat
  BY CodeBounds, PartCounts DEF Payers
<1>1. ASSUME NEW c \in Callers, DeleteOtps(c) PROVE CodesIInv'
  <2>1. /\ otp' = <<>> /\ UNCHANGED <<codes, spent, resets, accepted, changed>>
        /\ Go(c, "create") \/ Done(c)
    BY <1>1 DEF DeleteOtps, tallies
  <2>2. /\ caller' \in [Callers -> CallerState] /\ caller'[c].step \in {"create", "idle"}
        /\ \A e \in Callers : e # c => caller'[e] = caller[e]
    BY <2>1, <1>t, CallerGoes, CallerDone
  <2>3. Payers' \subseteq Payers
    BY <2>2 DEF Payers
  <2>4. ChangeEarned'
    BY <2>1, <2>3, <1>n, EarnedKeeps
  <2>5. \A e \in Callers : caller'[e].step \in {"miss", "hit"} => caller'[e] = caller[e]
    BY <2>2
  <2> QED BY <2>1, <2>2, <2>4, <2>5, <1>n, <1>t, RestOf, QuietStep
<1>2. ASSUME NEW c \in Callers, Deliver(c) \/ CallerDies(c) PROVE CodesIInv'
  <2>1. /\ UNCHANGED <<otp, codes, spent, resets, accepted, changed>>
        /\ Go(c, "undo") \/ Done(c)
    BY <1>2 DEF Deliver, CallerDies, tallies
  <2>2. /\ caller' \in [Callers -> CallerState] /\ caller'[c].step \in {"undo", "idle"}
        /\ \A e \in Callers : e # c => caller'[e] = caller[e]
    BY <2>1, <1>t, CallerGoes, CallerDone
  <2>3. Payers' \subseteq Payers
    BY <2>2 DEF Payers
  <2>4. ChangeEarned'
    BY <2>1, <2>3, <1>n, EarnedKeeps
  <2>5. \A e \in Callers : caller'[e].step \in {"miss", "hit"} => caller'[e] = caller[e]
    BY <2>2
  <2> QED BY <2>1, <2>2, <2>4, <2>5, <1>n, <1>t, RestOf, QuietStep
<1>3. ASSUME NEW c \in Callers, DropOtp(c) PROVE CodesIInv'
  <2>1. otp' = DropFirst(otp) /\ UNCHANGED <<codes, spent, resets, accepted, changed>> /\ Done(c)
    BY <1>3 DEF DropOtp, tallies
  <2>2. /\ caller' \in [Callers -> CallerState] /\ caller'[c].step = "idle"
        /\ \A e \in Callers : e # c => caller'[e] = caller[e]
    BY <2>1, <1>t, CallerDone
  <2>3. Payers' \subseteq Payers
    BY <2>2 DEF Payers
  <2>4. ChangeEarned'
    BY <2>1, <2>3, <1>n, EarnedKeeps
  <2>5. \A e \in Callers : caller'[e].step \in {"miss", "hit"} => caller'[e] = caller[e]
    BY <2>2
  <2> QED BY <2>1, <2>2, <2>4, <2>5, <1>n, <1>t, RestOf, QuietStep
<1>4. ASSUME NEW c \in Callers, GrantReset(c) PROVE CodesIInv'
  <2>1. /\ caller[c].step = "grant" /\ resets' = resets + 1 /\ Done(c)
        /\ UNCHANGED <<otp, codes, spent, accepted, changed>>
    BY <1>4 DEF GrantReset, Waits, tallies
  <2>2. /\ caller' \in [Callers -> CallerState] /\ caller'[c].step = "idle"
        /\ \A e \in Callers : e # c => caller'[e] = caller[e]
    BY <2>1, <1>t, CallerDone
  <2>3. c \in Payers /\ Payers' \subseteq Payers \ {c}
    BY <2>1, <2>2 DEF Payers
  <2>4. Cardinality(Payers') + 1 <= Cardinality(Payers)
    BY <2>3, <1>f, LeaveCounts
  <2>5. changed + (resets + 1) + Cardinality(Payers') <= accepted
    BY <2>4, <1>e, <1>f, <1>n
  <2>6. ChangeEarned' /\ resets' \in Nat
    BY <2>1, <2>5, <1>n DEF ChangeEarned, Payers
  <2>7. \A e \in Callers : caller'[e].step \in {"miss", "hit"} => caller'[e] = caller[e]
    BY <2>2
  <2> QED BY <2>1, <2>2, <2>6, <2>7, <1>n, <1>t, RestOf, QuietStep
<1>5. ASSUME NEW c \in Callers, ConfirmReset(c) PROVE CodesIInv'
  <2>1. /\ resets > 0 /\ resets' = resets - 1 /\ Go(c, "change")
        /\ UNCHANGED <<otp, codes, spent, accepted, changed>>
    BY <1>5 DEF ConfirmReset, ConsumeReset, tallies
  <2>2. /\ caller' \in [Callers -> CallerState] /\ caller'[c].step = "change"
        /\ \A e \in Callers : e # c => caller'[e] = caller[e]
    BY <2>1, <1>t, CallerGoes
  <2>3. Payers' \subseteq Payers \cup {c}
    BY <2>2 DEF Payers
  <2>4. Cardinality(Payers') <= Cardinality(Payers) + 1
    BY <2>3, <1>f, JoinCounts
  <2>5. changed + (resets - 1) + Cardinality(Payers') <= accepted
    BY <2>1, <2>4, <1>e, <1>f, <1>n
  <2>6. ChangeEarned' /\ resets' \in Nat
    BY <2>1, <2>5, <1>n DEF ChangeEarned, Payers
  <2>7. \A e \in Callers : caller'[e].step \in {"miss", "hit"} => caller'[e] = caller[e]
    BY <2>2
  <2> QED BY <2>1, <2>2, <2>6, <2>7, <1>n, <1>t, RestOf, QuietStep
<1>6. ASSUME NEW c \in Callers, ChangePassword(c) PROVE CodesIInv'
  <2>1. /\ caller[c].step = "change" /\ changed' = changed + 1 /\ Done(c)
        /\ UNCHANGED <<otp, codes, spent, resets, accepted>>
    BY <1>6 DEF ChangePassword, Waits
  <2>2. /\ caller' \in [Callers -> CallerState] /\ caller'[c].step = "idle"
        /\ \A e \in Callers : e # c => caller'[e] = caller[e]
    BY <2>1, <1>t, CallerDone
  <2>3. c \in Payers /\ Payers' \subseteq Payers \ {c}
    BY <2>1, <2>2 DEF Payers
  <2>4. Cardinality(Payers') + 1 <= Cardinality(Payers)
    BY <2>3, <1>f, LeaveCounts
  <2>5. (changed + 1) + resets + Cardinality(Payers') <= accepted
    BY <2>4, <1>e, <1>f, <1>n
  <2>6. ChangeEarned' /\ changed' \in Nat
    BY <2>1, <2>5, <1>n DEF ChangeEarned, Payers
  <2>7. \A e \in Callers : caller'[e].step \in {"miss", "hit"} => caller'[e] = caller[e]
    BY <2>2
  <2> QED BY <2>1, <2>2, <2>6, <2>7, <1>n, <1>t, RestOf, QuietStep
<1>7. CASE OtpExpires \/ ResetExpires \/ UNCHANGED codeVars
  <2>1. UNCHANGED <<codes, spent, caller, accepted, changed>>
    BY <1>7 DEF OtpExpires, ResetExpires, codeVars, tallies
  <2>2. Rest(0) \/ Rest(1)
    BY <1>7, <1>t, RestOf DEF OtpExpires, ResetExpires, codeVars
  <2>3. resets' \in Nat /\ resets' <= resets
    BY <1>7, <1>n DEF OtpExpires, ResetExpires, codeVars
  <2>4. Payers' \subseteq Payers
    BY <2>1 DEF Payers
  <2>5. ChangeEarned'
    BY <2>1, <2>3, <2>4, EarnedKeeps
  <2>6. caller' \in [Callers -> CallerState]
    BY <2>1, <1>t DEF CodesTypeOK, CallerState
  <2> QED BY <2>1, <2>2, <2>3, <2>5, <2>6, <1>n, QuietStep
<1> QED BY <1>1, <1>2, <1>3, <1>4, <1>5, <1>6, <1>7,
           InsertOtpKeeps, ReadOtpKeeps, CountMissKeeps, SpendOtpKeeps DEF CodesNext

\* The reset codes of a user (OTPService and the reset endpoints): for any number of overlapping
\* requests the wrong tries against a code stay bounded, a spent code is gone for good, and every
\* password change was paid for by an accepted code of its own.
THEOREM ResetCodesSafe == CodesSpec => []CodesInv
<1>1. CodesInit => CodesIInv
  <2> SUFFICES ASSUME CodesInit PROVE CodesIInv
    OBVIOUS
  <2>1. /\ otp = <<>> /\ codes = 0 /\ spent = {} /\ resets = 0 /\ accepted = 0 /\ changed = 0
        /\ caller = [c \in Callers |-> Quiescent] /\ Quiescent.step = "idle" /\ Quiescent \in CallerState
    BY CodeBounds DEF CodesInit, Quiescent, CallerState
  <2>2. <<>> \in Seq(Otp) /\ Len(<<>>) = 0 /\ DOMAIN <<>> = {}
    OBVIOUS
  <2>3. CodesTypeOK
    BY <2>1, <2>2, CodeBounds DEF CodesTypeOK, CallerState, Otp
  <2>4. AttemptsCovered /\ CodesOrdered /\ SpentOlder
    BY <2>1, <2>2 DEF AttemptsCovered, CodesOrdered, SpentOlder
  <2>5. Payers = {}
    BY <2>1 DEF Payers
  <2>6. ChangeEarned
    <3>1. Cardinality(Payers) = 0
      BY <2>5, FS_EmptySet
    <3>2. changed + resets + Cardinality(Payers) <= accepted
      BY <2>1, <3>1
    <3> QED BY <3>2 DEF ChangeEarned, Payers
  <2> QED BY <2>3, <2>4, <2>6 DEF CodesIInv
<1>2. CodesIInv => CodesInv
  <2> SUFFICES ASSUME CodesIInv PROVE CodesInv
    OBVIOUS
  <2>0. \A i \in DOMAIN otp : otp[i] \in Otp
    <3>1. otp \in Seq(Otp)
      BY DEF CodesIInv, CodesTypeOK, Otp
    <3> QED BY <3>1
  <2>1. AttemptsBounded
    <3> SUFFICES ASSUME NEW i \in DOMAIN otp
                 PROVE  otp[i].attempts <= MaxAttempts - 1 + Cardinality(Callers)
      BY DEF AttemptsBounded
    <3>1. otp[i].attempts \in Nat
      BY <2>0 DEF Otp
    <3>2. Cardinality(Missing) \in Nat
      BY CodeBounds, PartCounts DEF Missing
    <3>3. otp[i].attempts + Cardinality(Missing) <= MaxAttempts - 1 + Cardinality(Callers)
      BY DEF CodesIInv, AttemptsCovered
    <3> QED BY <3>1, <3>2, <3>3, CodeBounds
  <2>2. CodeSpent
    <3> SUFFICES ASSUME NEW i \in DOMAIN otp, otp[i].code \in spent PROVE FALSE
      BY DEF CodeSpent
    <3>1. otp[i].code < otp[i].code
      BY DEF CodesIInv, SpentOlder
    <3>2. otp[i].code \in Nat
      BY <2>0, CodeBounds DEF Otp
    <3> QED BY <3>1, <3>2
  <2> QED BY <2>1, <2>2 DEF CodesInv, CodesIInv
<1>3. CodesSpec => []CodesIInv
  BY <1>1, CodesKeep, PTL DEF CodesSpec
<1> QED BY <1>2, <1>3, PTL

------------------------------------------------------------------------------
(* Refresh tokens                                                           *)

TokenRequest == [op : Ops,
                 step : {"idle", "check", "clear", "verify", "revoke", "insert",
                         "cleanup", "old", "all", "purge"},
                 given : SUBSET Tokens, minted : SUBSET Tokens, solo : BOOLEAN]

\* Requests that have revoked everything and will store a token.
Inserting == {r \in Logins : InStep(r, "insert")}

\* The live tokens and those about to be stored fit the requests in flight.
Room == Cardinality(Live) + Cardinality(Inserting) <= Cardinality(Logins)

\* Between the revocation and the insert the next token is on its way.
TokenComing == ~excused => Live # {} \/ \E r \in Logins : request[r].step \in {"revoke", "insert"}

\* A token that was presented was stored once; a refresh past its revocation finds it dead.
PresentedDead ==
    \A r \in Logins :
        /\ \A t \in request[r].given : token[t] # "unborn"
        /\ request[r].step \in {"insert", "cleanup"} => request[r].op \in {"login", "refresh"}
        /\ request[r].step \in {"check", "clear"} => request[r].op = "login"
        /\ request[r].step = "revoke" => request[r].op \in {"login", "refresh"}
        /\ request[r].step \in {"verify", "old"} => request[r].op \in {"refresh", "logout"}
        /\ request[r].step \in {"insert", "cleanup", "old"} /\ request[r].op # "logout" =>
              \A t \in request[r].given : token[t] # "active"

\* A request that nobody disturbed is alone, and what is live beside its token is dead.
SoloAlone ==
    \A r \in Logins : request[r].solo =>
        /\ \A q \in Logins \ {r} : InStep(q, "idle")
        /\ InStep(r, "insert") => Live = {}
        /\ InStep(r, "cleanup") => Live \subseteq request[r].minted

TokensIInv == TokensTypeOK /\ Room /\ TokenComing /\ PresentedDead /\ SoloAlone

\* Tokens and requests are finite, and so is everything counted here.
LEMMA TokenCounts ==
    /\ IsFiniteSet(Logins) /\ Cardinality(Logins) \in Nat
    /\ IsFiniteSet(Live) /\ Cardinality(Live) \in Nat
    /\ IsFiniteSet(Live') /\ Cardinality(Live') \in Nat
    /\ IsFiniteSet(Inserting) /\ Cardinality(Inserting) \in Nat
    /\ IsFiniteSet(Inserting') /\ Cardinality(Inserting') \in Nat
<1>1. IsFiniteSet(Logins) /\ Cardinality(Logins) \in Nat
  BY TokensAssumption, FS_CardinalityType
<1>2. IsFiniteSet(Tokens)
  BY TokensAssumption, FS_Interval DEF Tokens
<1>3. Live \subseteq Tokens /\ Live' \subseteq Tokens
  BY DEF Live
<1>4. Inserting \subseteq Logins /\ Inserting' \subseteq Logins
  BY DEF Inserting
<1> QED BY <1>1, <1>2, <1>3, <1>4, PartCounts

\* A step in which documents only die: none comes to life, none is stored or unstored.
Fading ==
    /\ token' \in [Tokens -> States]
    /\ \A t \in Tokens : /\ token'[t] = "active" => token[t] = "active"
                         /\ token'[t] = "unborn" <=> token[t] = "unborn"

LEMMA FadingLive == Fading => Live' \subseteq Live
BY DEF Fading, Live

\* Revocation, clean-up, purge, the end of a grace period and expiry are such steps.
LEMMA Fades ==
    ASSUME TokensTypeOK,
           \/ UNCHANGED token
           \/ token' = RevokeEach("revoked")
           \/ token' = RevokeEach("grace")
           \/ token' = [t \in Tokens |->
                          IF token[t] \in {"revoked", "expired"} THEN "gone" ELSE token[t]]
           \/ token' = [t \in Tokens |-> IF token[t] = "unborn" THEN "unborn" ELSE "gone"]
           \/ \E S \in SUBSET Tokens :
                 token' = [t \in Tokens |-> IF t \in S /\ token[t] = "active" THEN "revoked" ELSE token[t]]
           \/ \E t \in Tokens : token[t] = "grace" /\ token' = [token EXCEPT ![t] = "revoked"]
           \/ \E t \in Tokens : token[t] = "active" /\ token' = [token EXCEPT ![t] = "expired"]
    PROVE  Fading
<1> USE DEF TokensTypeOK, Fading, States
<1>1. CASE UNCHANGED token
  BY <1>1
<1>2. CASE token' = RevokeEach("revoked") \/ token' = RevokeEach("grace")
  BY <1>2 DEF RevokeEach
<1>3. CASE token' = [t \in Tokens |->
                       IF token[t] \in {"revoked", "expired"} THEN "gone" ELSE token[t]]
  BY <1>3
<1>4. CASE token' = [t \in Tokens |-> IF token[t] = "unborn" THEN "unborn" ELSE "gone"]
  BY <1>4
<1>5. CASE \E S \in SUBSET Tokens :
             token' = [t \in Tokens |-> IF t \in S /\ token[t] = "active" THEN "revoked" ELSE token[t]]
  BY <1>5
<1>6. CASE \E t \in Tokens : token[t] = "grace" /\ token' = [token EXCEPT ![t] = "revoked"]
  BY <1>6
<1>7. CASE \E t \in Tokens : token[t] = "active" /\ token' = [token EXCEPT ![t] = "expired"]
  BY <1>7
<1> QED BY <1>1, <1>2, <1>3, <1>4, <1>5, <1>6, <1>7

\* One request moves; the others stand where they stood.
LEMMA RequestMoves ==
    ASSUME TokensTypeOK, NEW r \in Logins, NEW k \in TokenRequest, request' = [request EXCEPT ![r] = k]
    PROVE  /\ request' \in [Logins -> TokenRequest]
           /\ \A q \in Logins : request'[q] = IF q = r THEN k ELSE request[q]
BY DEF TokensTypeOK, TokenRequest

\* Then keeps what a request holds, Leave lets go of it.
LEMMA ThenGoes ==
    ASSUME TokensTypeOK, NEW r \in Logins,
           NEW s \in {"idle", "check", "clear", "verify", "revoke", "insert", "cleanup", "old", "all", "purge"},
           Then(r, s)
    PROVE  \E k \in TokenRequest :
              /\ request' = [request EXCEPT ![r] = k]
              /\ k.step = s /\ k.op = request[r].op /\ k.given = request[r].given
              /\ k.minted = request[r].minted /\ (k.solo => request[r].solo)
<1> DEFINE k == [request[r] EXCEPT !.step = s]
<1>1. request[r] \in TokenRequest
  BY DEF TokensTypeOK, TokenRequest
<1>2. k \in TokenRequest
  BY <1>1 DEF TokenRequest
<1>3. /\ k.step = s /\ k.op = request[r].op /\ k.given = request[r].given
      /\ k.minted = request[r].minted /\ k.solo = request[r].solo
  BY <1>1 DEF TokenRequest
<1>4. request' = [request EXCEPT ![r] = k]
  BY DEF Then
<1> QED BY <1>2, <1>3, <1>4

LEMMA LeaveRests ==
    /\ Resting \in TokenRequest /\ Resting.step = "idle" /\ Resting.op = "login"
    /\ Resting.given = {} /\ Resting.minted = {} /\ Resting.solo = FALSE
BY DEF Resting, TokenRequest, Ops

\* A request in flight takes a step other than the revocation and the insert of a store, while
\* documents only die.
LEMMA RequestStep ==
    ASSUME TokensIInv, Fading, excused' \in BOOLEAN, TokenComing',
           NEW r \in Logins, NEW k \in TokenRequest, request' = [request EXCEPT ![r] = k],
           request[r].step # "idle",
           k.step \notin {"insert", "cleanup"},
           k.solo => request[r].solo,
           \A t \in k.given : token'[t] # "unborn",
           k.step \in {"check", "clear"} => k.op = "login",
           k.step = "revoke" => k.op \in {"login", "refresh"},
           k.step \in {"verify", "old"} => k.op \in {"refresh", "logout"},
           k.step = "old" /\ k.op # "logout" => \A t \in k.given : token'[t] # "active"
    PROVE  TokensIInv'
<1>t. TokensTypeOK
  BY DEF TokensIInv
<1>1. /\ request' \in [Logins -> TokenRequest]
      /\ \A q \in Logins : request'[q] = IF q = r THEN k ELSE request[q]
  BY <1>t, RequestMoves
<1>2. TokensTypeOK'
  <2>1. ASSUME NEW q \in Logins, request'[q].step = "cleanup"
        PROVE  \E t \in Tokens : request'[q].minted = {t} /\ token'[t] # "unborn"
    <3>1. request'[q] = request[q]
      BY <2>1, <1>1
    <3>2. PICK t \in Tokens : request[q].minted = {t} /\ token[t] # "unborn"
      BY <3>1, <2>1, <1>t DEF TokensTypeOK
    <3> QED BY <3>1, <3>2 DEF Fading
  <2> QED BY <2>1, <1>1 DEF TokensTypeOK, TokenRequest, Fading
<1>3. Room'
  <2>1. Inserting' \subseteq Inserting
    BY <1>1 DEF Inserting, InStep
  <2>2. Cardinality(Inserting') <= Cardinality(Inserting)
    BY <2>1, TokenCounts, PartCounts
  <2>3. Cardinality(Live') <= Cardinality(Live)
    BY FadingLive, TokenCounts, PartCounts
  <2>4. PICK l \in Nat, n \in Nat : l = Cardinality(Live') /\ n = Cardinality(Inserting')
    BY TokenCounts
  <2>5. l + n <= Cardinality(Logins)
    BY <2>2, <2>3, <2>4, TokenCounts DEF TokensIInv, Room
  <2> QED BY <2>4, <2>5 DEF Room
<1>4. PresentedDead'
  <2> SUFFICES ASSUME NEW q \in Logins
               PROVE  /\ \A t \in request'[q].given : token'[t] # "unborn"
                      /\ request'[q].step \in {"insert", "cleanup"} => request'[q].op \in {"login", "refresh"}
                      /\ request'[q].step \in {"check", "clear"} => request'[q].op = "login"
                      /\ request'[q].step = "revoke" => request'[q].op \in {"login", "refresh"}
                      /\ request'[q].step \in {"verify", "old"} => request'[q].op \in {"refresh", "logout"}
                      /\ request'[q].step \in {"insert", "cleanup", "old"} /\ request'[q].op # "logout" =>
                            \A t \in request'[q].given : token'[t] # "active"
    BY DEF PresentedDead
  <2>1. CASE q = r
    <3>1. request'[q] = k
      BY <2>1, <1>1
    <3> QED BY <3>1
  <2>2. CASE q # r
    <3>1. request'[q] = request[q] /\ request[q].given \subseteq Tokens
      BY <2>2, <1>1, <1>t DEF TokensTypeOK
    <3> QED BY <3>1 DEF TokensIInv, PresentedDead, Fading
  <2> QED BY <2>1, <2>2
<1>5. SoloAlone'
  <2> SUFFICES ASSUME NEW q \in Logins, request'[q].solo
               PROVE  /\ \A p \in Logins \ {q} : request'[p].step = "idle"
                      /\ request'[q].step = "insert" => Live' = {}
                      /\ request'[q].step = "cleanup" => Live' \subseteq request'[q].minted
    BY DEF SoloAlone, InStep
  <2>1. q = r
    <3>1. ASSUME q # r PROVE FALSE
      <4>1. request'[q] = request[q]
        BY <3>1, <1>1
      <4>2. request[r].step = "idle"
        BY <4>1, <3>1 DEF TokensIInv, SoloAlone, InStep
      <4> QED BY <4>2
    <3> QED BY <3>1
  <2>2. request'[q] = k /\ request[q].solo
    BY <2>1, <1>1
  <2>3. \A p \in Logins \ {q} : request'[p].step = "idle"
    BY <2>1, <2>2, <1>1 DEF TokensIInv, SoloAlone, InStep
  <2> QED BY <2>2, <2>3
<1> QED BY <1>2, <1>3, <1>4, <1>5 DEF TokensIInv

\* A new request presents a token that was stored, and is alone only where nobody else is busy.
LEMMA ArriveKeeps ==
    ASSUME TokensIInv, NEW r \in Logins, Arrive(r)
    PROVE  TokensIInv'
<1>t. TokensTypeOK
  BY DEF TokensIInv
<1> DEFINE first(op) == CASE op = "login" -> "check"
                          [] op \in {"refresh", "logout"} -> "verify"
                          [] op = "logoutAll" -> "all"
                          [] op = "reset" -> "purge"
           alone == \A p \in Logins \ {r} : InStep(p, "idle")
           arrived(op, given) == [q \in Logins |->
              IF q = r THEN [Resting EXCEPT !.op = op, !.step = first(op), !.given = given, !.solo = alone]
                       ELSE [request[q] EXCEPT !.solo = FALSE]]
<1>1. PICK op \in Ops : \E given \in IF op \in {"refresh", "logout"}
                                        THEN {{t} : t \in Tokens \ Unborn} ELSE {{}} :
                           request' = arrived(op, given)
  BY Zenon DEF Arrive
<1>2. PICK given : given \in SUBSET Tokens /\ given \cap Unborn = {} /\ request' = arrived(op, given)
  <2>1. PICK g \in IF op \in {"refresh", "logout"} THEN {{t} : t \in Tokens \ Unborn} ELSE {{}} :
          request' = arrived(op, g)
    BY <1>1
  <2>2. g \in SUBSET Tokens /\ g \cap Unborn = {}
    <3>1. CASE op \in {"refresh", "logout"}
      <4>1. PICK t \in Tokens \ Unborn : g = {t}
        BY <3>1
      <4> QED BY <4>1
    <3>2. CASE op \notin {"refresh", "logout"}
      <4>1. g = {}
        BY <3>2
      <4> QED BY <4>1
    <3> QED BY <3>1, <3>2
  <2> QED BY <2>1, <2>2
<1>3. /\ first(op) \in {"check", "verify", "all", "purge"}
      /\ first(op) = "verify" => op \in {"refresh", "logout"}
      /\ first(op) = "check" => op = "login"
  BY DEF Ops
<1>4. request[r].step = "idle" /\ UNCHANGED <<token, excused>>
  BY DEF Arrive, InStep
<1> DEFINE k == [Resting EXCEPT !.op = op, !.step = first(op), !.given = given, !.solo = alone]
<1>5. k \in TokenRequest /\ k.op = op /\ k.step = first(op) /\ k.given = given /\ k.minted = {}
      /\ k.solo = alone
  <2> HIDE DEF first
  <2>1. alone \in BOOLEAN
    OBVIOUS
  <2> HIDE DEF alone
  <2> QED BY <1>2, <1>3, <2>1 DEF Resting, TokenRequest
<1>6. request'[r] = k
  BY <1>2, Zenon
<1>7. ASSUME NEW q \in Logins, q # r
      PROVE  /\ request'[q] \in TokenRequest
             /\ request'[q].op = request[q].op /\ request'[q].step = request[q].step
             /\ request'[q].given = request[q].given /\ request'[q].minted = request[q].minted
             /\ request'[q].solo = FALSE
  <2>1. request'[q] = [request[q] EXCEPT !.solo = FALSE]
    BY <1>2, <1>7, Zenon
  <2>2. request[q] \in TokenRequest
    BY <1>t DEF TokensTypeOK, TokenRequest
  <2> QED BY <2>1, <2>2 DEF TokenRequest
<1>8. request' \in [Logins -> TokenRequest]
  <2>1. \A q \in Logins : request'[q] \in TokenRequest
    <3> HIDE DEF k
    <3> QED BY <1>5, <1>6, <1>7
  <2>2. request' = arrived(op, given)
    BY <1>2
  <2>3. \A q \in Logins : arrived(op, given)[q] \in TokenRequest
    BY <2>1, <2>2, Zenon
  <2> QED BY <2>2, <2>3, Zenon
<1>s. alone => \A p \in Logins \ {r} : request'[p].step = "idle"
  BY <1>7 DEF InStep
<1> HIDE DEF k, alone, first
<1>9. TokensTypeOK'
  <2>1. ASSUME NEW q \in Logins, request'[q].step = "cleanup"
        PROVE  \E t \in Tokens : request'[q].minted = {t} /\ token'[t] # "unborn"
    <3>1. q # r
      BY <2>1, <1>3, <1>5, <1>6
    <3> QED BY <3>1, <2>1, <1>4, <1>7, <1>t DEF TokensTypeOK
  <2> QED BY <2>1, <1>4, <1>8, <1>t DEF TokensTypeOK, TokenRequest
<1>10. Room'
  <2>1. Inserting' = Inserting /\ Live' = Live
    BY <1>3, <1>4, <1>5, <1>6, <1>7 DEF Inserting, InStep, Live
  <2> QED BY <2>1 DEF TokensIInv, Room
<1>11. TokenComing'
  <2>1. Live' = Live
    BY <1>4 DEF Live
  <2>2. ASSUME NEW q \in Logins, request[q].step \in {"revoke", "insert"}
        PROVE  request'[q].step \in {"revoke", "insert"}
    BY <2>2, <1>4, <1>7
  <2> QED BY <2>1, <2>2, <1>4 DEF TokensIInv, TokenComing
<1>12. PresentedDead'
  <2>1. \A t \in given : token[t] # "unborn"
    BY <1>2 DEF Unborn
  <2> SUFFICES ASSUME NEW q \in Logins
               PROVE  /\ \A t \in request'[q].given : token'[t] # "unborn"
                      /\ request'[q].step \in {"insert", "cleanup"} => request'[q].op \in {"login", "refresh"}
                      /\ request'[q].step \in {"check", "clear"} => request'[q].op = "login"
                      /\ request'[q].step = "revoke" => request'[q].op \in {"login", "refresh"}
                      /\ request'[q].step \in {"verify", "old"} => request'[q].op \in {"refresh", "logout"}
                      /\ request'[q].step \in {"insert", "cleanup", "old"} /\ request'[q].op # "logout" =>
                            \A t \in request'[q].given : token'[t] # "active"
    BY DEF PresentedDead
  <2>2. CASE q = r
    BY <2>1, <2>2, <1>3, <1>4, <1>5, <1>6
  <2>3. CASE q # r
    BY <2>3, <1>4, <1>7 DEF TokensIInv, PresentedDead
  <2> QED BY <2>2, <2>3
<1>13. SoloAlone'
  <2> SUFFICES ASSUME NEW q \in Logins, request'[q].solo
               PROVE  /\ \A p \in Logins \ {q} : request'[p].step = "idle"
                      /\ request'[q].step = "insert" => Live' = {}
                      /\ request'[q].step = "cleanup" => Live' \subseteq request'[q].minted
    BY DEF SoloAlone, InStep
  <2>1. q = r
    BY <1>7
  <2>2. alone
    BY <2>1, <1>5, <1>6
  <2> QED BY <2>1, <2>2, <1>s, <1>3, <1>5, <1>6
<1> QED BY <1>9, <1>10, <1>11, <1>12, <1>13 DEF TokensIInv

\* A store revokes whatever is live before it inserts.
LEMMA RevokeFirstKeeps ==
    ASSUME TokensIInv, NEW r \in Logins, RevokeFirst(r)
    PROVE  TokensIInv'
<1>t. TokensTypeOK
  BY DEF TokensIInv
<1>1. request[r].step = "revoke" /\ token' = RevokeEach("grace") /\ UNCHANGED excused /\ Then(r, "insert")
  BY DEF RevokeFirst, InStep
<1>2. PICK k \in TokenRequest :
          /\ request' = [request EXCEPT ![r] = k]
          /\ k.step = "insert" /\ k.op = request[r].op /\ k.given = request[r].given
          /\ k.minted = request[r].minted /\ (k.solo => request[r].solo)
  BY <1>1, <1>t, ThenGoes
<1>3. /\ request' \in [Logins -> TokenRequest]
      /\ \A q \in Logins : request'[q] = IF q = r THEN k ELSE request[q]
  BY <1>2, <1>t, RequestMoves
<1>4. Fading
  BY <1>1, <1>t, Fades
<1>5. Live' = {} /\ \A t \in Tokens : token'[t] # "active"
  BY <1>1, <1>t DEF Live, RevokeEach, TokensTypeOK, States
<1>6. TokensTypeOK'
  <2>1. ASSUME NEW q \in Logins, request'[q].step = "cleanup"
        PROVE  \E t \in Tokens : request'[q].minted = {t} /\ token'[t] # "unborn"
    <3>1. request'[q] = request[q]
      BY <2>1, <1>2, <1>3
    <3>2. PICK t \in Tokens : request[q].minted = {t} /\ token[t] # "unborn"
      BY <3>1, <2>1, <1>t DEF TokensTypeOK
    <3> QED BY <3>1, <3>2, <1>4 DEF Fading
  <2> QED BY <2>1, <1>1, <1>3, <1>4, <1>t DEF TokensTypeOK, TokenRequest, Fading
<1>7. Room'
  <2>1. Cardinality(Inserting') <= Cardinality(Logins)
    BY TokenCounts, PartCounts DEF Inserting
  <2>2. Cardinality(Live') = 0
    BY <1>5, FS_EmptySet
  <2>3. 0 + Cardinality(Inserting') <= Cardinality(Logins)
    BY <2>1, TokenCounts
  <2> QED BY <2>2, <2>3 DEF Room
<1>8. TokenComing'
  <2>1. request'[r].step \in {"revoke", "insert"}
    BY <1>2, <1>3
  <2> QED BY <2>1 DEF TokenComing
<1>9. PresentedDead'
  <2> SUFFICES ASSUME NEW q \in Logins
               PROVE  /\ \A t \in request'[q].given : token'[t] # "unborn"
                      /\ request'[q].step \in {"insert", "cleanup"} => request'[q].op \in {"login", "refresh"}
                      /\ request'[q].step \in {"check", "clear"} => request'[q].op = "login"
                      /\ request'[q].step = "revoke" => request'[q].op \in {"login", "refresh"}
                      /\ request'[q].step \in {"verify", "old"} => request'[q].op \in {"refresh", "logout"}
                      /\ request'[q].step \in {"insert", "cleanup", "old"} /\ request'[q].op # "logout" =>
                            \A t \in request'[q].given : token'[t] # "active"
    BY DEF PresentedDead
  <2>1. /\ request'[q].given = request[q].given /\ request'[q].op = request[q].op
        /\ request[q].given \subseteq Tokens
    BY <1>2, <1>3, <1>t DEF TokensTypeOK
  <2>2. /\ \A t \in request'[q].given : token'[t] # "unborn"
        /\ \A t \in request'[q].given : token'[t] # "active"
    BY <2>1, <1>4, <1>5 DEF TokensIInv, PresentedDead, Fading
  <2>3. request'[q].step = request[q].step \/ (request'[q].step = "insert" /\ request[q].step = "revoke")
    <3>1. CASE q = r
      BY <3>1, <1>1, <1>2, <1>3
    <3>2. CASE q # r
      BY <3>2, <1>3
    <3> QED BY <3>1, <3>2
  <2> QED BY <2>1, <2>2, <2>3 DEF TokensIInv, PresentedDead
<1>10. SoloAlone'
  <2> SUFFICES ASSUME NEW q \in Logins, request'[q].solo
               PROVE  /\ \A p \in Logins \ {q} : request'[p].step = "idle"
                      /\ request'[q].step = "insert" => Live' = {}
                      /\ request'[q].step = "cleanup" => Live' \subseteq request'[q].minted
    BY DEF SoloAlone, InStep
  <2>1. request[q].solo
    BY <1>2, <1>3
  <2>2. \A p \in Logins \ {q} : request[p].step = "idle"
    BY <2>1 DEF TokensIInv, SoloAlone, InStep
  <2>3. q = r
    BY <2>2, <1>1
  <2>4. \A p \in Logins \ {q} : request'[p].step = "idle"
    BY <2>2, <2>3, <1>3
  <2> QED BY <2>4, <1>5
<1> QED BY <1>6, <1>7, <1>8, <1>9, <1>10 DEF TokensIInv

\* The insert of a store uses the room its revocation made.
LEMMA InsertKeeps ==
    ASSUME TokensIInv, NEW r \in Logins, Insert(r)
    PROVE  TokensIInv'
<1>t. TokensTypeOK
  BY DEF TokensIInv
<1>1. PICK n \in Unborn :
          /\ token' = [token EXCEPT ![n] = "active"]
          /\ request' = [request EXCEPT ![r].minted = {n}, ![r].step = "cleanup"]
  BY DEF Insert
<1>2. request[r].step = "insert" /\ excused' = FALSE /\ n \in Tokens /\ token[n] = "unborn"
  BY DEF Insert, InStep, Unborn
<1>3. /\ token' \in [Tokens -> States] /\ token'[n] = "active"
      /\ \A t \in Tokens : t # n => token'[t] = token[t]
  BY <1>1, <1>2, <1>t DEF TokensTypeOK, States
<1>4. PICK k \in TokenRequest :
        /\ request' = [request EXCEPT ![r] = k]
        /\ k.step = "cleanup" /\ k.minted = {n} /\ k.op = request[r].op /\ k.given = request[r].given
        /\ (k.solo => request[r].solo)
  <2>1. request[r] \in TokenRequest
    BY <1>t DEF TokensTypeOK, TokenRequest
  <2> DEFINE k == [request[r] EXCEPT !.minted = {n}, !.step = "cleanup"]
  <2>2. k \in TokenRequest
    BY <2>1, <1>2 DEF TokenRequest
  <2>3. /\ k.step = "cleanup" /\ k.minted = {n} /\ k.op = request[r].op /\ k.given = request[r].given
        /\ k.solo = request[r].solo
    BY <2>1 DEF TokenRequest
  <2>4. request' = [request EXCEPT ![r] = k]
    BY <1>1
  <2> QED BY <2>2, <2>3, <2>4
<1>5. /\ request' \in [Logins -> TokenRequest]
      /\ \A q \in Logins : request'[q] = IF q = r THEN k ELSE request[q]
  BY <1>4, <1>t, RequestMoves
<1>6. TokensTypeOK'
  <2>1. ASSUME NEW q \in Logins, request'[q].step = "cleanup"
        PROVE  \E t \in Tokens : request'[q].minted = {t} /\ token'[t] # "unborn"
    <3>1. CASE q = r
      BY <3>1, <1>2, <1>3, <1>4, <1>5
    <3>2. CASE q # r
      <4>1. request'[q] = request[q]
        BY <3>2, <1>5
      <4>2. PICK t \in Tokens : request[q].minted = {t} /\ token[t] # "unborn"
        BY <4>1, <2>1, <1>t DEF TokensTypeOK
      <4> QED BY <4>1, <4>2, <1>3
    <3> QED BY <3>1, <3>2
  <2> QED BY <2>1, <1>2, <1>3, <1>5 DEF TokensTypeOK, TokenRequest
<1>7. Room'
  <2>1. Live' \subseteq Live \cup {n}
    BY <1>3 DEF Live
  <2>2. Cardinality(Live') <= Cardinality(Live) + 1
    BY <2>1, TokenCounts, JoinCounts
  <2>3. r \in Inserting /\ Inserting' \subseteq Inserting \ {r}
    BY <1>2, <1>4, <1>5 DEF Inserting, InStep
  <2>4. Cardinality(Inserting') + 1 <= Cardinality(Inserting)
    BY <2>3, TokenCounts, LeaveCounts
  <2>5. PICK l \in Nat, m \in Nat : l = Cardinality(Live') /\ m = Cardinality(Inserting')
    BY TokenCounts
  <2>6. l + m <= Cardinality(Logins)
    BY <2>2, <2>4, <2>5, TokenCounts DEF TokensIInv, Room
  <2> QED BY <2>5, <2>6 DEF Room
<1>8. TokenComing'
  <2>1. n \in Live'
    BY <1>2, <1>3 DEF Live
  <2> QED BY <2>1 DEF TokenComing
<1>9. PresentedDead'
  <2> SUFFICES ASSUME NEW q \in Logins
               PROVE  /\ \A t \in request'[q].given : token'[t] # "unborn"
                      /\ request'[q].step \in {"insert", "cleanup"} => request'[q].op \in {"login", "refresh"}
                      /\ request'[q].step \in {"check", "clear"} => request'[q].op = "login"
                      /\ request'[q].step = "revoke" => request'[q].op \in {"login", "refresh"}
                      /\ request'[q].step \in {"verify", "old"} => request'[q].op \in {"refresh", "logout"}
                      /\ request'[q].step \in {"insert", "cleanup", "old"} /\ request'[q].op # "logout" =>
                            \A t \in request'[q].given : token'[t] # "active"
    BY DEF PresentedDead
  <2>1. /\ request'[q].given = request[q].given /\ request'[q].op = request[q].op
        /\ request[q].given \subseteq Tokens
    BY <1>4, <1>5, <1>t DEF TokensTypeOK
  <2>2. \A t \in request[q].given : token[t] # "unborn"
    BY DEF TokensIInv, PresentedDead
  <2>3. \A t \in request[q].given : token'[t] = token[t]
    BY <2>1, <2>2, <1>2, <1>3
  <2>4. request'[q].step = request[q].step \/ (request'[q].step = "cleanup" /\ request[q].step = "insert")
    <3>1. CASE q = r
      BY <3>1, <1>2, <1>4, <1>5
    <3>2. CASE q # r
      BY <3>2, <1>5
    <3> QED BY <3>1, <3>2
  <2> QED BY <2>1, <2>2, <2>3, <2>4 DEF TokensIInv, PresentedDead
<1>10. SoloAlone'
  <2> SUFFICES ASSUME NEW q \in Logins, request'[q].solo
               PROVE  /\ \A p \in Logins \ {q} : request'[p].step = "idle"
                      /\ request'[q].step = "insert" => Live' = {}
                      /\ request'[q].step = "cleanup" => Live' \subseteq request'[q].minted
    BY DEF SoloAlone, InStep
  <2>1. request[q].solo
    BY <1>4, <1>5
  <2>2. \A p \in Logins \ {q} : request[p].step = "idle"
    BY <2>1 DEF TokensIInv, SoloAlone, InStep
  <2>3. q = r
    BY <2>2, <1>2
  <2>4. \A p \in Logins \ {q} : request'[p].step = "idle"
    BY <2>2, <2>3, <1>5
  <2>5. Live = {}
    BY <2>1, <2>3, <1>2 DEF TokensIInv, SoloAlone, InStep
  <2>6. Live' \subseteq {n}
    BY <2>5, <1>3 DEF Live
  <2> QED BY <2>3, <2>4, <2>6, <1>4, <1>5
<1> QED BY <1>6, <1>7, <1>8, <1>9, <1>10 DEF TokensIInv

\* No token is needed while nothing is stored or live is taken, and any step that is an excuse.
LEMMA ComingStays ==
    ASSUME TokensIInv, NEW r \in Logins, NEW k, request' = [request EXCEPT ![r] = k],
           \/ excused' = TRUE
           \/ /\ UNCHANGED excused /\ Live' = Live
              /\ request[r].step \notin {"revoke", "insert"}
           \/ k.step = "revoke"
    PROVE  TokenComing'
<1>1. \A q \in Logins : request'[q] = IF q = r THEN k ELSE request[q]
  BY DEF TokensIInv, TokensTypeOK
<1>2. CASE excused' = TRUE
  BY <1>2 DEF TokenComing
<1>3. CASE UNCHANGED excused /\ Live' = Live /\ request[r].step \notin {"revoke", "insert"}
  <2>1. ASSUME NEW q \in Logins, request[q].step \in {"revoke", "insert"}
        PROVE  request'[q].step \in {"revoke", "insert"}
    BY <2>1, <1>1, <1>3
  <2> QED BY <2>1, <1>3 DEF TokensIInv, TokenComing
<1>4. CASE k.step = "revoke"
  <2>1. request'[r].step \in {"revoke", "insert"}
    BY <1>1, <1>4
  <2> QED BY <2>1 DEF TokenComing
<1> QED BY <1>2, <1>3, <1>4

\* Every step of the token endpoints keeps the invariant.
LEMMA TokensKeep == TokensIInv /\ [TokensNext]_tokenVars => TokensIInv'
<1> SUFFICES ASSUME TokensIInv, [TokensNext]_tokenVars PROVE TokensIInv'
  OBVIOUS
<1>t. TokensTypeOK
  BY DEF TokensIInv
<1>x. excused \in BOOLEAN
  BY <1>t DEF TokensTypeOK
<1>d. ASSUME NEW r \in Logins, Fading
      PROVE  /\ request[r].given \subseteq Tokens
             /\ \A t \in request[r].given : token'[t] # "unborn"
             /\ request[r].step \in {"insert", "cleanup", "old"} /\ request[r].op # "logout" =>
                   \A t \in request[r].given : token'[t] # "active"
  <2>1. request[r].given \subseteq Tokens
    BY <1>t DEF TokensTypeOK
  <2> QED BY <2>1, <1>d DEF TokensIInv, PresentedDead, Fading
<1>u. UNCHANGED token => Fading /\ Live' = Live
  BY <1>t, Fades DEF Live
\* a request that leaves, whatever died, with an excuse or with every live token still there
<1>l. ASSUME NEW r \in Logins, Leave(r), Fading, request[r].step # "idle", excused' \in BOOLEAN,
             \/ excused' = TRUE
             \/ UNCHANGED excused /\ Live' = Live /\ request[r].step \notin {"revoke", "insert"}
      PROVE  TokensIInv'
  <2>1. request' = [request EXCEPT ![r] = Resting]
    BY <1>l DEF Leave
  <2>2. TokenComing'
    BY <2>1, <1>l, ComingStays
  <2>3. /\ Resting \in TokenRequest /\ Resting.step = "idle"
        /\ Resting.given = {} /\ Resting.solo = FALSE
    BY LeaveRests
  <2> QED BY <2>1, <2>2, <2>3, <1>l, RequestStep
<1>1. ASSUME NEW r \in Logins, FindActive(r) PROVE TokensIInv'
  <2>1. request[r].step = "check" /\ UNCHANGED <<token, excused>> /\ (Then(r, "clear") \/ Then(r, "revoke"))
    BY <1>1 DEF FindActive, InStep
  <2>2. PICK s \in {"clear", "revoke"} : Then(r, s)
    BY <2>1
  <2>o. request[r].op = "login"
    BY <2>1 DEF TokensIInv, PresentedDead
  <2>3. PICK k \in TokenRequest :
              /\ request' = [request EXCEPT ![r] = k]
              /\ k.step = s /\ k.op = request[r].op /\ k.given = request[r].given
              /\ k.minted = request[r].minted /\ (k.solo => request[r].solo)
    BY <2>2, <1>t, ThenGoes
  <2>4. Fading /\ Live' = Live
    BY <2>1, <1>u
  <2>5. TokenComing'
    BY <2>1, <2>3, <2>4, ComingStays
  <2> QED BY <2>1, <2>3, <2>4, <2>5, <2>o, <1>d, <1>x, RequestStep
<1>2. ASSUME NEW r \in Logins, ClearSessions(r) PROVE TokensIInv'
  <2>1. /\ request[r].step = "clear" /\ Then(r, "revoke") /\ UNCHANGED excused
        /\ token' = RevokeEach("revoked") \/ UNCHANGED token
    BY <1>2 DEF ClearSessions, InStep
  <2>2. request[r].op = "login"
    BY <2>1 DEF TokensIInv, PresentedDead
  <2>3. PICK k \in TokenRequest :
              /\ request' = [request EXCEPT ![r] = k]
              /\ k.step = "revoke" /\ k.op = request[r].op /\ k.given = request[r].given
              /\ k.minted = request[r].minted /\ (k.solo => request[r].solo)
    BY <2>1, <1>t, ThenGoes
  <2>4. Fading
    BY <2>1, <1>t, Fades
  <2>5. TokenComing'
    BY <2>3, ComingStays
  <2> QED BY <2>1, <2>2, <2>3, <2>4, <2>5, <1>d, <1>x, RequestStep
<1>3. ASSUME NEW r \in Logins, Verify(r) PROVE TokensIInv'
  <2>1. /\ request[r].step = "verify" /\ UNCHANGED <<token, excused>>
        /\ \/ request[r].op = "refresh" /\ Then(r, "revoke")
           \/ request[r].op # "refresh" /\ Then(r, "old")
           \/ Leave(r)
    BY <1>3 DEF Verify, InStep
  <2>2. request[r].op \in {"refresh", "logout"}
    BY <2>1 DEF TokensIInv, PresentedDead
  <2>3. Fading /\ Live' = Live
    BY <2>1, <1>u
  <2>4. CASE Leave(r)
    BY <2>1, <2>3, <2>4, <1>l, <1>x
  <2>5. CASE request[r].op = "refresh" /\ Then(r, "revoke")
    <3>1. PICK k \in TokenRequest :
              /\ request' = [request EXCEPT ![r] = k]
              /\ k.step = "revoke" /\ k.op = request[r].op /\ k.given = request[r].given
              /\ k.minted = request[r].minted /\ (k.solo => request[r].solo)
      BY <2>5, <1>t, ThenGoes
    <3>2. TokenComing'
      BY <3>1, ComingStays
    <3> QED BY <3>1, <3>2, <2>1, <2>2, <2>3, <2>5, <1>d, <1>x, RequestStep
  <2>6. CASE request[r].op # "refresh" /\ Then(r, "old")
    <3>1. PICK k \in TokenRequest :
              /\ request' = [request EXCEPT ![r] = k]
              /\ k.step = "old" /\ k.op = request[r].op /\ k.given = request[r].given
              /\ k.minted = request[r].minted /\ (k.solo => request[r].solo)
      BY <2>6, <1>t, ThenGoes
    <3>2. TokenComing'
      BY <3>1, <2>1, <2>3, ComingStays
    <3> QED BY <3>1, <3>2, <2>1, <2>2, <2>3, <2>6, <1>d, <1>x, RequestStep
  <2> QED BY <2>1, <2>4, <2>5, <2>6
<1>4. ASSUME NEW r \in Logins, Cleanup(r) \/ CleanupFails(r) PROVE TokensIInv'
  <2>1. /\ request[r].step = "cleanup" /\ UNCHANGED excused
        /\ \/ request[r].op = "login" /\ Leave(r)
           \/ request[r].op # "login" /\ Then(r, "old")
        /\ \/ UNCHANGED token
           \/ token' = [t \in Tokens |->
                          IF token[t] \in {"revoked", "expired"} THEN "gone" ELSE token[t]]
    BY <1>4 DEF Cleanup, CleanupFails, InStep
  <2>2. request[r].op \in {"login", "refresh"}
    BY <2>1 DEF TokensIInv, PresentedDead
  <2>3. Fading
    BY <2>1, <1>t, Fades
  <2>4. Live' = Live
    BY <2>1, <1>t DEF Live, TokensTypeOK
  <2>5. CASE Leave(r)
    BY <2>1, <2>3, <2>4, <2>5, <1>l, <1>x
  <2>6. CASE request[r].op # "login" /\ Then(r, "old")
    <3>1. PICK k \in TokenRequest :
              /\ request' = [request EXCEPT ![r] = k]
              /\ k.step = "old" /\ k.op = request[r].op /\ k.given = request[r].given
              /\ k.minted = request[r].minted /\ (k.solo => request[r].solo)
      BY <2>6, <1>t, ThenGoes
    <3>2. TokenComing'
      BY <3>1, <2>1, <2>4, ComingStays
    <3> QED BY <3>1, <3>2, <2>1, <2>2, <2>3, <2>6, <1>d, <1>x, RequestStep
  <2> QED BY <2>1, <2>5, <2>6
<1>5. ASSUME NEW r \in Logins, StoreFails(r) \/ RequestDies(r) PROVE TokensIInv'
  <2>1. request[r].step # "idle" /\ Leave(r) /\ excused' = TRUE /\ UNCHANGED token
    BY <1>5 DEF StoreFails, RequestDies, InStep
  <2> QED BY <2>1, <1>u, <1>l
<1>6. ASSUME NEW r \in Logins, RevokeAll(r) \/ Purge(r) PROVE TokensIInv'
  <2>1. /\ request[r].step # "idle" /\ Leave(r) /\ excused' = TRUE
        /\ \/ UNCHANGED token
           \/ token' = RevokeEach("revoked")
           \/ token' = [t \in Tokens |-> IF token[t] = "unborn" THEN "unborn" ELSE "gone"]
    BY <1>6 DEF RevokeAll, Purge, InStep
  <2>2. Fading
    BY <2>1, <1>t, Fades
  <2> QED BY <2>1, <2>2, <1>l
<1>7. ASSUME NEW r \in Logins, RevokeGiven(r) PROVE TokensIInv'
  <2>1. /\ request[r].step = "old" /\ Leave(r) /\ excused' = (excused \/ request[r].op = "logout")
        /\ \/ UNCHANGED token
           \/ token' = [t \in Tokens |-> IF t \in request[r].given /\ token[t] = "active"
                                            THEN "revoked" ELSE token[t]]
    BY <1>7 DEF RevokeGiven, InStep
  <2>2. request[r].given \subseteq Tokens
    BY <1>t DEF TokensTypeOK
  <2>3. Fading
    BY <2>1, <2>2, <1>t, Fades
  <2>4. CASE request[r].op = "logout"
    <3>1. excused' = TRUE
      BY <2>1, <2>4, <1>x
    <3> QED BY <3>1, <2>1, <2>3, <1>l
  <2>5. CASE request[r].op # "logout"
    <3>1. \A t \in request[r].given : token[t] # "active"
      BY <2>1, <2>5 DEF TokensIInv, PresentedDead
    <3>2. Live' = Live
      BY <2>1, <3>1, <1>t DEF Live, TokensTypeOK
    <3>3. excused' = excused
      BY <2>1, <2>5, <1>x
    <3> QED BY <2>1, <2>3, <3>2, <3>3, <1>l, <1>x
  <2> QED BY <2>4, <2>5
<1>8. ASSUME NEW r \in Logins, Arrive(r) \/ RevokeFirst(r) \/ Insert(r) PROVE TokensIInv'
  BY <1>8, ArriveKeeps, RevokeFirstKeeps, InsertKeeps
\* no request moves: time passes, or nothing does
<1>9. ASSUME Fading, UNCHANGED request, excused' = TRUE \/ (UNCHANGED excused /\ Live' = Live)
      PROVE  TokensIInv'
  <2>1. TokensTypeOK'
    <3>1. ASSUME NEW q \in Logins, request'[q].step = "cleanup"
          PROVE  \E t \in Tokens : request'[q].minted = {t} /\ token'[t] # "unborn"
      BY <3>1, <1>9, <1>t DEF TokensTypeOK, Fading
    <3>2. excused' \in BOOLEAN
      BY <1>9, <1>x
    <3> QED BY <3>1, <3>2, <1>9, <1>t DEF TokensTypeOK, Fading
  <2>2. Live' \subseteq Live
    BY <1>9, FadingLive
  <2>3. Room'
    <3>1. Inserting' = Inserting
      BY <1>9 DEF Inserting, InStep
    <3>2. Cardinality(Live') <= Cardinality(Live)
      BY <2>2, TokenCounts, PartCounts
    <3>3. Cardinality(Live') + Cardinality(Inserting) <= Cardinality(Logins)
      BY <3>2, TokenCounts DEF TokensIInv, Room
    <3> QED BY <3>1, <3>3 DEF Room
  <2>4. TokenComing'
    BY <1>9 DEF TokensIInv, TokenComing
  <2>5. PresentedDead'
    <3>1. \A q \in Logins : request[q].given \subseteq Tokens
      BY <1>t DEF TokensTypeOK
    <3> QED BY <3>1, <1>9 DEF TokensIInv, PresentedDead, Fading
  <2>6. SoloAlone'
    BY <2>2, <1>9 DEF TokensIInv, SoloAlone, InStep
  <2> QED BY <2>1, <2>3, <2>4, <2>5, <2>6 DEF TokensIInv
<1>10. ASSUME NEW t \in Tokens, GraceEnds(t) PROVE TokensIInv'
  <2>1. token[t] = "grace" /\ token' = [token EXCEPT ![t] = "revoked"] /\ UNCHANGED <<request, excused>>
    BY <1>10 DEF GraceEnds
  <2>2. Fading
    BY <2>1, <1>t, Fades
  <2>3. Live' = Live
    BY <2>1, <1>t DEF Live, TokensTypeOK
  <2> QED BY <2>1, <2>2, <2>3, <1>9
<1>11. ASSUME NEW t \in Tokens, TokenExpires(t) PROVE TokensIInv'
  <2>1. token[t] = "active" /\ token' = [token EXCEPT ![t] = "expired"] /\ UNCHANGED request /\ excused' = TRUE
    BY <1>11 DEF TokenExpires
  <2>2. Fading
    BY <2>1, <1>t, Fades
  <2> QED BY <2>1, <2>2, <1>9
<1>12. CASE UNCHANGED tokenVars
  BY <1>12, <1>u, <1>9 DEF tokenVars
<1> QED BY <1>1, <1>2, <1>3, <1>4, <1>5, <1>6, <1>7, <1>8, <1>10, <1>11, <1>12 DEF TokensNext

\* The invariant holds at the start.
LEMMA TokensStart == TokensInit => TokensIInv
<1> SUFFICES ASSUME TokensInit PROVE TokensIInv
  OBVIOUS
<1>1. /\ token = [t \in Tokens |-> "unborn"] /\ request = [r \in Logins |-> Resting] /\ excused = TRUE
      /\ Resting \in TokenRequest /\ Resting.step = "idle" /\ Resting.given = {} /\ Resting.solo = FALSE
  BY LeaveRests DEF TokensInit
<1>2. TokensTypeOK
  BY <1>1 DEF TokensTypeOK, TokenRequest, States
<1>3. Room
  <2>1. Live = {} /\ Inserting = {}
    BY <1>1 DEF Live, Inserting, InStep
  <2>2. Cardinality(Live) = 0 /\ Cardinality(Inserting) = 0
    BY <2>1, FS_EmptySet
  <2> QED BY <2>2, TokenCounts DEF Room
<1>4. TokenComing /\ PresentedDead /\ SoloAlone
  BY <1>1 DEF TokenComing, PresentedDead, SoloAlone
<1> QED BY <1>2, <1>3, <1>4 DEF TokensIInv

\* The inductive invariant of the refresh tokens.
LEMMA TokensAlways == TokensSpec => []TokensIInv
BY TokensStart, TokensKeep, PTL DEF TokensSpec

\* The refresh tokens of a user (_store_refresh_token and the endpoints around it): for any number
\* of overlapping requests no more tokens are live than requests can be in flight, and requests
\* that nothing fails never log the user out between them.
THEOREM TokensSafe == TokensSpec => []TokensInv
<1>1. TokensIInv => TokensInv
  <2> SUFFICES ASSUME TokensIInv PROVE TokensInv
    OBVIOUS
  <2>1. BoundedSessions
    BY TokenCounts DEF TokensIInv, Room, BoundedSessions
  <2>2. SomeoneSurvives
    BY DEF TokensIInv, TokenComing, SomeoneSurvives, InStep
  <2> QED BY <2>1, <2>2 DEF TokensIInv, TokensInv
<1> QED BY <1>1, TokensAlways, PTL

\* A login or refresh that nobody disturbed leaves no live token but its own, whatever earlier
\* races left behind and whichever of its own calls failed unnoticed.
THEOREM SoloLogin == TokensSpec => SoloExact
<1>1. ASSUME TokensIInv, [TokensNext]_tokenVars, NEW r \in Logins,
             request[r].solo /\ request[r].minted # {} /\ InStep(r, "cleanup")
      PROVE  Live' \subseteq request[r].minted
  <2>t. TokensTypeOK
    BY <1>1 DEF TokensIInv
  <2>1. Live \subseteq request[r].minted
    BY <1>1 DEF TokensIInv, SoloAlone
  <2>2. \A q \in Logins : ~InStep(q, "insert") /\ ~InStep(q, "revoke")
    BY <1>1 DEF TokensIInv, SoloAlone, InStep
  <2>3. Fading
    <3>1. CASE \E q \in Logins : \/ Arrive(q) \/ FindActive(q) \/ Verify(q) \/ CleanupFails(q)
                                 \/ StoreFails(q) \/ RequestDies(q)
      <4>1. UNCHANGED token
        BY <3>1 DEF Arrive, FindActive, Verify, CleanupFails, StoreFails, RequestDies
      <4> QED BY <4>1, <2>t, Fades
    <3>2. CASE \E q \in Logins : ClearSessions(q) \/ RevokeAll(q) \/ Purge(q)
      BY <3>2, <2>t, Fades DEF ClearSessions, RevokeAll, Purge
    <3>3. CASE \E q \in Logins : Cleanup(q)
      BY <3>3, <2>t, Fades DEF Cleanup
    <3>4. ASSUME NEW q \in Logins, RevokeGiven(q) PROVE Fading
      <4>1. request[q].given \in SUBSET Tokens
        BY <2>t DEF TokensTypeOK
      <4> QED BY <4>1, <3>4, <2>t, Fades DEF RevokeGiven
    <3>5. CASE \E q \in Logins : RevokeFirst(q) \/ Insert(q)
      BY <3>5, <2>2 DEF RevokeFirst, Insert
    <3>6. CASE \E t \in Tokens : GraceEnds(t) \/ TokenExpires(t)
      BY <3>6, <2>t, Fades DEF GraceEnds, TokenExpires
    <3>7. CASE UNCHANGED tokenVars
      BY <3>7, <2>t, Fades DEF tokenVars
    <3> QED BY <1>1, <3>1, <3>2, <3>3, <3>4, <3>5, <3>6, <3>7 DEF TokensNext
  <2> QED BY <2>1, <2>3, FadingLive
<1>2. TokensIInv /\ [TokensNext]_tokenVars =>
        [\A r \in Logins : request[r].solo /\ request[r].minted # {} /\ InStep(r, "cleanup") =>
             Live' \subseteq request[r].minted]_tokenVars
  BY <1>1
<1> QED BY <1>2, TokensAlways, PTL DEF TokensSpec, SoloExact

------------------------------------------------------------------------------
(* ClientAuth: the inductive invariant                                      *)

\* The kinds of task that write credentials, as Writers has them
LoginOn == entry.step \notin {"idle", "hydrate"}
LogoutOn == \E x \in Exits : exit[x] # "idle"
RefreshOn == refresh.step # "idle"
LoadOn == load.step \notin {"hydrate", "done"}

\* At most one of them is under way.
OneTask ==
    /\ LoginOn => ~LogoutOn /\ ~RefreshOn /\ ~LoadOn
    /\ LogoutOn => ~RefreshOn /\ ~LoadOn
    /\ RefreshOn => ~LoadOn

\* Nothing is left on the device; everything stored belongs to one visit.
Empty == [access |-> NoToken, refresh |-> NoToken, user |-> 0]
Whole(s, v) == s.user = v /\ s.access.visit = v /\ s.refresh.visit = v

\* The device at rest
SettledDevice ==
    /\ user = 0 => header = NoToken /\ stored = Empty
    /\ user # 0 => Whole(stored, user) /\ header.visit = user

\* What a login has written so far
Entering ==
    /\ user = 0
    /\ header = IF entry.step \in {"sent", "answered"} THEN NoToken ELSE entry.token
    /\ stored.access = IF entry.step \in {"refresh", "user", "set"} THEN entry.token ELSE NoToken
    /\ stored.refresh = IF entry.step \in {"user", "set"} THEN entry.token ELSE NoToken
    /\ stored.user = IF entry.step = "set" THEN entry.token.visit ELSE 0

\* What a logout has erased so far: others may be under way, none puts anything back
Leaving ==
    \A x \in Exits :
        /\ exit[x] \in {"user", "access", "refresh", "header"} => user = 0
        /\ exit[x] \in {"access", "refresh", "header"} => stored.user = 0
        /\ exit[x] \in {"refresh", "header"} => stored.access = NoToken
        /\ exit[x] = "header" => stored.refresh = NoToken

\* What loadStoredAuth has read so far
Loading ==
    /\ user = 0 /\ header = NoToken
    /\ stored = Empty \/ (stored.user # 0 /\ Whole(stored, stored.user))
    /\ load.step \in {"token", "set"} => load.user = stored.user
    /\ load.step = "set" => load.token = stored.access /\ load.user # 0

\* A refresh renews the tokens of the user that is shown.
Renewing ==
    /\ refresh.step \in {"sent", "answered", "refresh"} => user # 0 /\ refresh.token.visit = user
    /\ refresh.step = "sent" => refresh.token = stored.refresh

\* While storage worked, no task was cut short and no two overlapped
Undisturbed ==
    /\ OneTask
    /\ ~LoginOn /\ ~LogoutOn /\ ~LoadOn => SettledDevice
    /\ LoginOn => Entering
    /\ LoadOn => Loading
    /\ Leaving
    /\ Renewing

\* While nothing failed at all, the device holds the newest refresh token of its visit, or is
\* about to store it.
Newest(t) == t.gen = issued[t.visit]
Current ==
    /\ stored.refresh # NoToken /\ refresh.step \notin {"answered", "refresh"} => Newest(stored.refresh)
    /\ refresh.step \in {"answered", "refresh"} => Newest(refresh.token)
    /\ LoginOn /\ entry.step # "sent" => Newest(entry.token)

\* Each variable keeps its shape; requests and tasks have the tokens their step needs, and a
\* request that was sent again has one that is still accepted.
CallRecord == [step : {"idle", "sent", "refused", "waiting"}, token : Tokens0, retried : BOOLEAN]
RefreshRecord == [step : {"idle", "read", "sent", "answered", "refresh"}, token : Tokens0]
EntryRecord ==
    [step : {"idle", "sent", "answered", "access", "refresh", "user", "set", "hydrate"}, token : Tokens0]
LoadRecord == [step : {"user", "token", "set", "hydrate", "done"}, user : 0..MaxVisits, token : Tokens0]
StoredRecord == [access : Tokens0, refresh : Tokens0, user : 0..MaxVisits]
ExitSteps == {"idle", "read", "post", "clear", "user", "access", "refresh", "header"}

CallFit(k, ex) ==
    /\ k.step = "sent" => k.token # NoToken
    /\ k.retried => k.step = "waiting" \/ (k.step = "sent" /\ k.token.gen > ex[k.token.visit])
RefreshFit(r, ex) ==
    /\ r.step \in {"sent", "answered", "refresh"} => r.token # NoToken
    /\ r.step \in {"answered", "refresh"} => r.token.gen > ex[r.token.visit]

ServerFit ==
    /\ issued \in [Visits -> 0..MaxRotation] /\ live \in SUBSET Visits
    /\ expired \in [Visits -> 0..MaxRotation] /\ \A v \in Visits : expired[v] <= issued[v]
CredentialsFit == header \in Tokens0 /\ stored \in StoredRecord /\ user \in 0..MaxVisits
CallsFit == call \in [Calls -> CallRecord] /\ \A c \in Calls : CallFit(call[c], expired)
TasksFit ==
    /\ refresh \in RefreshRecord /\ RefreshFit(refresh, expired)
    /\ exit \in [Exits -> ExitSteps]
    /\ entry \in EntryRecord /\ (entry.step \notin {"idle", "sent"} => entry.token # NoToken)
    /\ load \in LoadRecord /\ (load.step = "set" => load.token # NoToken)
FlagsFit == beat \in BOOLEAN /\ recent \in BOOLEAN /\ trouble \in {"none", "network", "worse"}

\* The inductive invariant of ClientAuth
DeviceFit == ServerFit /\ CredentialsFit /\ CallsFit /\ TasksFit
ClientIInv ==
    /\ DeviceFit /\ FlagsFit /\ Watched
    /\ trouble # "worse" => Undisturbed
    /\ trouble = "none" => Current

------------------------------------------------------------------------------
(* ClientAuth: shapes                                                       *)

\* A token has a visit and a generation; no token is neither.
LEMMA TokenIs ==
    /\ NoToken.visit = 0 /\ NoToken.gen = 0 /\ NoToken \notin Token /\ NoToken \in Tokens0
    /\ \A t \in Tokens0 : t.visit \in 0..MaxVisits /\ (t # NoToken => t \in Token /\ t.visit \in Visits /\ t.gen \in 1..MaxRotation)
    /\ \A t \in Tokens0 : t.visit # 0 => t # NoToken
    /\ \A t \in Token : t \in Tokens0 /\ t # NoToken
<1>1. NoToken.visit = 0 /\ NoToken.gen = 0 /\ NoToken \in Tokens0
  BY DEF NoToken, Tokens0
<1>2. \A t \in Token : t.visit \in Visits /\ t.gen \in 1..MaxRotation /\ t \in Tokens0
  BY DEF Token, Tokens0
<1>3. \A v \in Visits : v # 0 /\ v \in 0..MaxVisits
  BY ClientAssumption DEF Visits
<1>4. 0 \in 0..MaxVisits
  BY ClientAssumption
<1>5. \A t \in Tokens0 : t = NoToken \/ t \in Token
  BY DEF Tokens0
<1>6. NoToken \notin Token
  BY <1>1, <1>2, <1>3
<1> QED BY <1>1, <1>2, <1>3, <1>4, <1>5, <1>6

\* The records a task or a request starts from
LEMMA StartRecords ==
    /\ NoCall \in CallRecord /\ NoCall.step = "idle" /\ NoCall.token = NoToken /\ NoCall.retried = FALSE
    /\ \A ex : CallFit(NoCall, ex)
    /\ NoRefresh \in RefreshRecord /\ NoRefresh.step = "idle" /\ \A ex : RefreshFit(NoRefresh, ex)
    /\ Outside \in EntryRecord /\ Outside.step = "idle"
    /\ Unloaded \in LoadRecord /\ Unloaded.step = "user" /\ Unloaded.user = 0 /\ Unloaded.token = NoToken
    /\ Empty \in StoredRecord
<1>1. NoToken \in Tokens0 /\ 0 \in 0..MaxVisits
  BY TokenIs, ClientAssumption
<1>2. /\ NoCall \in CallRecord /\ NoCall.step = "idle" /\ NoCall.token = NoToken /\ NoCall.retried = FALSE
      /\ \A ex : CallFit(NoCall, ex)
  BY <1>1 DEF NoCall, CallRecord, CallFit
<1>3. NoRefresh \in RefreshRecord /\ NoRefresh.step = "idle" /\ \A ex : RefreshFit(NoRefresh, ex)
  BY <1>1 DEF NoRefresh, RefreshRecord, RefreshFit
<1>4. Outside \in EntryRecord /\ Outside.step = "idle"
  BY <1>1 DEF Outside, EntryRecord
<1>5. Unloaded \in LoadRecord /\ Unloaded.step = "user" /\ Unloaded.user = 0 /\ Unloaded.token = NoToken
  BY <1>1 DEF Unloaded, LoadRecord
<1>6. Empty \in StoredRecord
  BY <1>1 DEF Empty, StoredRecord
<1> QED BY <1>2, <1>3, <1>4, <1>5, <1>6

\* The invariant has the type invariant and the two parts of DeviceInv in it.
LEMMA DeviceTypes == DeviceFit /\ FlagsFit => ClientTypeOK
BY DEF DeviceFit, FlagsFit, ServerFit, CredentialsFit, CallsFit, TasksFit, ClientTypeOK, CallFit,
       CallRecord, RefreshRecord, EntryRecord, LoadRecord, StoredRecord, ExitSteps

------------------------------------------------------------------------------
(* ClientAuth: every action keeps the shapes                                *)

\* One logout moves on.
LEMMA ExitMoves ==
    ASSUME DeviceFit, NEW x \in Exits, NEW s \in ExitSteps, exit' = [exit EXCEPT ![x] = s]
    PROVE  /\ exit' \in [Exits -> ExitSteps]
           /\ exit'[x] = s /\ \A y \in Exits : y # x => exit'[y] = exit[y]
BY DEF DeviceFit, TasksFit

\* One request moves on.
LEMMA CallMoves ==
    ASSUME DeviceFit, NEW c \in Calls, NEW k \in CallRecord, CallFit(k, expired),
           call' = [call EXCEPT ![c] = k], UNCHANGED expired
    PROVE  CallsFit' /\ call'[c] = k /\ \A e \in Calls : e # c => call'[e] = call[e]
BY DEF DeviceFit, CallsFit

\* A forced logout clears tokens and header and begins a logout, or does nothing.
LEMMA ForcedFit ==
    ASSUME DeviceFit, ForceLogout, UNCHANGED user
    PROVE  CredentialsFit' /\ exit' \in [Exits -> ExitSteps]
<1>1. CASE recent
  BY <1>1 DEF ForceLogout, DeviceFit, CredentialsFit, TasksFit
<1>2. CASE ~recent
  <2>1. header' \in Tokens0 /\ stored' \in StoredRecord
    BY <1>2, TokenIs DEF ForceLogout, DeviceFit, CredentialsFit, StoredRecord
  <2>2. exit' \in [Exits -> ExitSteps]
    BY <1>2 DEF ForceLogout, Enter, DeviceFit, TasksFit, ExitSteps
  <2> QED BY <2>1, <2>2 DEF DeviceFit, CredentialsFit
<1> QED BY <1>1, <1>2

LEMMA LogoutFit ==
    ASSUME DeviceFit, NEW x \in Exits,
           \/ LogOut(x) \/ SendLogout(x) \/ LogoutAnswered(x) \/ ClearState(x) \/ Erase(x)
           \/ EraseFails(x) \/ DropHeader(x) \/ LoadExpired(x)
    PROVE  DeviceFit'
<1>1. PICK s \in ExitSteps : exit' = [exit EXCEPT ![x] = s]
  BY DEF LogOut, SendLogout, LogoutAnswered, ClearState, Erase, EraseFails, DropHeader, LoadExpired,
         Enter, Onward, ExitSteps
<1>2. exit' \in [Exits -> ExitSteps]
  BY <1>1, ExitMoves
<1>3. UNCHANGED <<issued, expired, call, refresh, entry>> /\ live' \subseteq live
  BY DEF LogOut, SendLogout, LogoutAnswered, ClearState, Erase, EraseFails, DropHeader, LoadExpired,
         server, credentials
<1>4. CredentialsFit'
  <2>1. CASE LogOut(x) \/ SendLogout(x) \/ LogoutAnswered(x) \/ EraseFails(x) \/ LoadExpired(x)
    BY <2>1 DEF LogOut, SendLogout, LogoutAnswered, EraseFails, LoadExpired, credentials, DeviceFit, CredentialsFit
  <2>2. CASE ClearState(x)
    BY <2>2, ClientAssumption DEF ClearState, DeviceFit, CredentialsFit
  <2>3. CASE Erase(x)
    BY <2>3, ClientAssumption, TokenIs DEF Erase, DeviceFit, CredentialsFit, StoredRecord
  <2>4. CASE DropHeader(x)
    BY <2>4, TokenIs DEF DropHeader, DeviceFit, CredentialsFit
  <2> QED BY <2>1, <2>2, <2>3, <2>4
<1>5. load' \in LoadRecord /\ (load'.step = "set" => load'.token # NoToken)
  <2>1. CASE LoadExpired(x)
    BY <2>1, StartRecords DEF LoadExpired, LoadRecord
  <2>2. CASE ~LoadExpired(x)
    BY <2>2 DEF LogOut, SendLogout, LogoutAnswered, ClearState, Erase, EraseFails, DropHeader, DeviceFit, TasksFit
  <2> QED BY <2>1, <2>2
<1>6. ServerFit'
  BY <1>3 DEF DeviceFit, ServerFit
<1>7. CallsFit'
  BY <1>3 DEF DeviceFit, CallsFit
<1>8. TasksFit'
  BY <1>2, <1>3, <1>5 DEF DeviceFit, TasksFit
<1> QED BY <1>4, <1>6, <1>7, <1>8 DEF DeviceFit

LEMMA LoginFit ==
    ASSUME DeviceFit, LogIn \/ Admit \/ LoginFails \/ Establish \/ EstablishFails \/ Hydrate
    PROVE  DeviceFit'
<1>1. UNCHANGED <<expired, call, refresh, exit>>
  BY DEF LogIn, Admit, LoginFails, Establish, EstablishFails, Hydrate, server
<1>2. CallsFit'
  BY <1>1 DEF DeviceFit, CallsFit
<1>3. ServerFit'
  <2>1. CASE Admit
    <3>1. PICK v \in Visits : issued[v] = 0 /\ issued' = [issued EXCEPT ![v] = 1] /\ live' \in {live \cup {v}, {v}}
      BY <2>1 DEF Admit
    <3>2. 1 \in 0..MaxRotation
      BY ClientAssumption
    <3>3. live' \in SUBSET Visits
      BY <3>1 DEF DeviceFit, ServerFit
    <3>4. issued' \in [Visits -> 0..MaxRotation] /\ \A w \in Visits : w # v => issued'[w] = issued[w]
      BY <3>1, <3>2 DEF DeviceFit, ServerFit
    <3>5. issued'[v] = 1 /\ expired[v] <= 0
      BY <3>1 DEF DeviceFit, ServerFit
    <3>6. \A w \in Visits : expired[w] <= issued'[w]
      BY <3>4, <3>5 DEF DeviceFit, ServerFit
    <3> QED BY <1>1, <3>3, <3>4, <3>6 DEF DeviceFit, ServerFit
  <2>2. CASE ~Admit
    <3>1. UNCHANGED server
      BY <2>2 DEF LogIn, LoginFails, Establish, EstablishFails, Hydrate
    <3> QED BY <3>1 DEF server, DeviceFit, ServerFit
  <2> QED BY <2>1, <2>2
<1>4. entry' \in EntryRecord /\ (entry'.step \notin {"idle", "sent"} => entry'.token # NoToken)
  <2>1. CASE LogIn
    BY <2>1, StartRecords DEF LogIn, EntryRecord
  <2>2. CASE Admit
    <3>1. PICK v \in Visits : entry' = [step |-> "answered", token |-> [visit |-> v, gen |-> 1]]
      BY <2>2 DEF Admit
    <3>2. [visit |-> v, gen |-> 1] \in Token
      BY ClientAssumption DEF Token
    <3> QED BY <3>1, <3>2, TokenIs DEF EntryRecord
  <2>3. CASE LoginFails \/ EstablishFails
    BY <2>3, StartRecords DEF LoginFails, EstablishFails
  <2>4. CASE Establish
    BY <2>4 DEF Establish, DeviceFit, TasksFit, EntryRecord
  <2>5. CASE Hydrate
    BY <2>5, StartRecords DEF Hydrate, DeviceFit, TasksFit
  <2> QED BY <2>1, <2>2, <2>3, <2>4, <2>5
<1>5. load' \in LoadRecord /\ (load'.step = "set" => load'.token # NoToken)
  BY DEF LogIn, Admit, LoginFails, Establish, EstablishFails, Hydrate, DeviceFit, TasksFit, LoadRecord
<1>6. CredentialsFit'
  <2>1. CASE Establish
    <3>1. entry.token \in Tokens0 /\ entry.token.visit \in 0..MaxVisits
      BY TokenIs DEF DeviceFit, TasksFit, EntryRecord
    <3> QED BY <2>1, <3>1 DEF Establish, DeviceFit, CredentialsFit, StoredRecord
  <2>2. CASE ~Establish
    BY <2>2 DEF LogIn, Admit, LoginFails, EstablishFails, Hydrate, credentials, DeviceFit, CredentialsFit
  <2> QED BY <2>1, <2>2
<1>7. TasksFit'
  BY <1>1, <1>4, <1>5 DEF DeviceFit, TasksFit
<1> QED BY <1>2, <1>3, <1>6, <1>7 DEF DeviceFit

LEMMA LoadFit ==
    ASSUME DeviceFit, ReadStored \/ ReadStoredFails \/ Restore
    PROVE  DeviceFit'
<1>1. UNCHANGED <<issued, live, expired, stored, call, refresh, exit, entry>>
  BY DEF ReadStored, ReadStoredFails, Restore, server, credentials
<1>2. ServerFit' /\ CallsFit'
  BY <1>1 DEF DeviceFit, ServerFit, CallsFit
<1>3. CredentialsFit'
  BY <1>1 DEF ReadStored, ReadStoredFails, Restore, credentials, DeviceFit, CredentialsFit, TasksFit, LoadRecord
<1>4. load' \in LoadRecord /\ (load'.step = "set" => load'.token # NoToken)
  <2>1. ASSUME NEW u \in 0..MaxVisits, NEW t \in Tokens0, Got(u, t)
        PROVE  load' \in LoadRecord /\ (load'.step = "set" => load'.token # NoToken)
    BY <2>1, StartRecords DEF Got, DeviceFit, TasksFit, LoadRecord
  <2>2. CASE ReadStored
    BY <2>1, <2>2 DEF ReadStored, DeviceFit, CredentialsFit, StoredRecord
  <2>3. CASE ReadStoredFails
    BY <2>1, <2>3, TokenIs, ClientAssumption DEF ReadStoredFails
  <2>4. CASE Restore
    BY <2>4, StartRecords DEF Restore, LoadRecord
  <2> QED BY <2>2, <2>3, <2>4
<1>5. TasksFit'
  BY <1>1, <1>4 DEF DeviceFit, TasksFit
<1> QED BY <1>2, <1>3, <1>5 DEF DeviceFit

\* A request: sent, answered, refused; a refused one has not been sent again before.
LEMMA RequestFit ==
    ASSUME DeviceFit, NEW c \in Calls, Call(c) \/ Answer(c) \/ AnswerLost(c) \/ Unauthorized(c)
    PROVE  /\ DeviceFit'
           /\ Unauthorized(c) =>
                /\ UNCHANGED <<header, stored, exit, beat, recent>>
                /\ refresh' = IF refresh.step = "idle" THEN [NoRefresh EXCEPT !.step = "read"] ELSE refresh
<1>1. PICK k : k = call[c]
  OBVIOUS
<1>2. k \in CallRecord /\ CallFit(k, expired)
  BY <1>1 DEF DeviceFit, CallsFit
<1>3. UNCHANGED <<issued, live, expired, user, entry, load>>
  BY DEF Call, Answer, AnswerLost, Unauthorized, server, credentials
<1>4. ServerFit'
  BY <1>3 DEF DeviceFit, ServerFit
<1>5. CASE Call(c)
  <2>1. PICK t \in Tokens0 : t # NoToken /\ call' = [call EXCEPT ![c].step = "sent", ![c].token = t]
    BY <1>5 DEF Call, DeviceFit, CredentialsFit, StoredRecord
  <2>2. PICK n : n = [k EXCEPT !.step = "sent", !.token = t]
    OBVIOUS
  <2>3. k.step = "idle"
    BY <1>1, <1>5 DEF Call
  <2>4. n \in CallRecord /\ n.step = "sent" /\ n.token = t /\ n.retried = k.retried
    BY <1>2, <2>2 DEF CallRecord
  <2>5. k.retried = FALSE
    BY <1>2, <2>3 DEF CallRecord, CallFit
  <2>6. CallFit(n, expired)
    BY <2>1, <2>4, <2>5 DEF CallFit
  <2>7. DOMAIN call = Calls
    BY DEF DeviceFit, CallsFit
  <2>8. call' = [call EXCEPT ![c] = n]
    BY <1>1, <2>1, <2>2, <2>7
  <2>9. CallsFit'
    BY <1>3, <2>4, <2>6, <2>8, CallMoves
  <2>10. UNCHANGED <<header, stored, refresh, exit>> /\ ~Unauthorized(c)
    BY <1>1, <1>5, <2>3 DEF Call, Unauthorized, credentials
  <2>11. CredentialsFit' /\ TasksFit'
    BY <1>3, <2>10 DEF DeviceFit, CredentialsFit, TasksFit
  <2> QED BY <1>4, <2>9, <2>10, <2>11 DEF DeviceFit
<1>6. CASE Answer(c) \/ AnswerLost(c)
  <2>1. k.step = "sent"
    BY <1>1, <1>6 DEF Answer, AnswerLost
  <2>2. CallsFit'
    <3>1. CASE Ends(c)
      BY <1>3, <3>1, CallMoves, StartRecords DEF Ends
    <3>2. CASE Goes(c, "refused") /\ ~Accepted(k.token)
      <4>1. PICK n : n = [k EXCEPT !.step = "refused", !.token = NoToken]
        OBVIOUS
      <4>2. n \in CallRecord /\ n.step = "refused" /\ n.retried = k.retried
        BY <1>2, <4>1, TokenIs DEF CallRecord
      <4>3. k.retried = FALSE
        BY <1>2, <2>1, <3>2 DEF CallRecord, CallFit, Accepted
      <4>4. CallFit(n, expired)
        BY <4>2, <4>3 DEF CallFit
      <4>5. DOMAIN call = Calls
        BY DEF DeviceFit, CallsFit
      <4>6. call' = [call EXCEPT ![c] = n]
        BY <1>1, <3>2, <4>1, <4>5 DEF Goes
      <4> QED BY <1>3, <4>2, <4>4, <4>6, CallMoves
    <3> QED BY <1>1, <1>6, <3>1, <3>2 DEF Answer, AnswerLost
  <2>3. UNCHANGED <<header, stored, refresh, exit>> /\ ~Unauthorized(c)
    BY <1>1, <1>6, <2>1 DEF Answer, AnswerLost, Unauthorized, credentials
  <2>4. CredentialsFit' /\ TasksFit'
    BY <1>3, <2>3 DEF DeviceFit, CredentialsFit, TasksFit
  <2> QED BY <1>4, <2>2, <2>3, <2>4 DEF DeviceFit
<1>7. CASE Unauthorized(c)
  <2>1. k.retried = FALSE
    BY <1>1, <1>2, <1>7 DEF Unauthorized, CallRecord, CallFit
  <2>2. /\ call' = [call EXCEPT ![c] = [NoCall EXCEPT !.step = "waiting", !.retried = TRUE]]
        /\ refresh' = IF refresh.step = "idle" THEN [NoRefresh EXCEPT !.step = "read"] ELSE refresh
        /\ UNCHANGED <<header, stored, exit, beat, recent>>
    BY <1>1, <1>7, <2>1 DEF Unauthorized
  <2>3. PICK n : n = [NoCall EXCEPT !.step = "waiting", !.retried = TRUE]
    OBVIOUS
  <2>4. n \in CallRecord /\ CallFit(n, expired)
    BY <2>3, StartRecords DEF CallRecord, CallFit
  <2>5. CallsFit'
    BY <1>3, <2>2, <2>3, <2>4, CallMoves
  <2>6. refresh' \in RefreshRecord /\ RefreshFit(refresh', expired')
    BY <1>3, <2>2, StartRecords DEF RefreshRecord, RefreshFit, DeviceFit, TasksFit
  <2>7. CredentialsFit' /\ TasksFit'
    BY <1>3, <2>2, <2>6 DEF DeviceFit, CredentialsFit, TasksFit
  <2> QED BY <1>4, <2>2, <2>5, <2>7 DEF DeviceFit
<1> QED BY <1>5, <1>6, <1>7

\* The refresh comes to nothing.
LEMMA GiveUpFit ==
    ASSUME DeviceFit, GiveUp, UNCHANGED <<issued, live, expired, user, entry, load>>
    PROVE  DeviceFit'
<1>1. call' = [c \in Calls |-> IF call[c].step = "waiting" THEN NoCall ELSE call[c]]
  BY DEF GiveUp
<1>2. CallsFit'
  BY <1>1, StartRecords DEF DeviceFit, CallsFit
<1>3. refresh' \in RefreshRecord /\ RefreshFit(refresh', expired')
  BY StartRecords DEF GiveUp
<1>4. CredentialsFit' /\ exit' \in [Exits -> ExitSteps]
  BY ForcedFit DEF GiveUp
<1>5. ServerFit'
  BY DEF DeviceFit, ServerFit
<1>6. TasksFit'
  BY <1>3, <1>4 DEF DeviceFit, TasksFit
<1> QED BY <1>2, <1>4, <1>5, <1>6 DEF DeviceFit

LEMMA RefreshStepFit ==
    ASSUME DeviceFit,
           \/ ReadRefreshToken \/ ReadFails \/ Rotate \/ RefreshRefused \/ RefreshLost
           \/ StoreAccess \/ StoreRefresh \/ KeepFails
    PROVE  DeviceFit'
<1>1. UNCHANGED <<expired, user, entry, load>>
  BY DEF ReadRefreshToken, ReadFails, Rotate, RefreshRefused, RefreshLost, StoreAccess, StoreRefresh,
         KeepFails, server, credentials
<1>2. refresh \in RefreshRecord /\ RefreshFit(refresh, expired)
  BY DEF DeviceFit, TasksFit
<1>3. CASE GiveUp /\ UNCHANGED server
  BY <1>1, <1>3, GiveUpFit DEF server
<1>4. CASE ReadRefreshToken /\ stored.refresh # NoToken
  <2>1. UNCHANGED <<issued, live, header, stored, call, exit>> /\ refresh' = [step |-> "sent", token |-> stored.refresh]
    BY <1>4 DEF ReadRefreshToken, server
  <2>2. stored.refresh \in Tokens0
    BY DEF DeviceFit, CredentialsFit, StoredRecord
  <2>3. refresh' \in RefreshRecord /\ RefreshFit(refresh', expired')
    BY <1>4, <2>1, <2>2 DEF RefreshRecord, RefreshFit
  <2> QED BY <1>1, <2>1, <2>3 DEF DeviceFit, ServerFit, CredentialsFit, CallsFit, TasksFit
<1>5. CASE Rotate
  <2>1. PICK t \in Token : t = refresh.token
    BY <1>2, <1>5, TokenIs DEF Rotate, RefreshFit, RefreshRecord
  <2>2. PICK next : next = [t EXCEPT !.gen = t.gen + 1]
    OBVIOUS
  <2>3. t.visit \in Visits /\ t.gen = issued[t.visit] /\ t.gen < MaxRotation /\ t.gen \in Nat
    BY <1>5, <2>1, TokenIs DEF Rotate, Honoured, Token
  <2>4. next \in Token /\ next.visit = t.visit /\ next.gen = t.gen + 1
    BY <2>1, <2>2, <2>3, ClientAssumption DEF Token
  <2>5. issued' = [issued EXCEPT ![next.visit] = next.gen] /\ refresh' = [step |-> "answered", token |-> next]
        /\ UNCHANGED <<live, header, stored, call, exit>>
    BY <1>5, <2>1, <2>2 DEF Rotate, credentials
  <2>6. issued' \in [Visits -> 0..MaxRotation] /\ issued'[t.visit] = t.gen + 1
        /\ \A w \in Visits : w # t.visit => issued'[w] = issued[w]
    BY <2>3, <2>4, <2>5, ClientAssumption DEF DeviceFit, ServerFit
  <2>7. expired \in [Visits -> 0..MaxRotation] /\ expired[t.visit] <= t.gen
    BY <2>3 DEF DeviceFit, ServerFit
  <2>8. \A w \in Visits : expired[w] <= issued'[w]
    BY <2>3, <2>6, <2>7 DEF DeviceFit, ServerFit
  <2>9. refresh' \in RefreshRecord /\ RefreshFit(refresh', expired')
    <3>1. next # NoToken /\ next \in Tokens0 /\ next.gen > expired[next.visit]
      BY <2>3, <2>4, <2>7, TokenIs
    <3> QED BY <1>1, <2>5, <3>1 DEF RefreshRecord, RefreshFit
  <2>10. ServerFit'
    BY <1>1, <2>5, <2>6, <2>8 DEF DeviceFit, ServerFit
  <2> QED BY <1>1, <2>5, <2>9, <2>10 DEF DeviceFit, CredentialsFit, CallsFit, TasksFit
<1>6. CASE StoreAccess
  <2>1. refresh.token \in Tokens0 /\ UNCHANGED <<issued, live, call, exit>>
    BY <1>2, <1>6 DEF StoreAccess, RefreshRecord, server
  <2>2. CredentialsFit'
    BY <1>1, <1>6, <2>1 DEF StoreAccess, DeviceFit, CredentialsFit, StoredRecord
  <2>3. refresh' \in RefreshRecord /\ RefreshFit(refresh', expired')
    BY <1>1, <1>2, <1>6 DEF StoreAccess, RefreshRecord, RefreshFit
  <2> QED BY <1>1, <2>1, <2>2, <2>3 DEF DeviceFit, ServerFit, CallsFit, TasksFit
<1>7. CASE StoreRefresh
  <2>1. PICK t \in Tokens0 : t = refresh.token /\ t # NoToken /\ t.gen > expired[t.visit]
    BY <1>2, <1>7 DEF StoreRefresh, RefreshRecord, RefreshFit
  <2>2. /\ refresh' = NoRefresh /\ UNCHANGED <<issued, live, header, exit>>
        /\ call' = [c \in Calls |-> IF call[c].step = "waiting"
                                       THEN [call[c] EXCEPT !.step = "sent", !.token = t] ELSE call[c]]
    BY <1>7, <2>1 DEF StoreRefresh, Resume, server
  <2>3. \A c \in Calls : call'[c] \in CallRecord /\ CallFit(call'[c], expired)
    <3> SUFFICES ASSUME NEW c \in Calls PROVE call'[c] \in CallRecord /\ CallFit(call'[c], expired)
      OBVIOUS
    <3>1. call[c] \in CallRecord /\ CallFit(call[c], expired)
      BY DEF DeviceFit, CallsFit
    <3>2. PICK n : n = [call[c] EXCEPT !.step = "sent", !.token = t]
      OBVIOUS
    <3>3. n \in CallRecord /\ n.step = "sent" /\ n.token = t
      BY <3>1, <3>2 DEF CallRecord
    <3>4. CallFit(n, expired)
      BY <2>1, <3>3 DEF CallFit
    <3> QED BY <2>2, <3>1, <3>2, <3>3, <3>4
  <2>4. CallsFit'
    BY <1>1, <2>2, <2>3 DEF CallsFit
  <2>5. CredentialsFit'
    BY <1>1, <1>7, <2>1, <2>2 DEF StoreRefresh, DeviceFit, CredentialsFit, StoredRecord
  <2>6. TasksFit'
    BY <1>1, <2>2, StartRecords DEF DeviceFit, TasksFit
  <2> QED BY <1>1, <2>2, <2>4, <2>5, <2>6 DEF DeviceFit, ServerFit
<1> QED BY <1>3, <1>4, <1>5, <1>6, <1>7
         DEF ReadRefreshToken, ReadFails, RefreshRefused, RefreshLost, KeepFails

LEMMA WorldFit ==
    ASSUME DeviceFit, Tick \/ DebounceEnds \/ Restart \/ \E v \in Visits : AccessExpires(v) \/ Revoke(v)
    PROVE  DeviceFit'
<1>1. CASE Tick \/ DebounceEnds
  BY <1>1 DEF Tick, DebounceEnds, server, credentials, DeviceFit, ServerFit, CredentialsFit, CallsFit, TasksFit
<1>2. CASE Restart
  <2>1. UNCHANGED <<issued, live, expired, stored>>
    BY <1>2 DEF Restart, server
  <2>2. ServerFit'
    BY <2>1 DEF DeviceFit, ServerFit
  <2>3. CredentialsFit'
    BY <1>2, <2>1, TokenIs, ClientAssumption DEF Restart, DeviceFit, CredentialsFit
  <2>4. CallsFit'
    BY <1>2, StartRecords DEF Restart, CallsFit
  <2>5. TasksFit'
    BY <1>2, StartRecords DEF Restart, TasksFit, ExitSteps
  <2> QED BY <2>2, <2>3, <2>4, <2>5 DEF DeviceFit
<1>3. ASSUME NEW v \in Visits, Revoke(v) PROVE DeviceFit'
  BY <1>3 DEF Revoke, credentials, DeviceFit, ServerFit, CredentialsFit, CallsFit, TasksFit
<1>4. ASSUME NEW v \in Visits, AccessExpires(v) PROVE DeviceFit'
  <2>1. UNCHANGED <<issued, live, header, stored, user, call, refresh, exit, entry, load>>
    BY <1>4 DEF AccessExpires, credentials
  <2>2. expired' = [expired EXCEPT ![v] = expired[v] + 1] /\ expired[v] < issued[v]
    BY <1>4 DEF AccessExpires
  <2>3. /\ expired' \in [Visits -> 0..MaxRotation] /\ expired'[v] = expired[v] + 1
        /\ \A w \in Visits : w # v => expired'[w] = expired[w]
        /\ \A w \in Visits : expired'[w] <= issued[w]
    BY <2>2, ClientAssumption DEF DeviceFit, ServerFit
  <2>4. ASSUME NEW t \in Token, t.gen > expired[t.visit], t # [visit |-> v, gen |-> expired[v] + 1]
        PROVE  t.gen > expired'[t.visit]
    <3>1. t.visit \in Visits /\ t.gen \in Nat /\ t = [visit |-> t.visit, gen |-> t.gen] /\ expired[v] \in Nat
      BY <2>2 DEF Token, DeviceFit, ServerFit
    <3>2. CASE t.visit = v
      BY <2>3, <2>4, <3>1, <3>2
    <3>3. CASE t.visit # v
      BY <2>3, <2>4, <3>1, <3>3
    <3> QED BY <3>2, <3>3
  <2>5. RefreshFit(refresh, expired')
    BY <1>4, <2>4, TokenIs DEF AccessExpires, DeviceFit, TasksFit, RefreshFit, RefreshRecord
  <2>6. ASSUME NEW c \in Calls PROVE CallFit(call[c], expired')
    <3>1. call[c] \in CallRecord /\ CallFit(call[c], expired)
      BY DEF DeviceFit, CallsFit
    <3>2. call[c].retried => call[c].token # [visit |-> v, gen |-> expired[v] + 1]
      BY <1>4 DEF AccessExpires
    <3> QED BY <2>4, <3>1, <3>2, TokenIs DEF CallFit, CallRecord
  <2>7. CallsFit'
    BY <2>1, <2>6 DEF DeviceFit, CallsFit
  <2> QED BY <2>1, <2>3, <2>5, <2>7 DEF DeviceFit, ServerFit, CredentialsFit, TasksFit
<1> QED BY <1>1, <1>2, <1>3, <1>4

\* Every action, faults included
LEMMA ActionFit ==
    ASSUME DeviceFit, Sound \/ NetworkFault \/ DeviceFault
    PROVE  DeviceFit'
<1>1. ASSUME NEW c \in Calls, Call(c) \/ Answer(c) \/ AnswerLost(c) \/ Unauthorized(c) PROVE DeviceFit'
  BY <1>1, RequestFit
<1>2. CASE \E x \in Exits :
              \/ LogOut(x) \/ SendLogout(x) \/ LogoutAnswered(x) \/ ClearState(x) \/ Erase(x)
              \/ EraseFails(x) \/ DropHeader(x) \/ LoadExpired(x)
  BY <1>2, LogoutFit
<1>3. CASE LogIn \/ Admit \/ LoginFails \/ Establish \/ EstablishFails \/ Hydrate
  BY <1>3, LoginFit
<1>4. CASE ReadStored \/ ReadStoredFails \/ Restore
  BY <1>4, LoadFit
<1>5. CASE \/ ReadRefreshToken \/ ReadFails \/ Rotate \/ RefreshRefused \/ RefreshLost
           \/ StoreAccess \/ StoreRefresh \/ KeepFails
  BY <1>5, RefreshStepFit
<1>6. CASE Tick \/ DebounceEnds \/ Restart \/ \E v \in Visits : AccessExpires(v) \/ Revoke(v)
  BY <1>6, WorldFit
<1> QED BY <1>1, <1>2, <1>3, <1>4, <1>5, <1>6 DEF Sound, NetworkFault, DeviceFault

------------------------------------------------------------------------------
(* ClientAuth: whoever is logged in is watched                              *)

\* A logout that begins stops the timer, and clears the user three steps later.
LEMMA WatchedStep ==
    ASSUME DeviceFit, Watched, Sound \/ NetworkFault \/ DeviceFault
    PROVE  Watched'
<1>1. exit \in [Exits -> ExitSteps]
  BY DEF DeviceFit, TasksFit
<1>2. ASSUME NEW x \in Exits, Enter(x) PROVE Watched'
  BY <1>1, <1>2 DEF Enter, Watched
<1>3. CASE ForceLogout /\ UNCHANGED <<user, entry, load>>
  <2>1. CASE recent
    BY <1>3, <2>1 DEF ForceLogout, Watched
  <2>2. CASE ~recent
    BY <1>2, <1>3, <2>2 DEF ForceLogout
  <2> QED BY <2>1, <2>2
<1>4. ASSUME NEW x \in Exits,
             \/ LogOut(x) \/ SendLogout(x) \/ LogoutAnswered(x) \/ ClearState(x) \/ Erase(x)
             \/ EraseFails(x) \/ DropHeader(x) \/ LoadExpired(x)
      PROVE  Watched'
  <2>1. CASE LogOut(x) \/ LoadExpired(x)
    BY <1>2, <2>1 DEF LogOut, LoadExpired
  <2>2. CASE ClearState(x)
    BY <2>2 DEF ClearState, Watched
  <2>3. CASE SendLogout(x) \/ LogoutAnswered(x)
    <3>1. exit[x] \in {"read", "post"} /\ exit'[x] \in {"post", "clear"}
      BY <1>1, <2>3 DEF SendLogout, LogoutAnswered, Onward
    <3> QED BY <3>1 DEF Watched
  <2>4. CASE Erase(x) \/ EraseFails(x) \/ DropHeader(x)
    <3>1. exit[x] \in {"user", "access", "refresh", "header"} /\ UNCHANGED <<user, beat, entry, load>>
      BY <2>4 DEF Erase, EraseFails, DropHeader, Onward, credentials
    <3>2. \A y \in Exits : y # x => exit'[y] = exit[y]
      BY <1>1, <2>4 DEF Erase, EraseFails, DropHeader, Onward
    <3> QED BY <3>1, <3>2 DEF Watched
  <2> QED BY <1>4, <2>1, <2>2, <2>3, <2>4
<1>5. CASE LogIn \/ Admit \/ LoginFails \/ EstablishFails
  <2>1. UNCHANGED <<user, beat, exit, load>> /\ entry.step # "hydrate"
    BY <1>5 DEF LogIn, Admit, LoginFails, EstablishFails, credentials
  <2> QED BY <2>1 DEF Watched
<1>6. CASE Establish
  <2>1. UNCHANGED <<beat, exit, load>> /\ entry.step # "hydrate"
    BY <1>6 DEF Establish
  <2>2. UNCHANGED user \/ entry'.step = "hydrate"
    BY <1>6 DEF Establish, DeviceFit, TasksFit, EntryRecord
  <2> QED BY <2>1, <2>2 DEF Watched
<1>7. CASE Hydrate
  BY <1>7 DEF Hydrate, Watched
<1>8. CASE ReadStored \/ ReadStoredFails
  <2>1. UNCHANGED <<user, beat, exit, entry>> /\ load.step # "hydrate"
    BY <1>8 DEF ReadStored, ReadStoredFails, Got, credentials
  <2> QED BY <2>1 DEF Watched
<1>9. CASE Restore
  BY <1>9, StartRecords DEF Restore, Watched, LoadRecord
<1>10. ASSUME NEW c \in Calls, Call(c) \/ Answer(c) \/ AnswerLost(c) \/ Unauthorized(c) PROVE Watched'
  <2>1. UNCHANGED <<user, entry, load, exit, beat>>
    BY <1>10, RequestFit DEF Call, Answer, AnswerLost, Unauthorized, credentials
  <2> QED BY <2>1 DEF Watched
<1>11. CASE \/ ReadRefreshToken \/ ReadFails \/ Rotate \/ RefreshRefused \/ RefreshLost
            \/ StoreAccess \/ StoreRefresh \/ KeepFails
  <2>1. UNCHANGED <<user, entry, load>>
    BY <1>11 DEF ReadRefreshToken, ReadFails, Rotate, RefreshRefused, RefreshLost, StoreAccess,
                 StoreRefresh, KeepFails, credentials
  <2>2. ForceLogout \/ UNCHANGED <<exit, beat>>
    BY <1>11 DEF ReadRefreshToken, ReadFails, Rotate, RefreshRefused, RefreshLost, StoreAccess,
                 StoreRefresh, KeepFails, GiveUp
  <2>3. CASE UNCHANGED <<exit, beat>>
    BY <2>1, <2>3 DEF Watched
  <2> QED BY <1>3, <2>1, <2>2, <2>3
<1>12. CASE Tick \/ Restart
  BY <1>12 DEF Tick, Restart, credentials, Watched
<1>13. CASE DebounceEnds \/ \E v \in Visits : AccessExpires(v) \/ Revoke(v)
  BY <1>13 DEF DebounceEnds, AccessExpires, Revoke, credentials, Watched
<1> QED BY <1>4, <1>5, <1>6, <1>7, <1>8, <1>9, <1>10, <1>11, <1>12, <1>13
        DEF Sound, NetworkFault, DeviceFault

------------------------------------------------------------------------------
(* ClientAuth: undisturbed, the device acts for the user it shows           *)

\* The other tasks, when none of their variables moves
LEMMA LogoutCalm ==
    ASSUME DeviceFit, DeviceFit', Undisturbed, OneTask', NEW x \in Exits,
           \/ LogOut(x) \/ SendLogout(x) \/ LogoutAnswered(x) \/ ClearState(x) \/ Erase(x)
           \/ DropHeader(x) \/ LoadExpired(x)
    PROVE  Undisturbed'
<1>1. PICK s \in ExitSteps :
         /\ exit' = [exit EXCEPT ![x] = s]
         /\ s \in {"read", "post", "clear"} \/ (s \in {"user", "access", "refresh", "header", "idle"} /\ exit[x] # "idle")
  BY DEF LogOut, SendLogout, LogoutAnswered, ClearState, Erase, DropHeader, LoadExpired, Enter, Onward, ExitSteps
<1>2. exit'[x] = s /\ \A y \in Exits : y # x => exit'[y] = exit[y]
  BY <1>1, ExitMoves
<1>3. UNCHANGED <<refresh, entry>>
  BY DEF LogOut, SendLogout, LogoutAnswered, ClearState, Erase, DropHeader, LoadExpired
<1>4. /\ user' \in {user, 0} /\ header' \in {header, NoToken} /\ stored'.user \in {stored.user, 0}
      /\ stored'.access \in {stored.access, NoToken} /\ stored'.refresh \in {stored.refresh, NoToken}
  <2>1. CASE Erase(x)
    BY <2>1 DEF Erase, DeviceFit, CredentialsFit, StoredRecord
  <2>2. CASE ~Erase(x)
    BY <2>2 DEF LogOut, SendLogout, LogoutAnswered, ClearState, DropHeader, LoadExpired, credentials
  <2> QED BY <2>1, <2>2
<1>5. Leaving'
  <2>1. ASSUME NEW y \in Exits, y # x
        PROVE  /\ exit'[y] \in {"user", "access", "refresh", "header"} => user' = 0
               /\ exit'[y] \in {"access", "refresh", "header"} => stored'.user = 0
               /\ exit'[y] \in {"refresh", "header"} => stored'.access = NoToken
               /\ exit'[y] = "header" => stored'.refresh = NoToken
    BY <1>2, <1>4, <2>1 DEF Undisturbed, Leaving
  <2>2. /\ s \in {"user", "access", "refresh", "header"} => user' = 0
        /\ s \in {"access", "refresh", "header"} => stored'.user = 0
        /\ s \in {"refresh", "header"} => stored'.access = NoToken
        /\ s = "header" => stored'.refresh = NoToken
    <3>1. CASE LogOut(x) \/ SendLogout(x) \/ LogoutAnswered(x) \/ LoadExpired(x)
      <4>1. exit'[x] \in {"read", "post", "clear"}
        BY <3>1 DEF LogOut, SendLogout, LogoutAnswered, LoadExpired, Enter, Onward, DeviceFit, TasksFit
      <4> QED BY <1>2, <4>1
    <3>2. CASE ClearState(x)
      BY <1>2, <3>2 DEF ClearState, Onward, DeviceFit, TasksFit
    <3>3. CASE Erase(x)
      <4>1. stored \in StoredRecord /\ exit \in [Exits -> ExitSteps]
        BY DEF DeviceFit, CredentialsFit, TasksFit
      <4>2. UNCHANGED user
        BY <3>3 DEF Erase
      <4>3. CASE exit[x] = "user" /\ exit'[x] = "access" /\ stored' = [stored EXCEPT !.user = 0]
        BY <1>2, <4>1, <4>2, <4>3 DEF Undisturbed, Leaving, StoredRecord
      <4>4. CASE exit[x] = "access" /\ exit'[x] = "refresh" /\ stored' = [stored EXCEPT !.access = NoToken]
        BY <1>2, <4>1, <4>2, <4>4 DEF Undisturbed, Leaving, StoredRecord
      <4>5. CASE exit[x] = "refresh" /\ exit'[x] = "header" /\ stored' = [stored EXCEPT !.refresh = NoToken]
        BY <1>2, <4>1, <4>2, <4>5 DEF Undisturbed, Leaving, StoredRecord
      <4> QED BY <3>3, <4>1, <4>3, <4>4, <4>5 DEF Erase, Onward
    <3>4. CASE DropHeader(x)
      BY <1>2, <3>4 DEF DropHeader, Onward, DeviceFit, TasksFit
    <3> QED BY <3>1, <3>2, <3>3, <3>4
  <2> QED BY <1>2, <2>1, <2>2 DEF Leaving
<1>6. CASE LogoutOn'
  BY <1>5, <1>6 DEF Undisturbed, OneTask, Renewing, RefreshOn
<1>7. CASE ~LogoutOn'
  <2>1. exit'[x] = "idle" /\ \A y \in Exits : exit'[y] = "idle"
    BY <1>7 DEF LogoutOn
  <2>2. DropHeader(x) /\ exit[x] = "header"
    BY <1>2, <2>1 DEF LogOut, SendLogout, LogoutAnswered, ClearState, Erase, DropHeader, LoadExpired,
                      Enter, Onward, DeviceFit, TasksFit
  <2>3. user' = 0 /\ header' = NoToken /\ stored' = Empty
    <3>1. stored.user = 0 /\ stored.access = NoToken /\ stored.refresh = NoToken /\ user = 0
      BY <2>2 DEF Undisturbed, Leaving
    <3>2. stored = Empty
      BY <3>1 DEF DeviceFit, CredentialsFit, StoredRecord, Empty
    <3> QED BY <2>2, <3>1, <3>2 DEF DropHeader
  <2>4. LogoutOn
    BY <2>2 DEF LogoutOn
  <2>5. ~LoginOn /\ ~LoadOn /\ ~RefreshOn /\ UNCHANGED load
    BY <2>2, <2>4 DEF Undisturbed, OneTask, DropHeader
  <2>6. ~LoginOn' /\ ~LoadOn' /\ ~RefreshOn'
    BY <1>3, <2>5 DEF LoginOn, LoadOn, RefreshOn
  <2>7. SettledDevice'
    BY <2>3 DEF SettledDevice
  <2>8. Renewing'
    BY <2>6 DEF Renewing, RefreshOn
  <2> QED BY <1>5, <2>6, <2>7, <2>8 DEF Undisturbed
<1> QED BY <1>6, <1>7

\* A login starts on an empty device and writes its token everywhere.
LEMMA LoginCalm ==
    ASSUME DeviceFit, DeviceFit', Undisturbed, OneTask', LogIn \/ Admit \/ LoginFails \/ Establish \/ Hydrate
    PROVE  Undisturbed'
<1>1. UNCHANGED <<refresh, exit>>
  BY DEF LogIn, Admit, LoginFails, Establish, Hydrate
<1>2. stored \in StoredRecord /\ stored' \in StoredRecord /\ entry \in EntryRecord
  BY DEF DeviceFit, CredentialsFit, TasksFit
<1>3. CASE Hydrate
  <2>1. UNCHANGED <<header, stored, user>>
    BY <1>3 DEF Hydrate, credentials
  <2>2. (LoginOn' <=> LoginOn) /\ (LoadOn' <=> LoadOn) /\ (LogoutOn' <=> LogoutOn)
    BY <1>1, <1>3, StartRecords DEF Hydrate, LoginOn, LoadOn, LogoutOn, DeviceFit, TasksFit, LoadRecord
  <2>3. (LoginOn => UNCHANGED entry) /\ (LoadOn => UNCHANGED load)
    BY <1>3 DEF Hydrate, LoginOn, LoadOn
  <2> QED BY <1>1, <2>1, <2>2, <2>3 DEF Undisturbed, SettledDevice, Entering, Leaving, Loading, Renewing
<1>4. CASE LogIn
  <2>1. UNCHANGED <<header, stored, user, load>> /\ user = 0 /\ ~LoginOn /\ ~LoadOn
    BY <1>4 DEF LogIn, credentials, LoginOn, LoadOn
  <2>2. entry'.step = "sent"
    BY <1>4, StartRecords DEF LogIn, EntryRecord
  <2>3. LoginOn'
    BY <2>2 DEF LoginOn
  <2>4. ~LogoutOn' /\ ~RefreshOn' /\ ~LoadOn'
    BY <2>3 DEF OneTask
  <2>5. header = NoToken /\ stored = Empty
    BY <1>1, <2>1, <2>4 DEF Undisturbed, SettledDevice, LogoutOn
  <2>6. Entering'
    BY <2>1, <2>2, <2>5 DEF Entering, Empty
  <2> QED BY <1>1, <2>1, <2>3, <2>4, <2>6 DEF Undisturbed, Leaving, Renewing
<1>5. CASE Admit \/ LoginFails \/ Establish
  <2>1. LoginOn /\ UNCHANGED load
    BY <1>5 DEF Admit, LoginFails, Establish, LoginOn
  <2>2. Entering /\ ~LogoutOn /\ ~RefreshOn /\ ~LoadOn
    BY <2>1 DEF Undisturbed, OneTask
  <2>3. ~LogoutOn' /\ ~RefreshOn' /\ ~LoadOn'
    BY <1>1, <2>1, <2>2 DEF LogoutOn, RefreshOn, LoadOn
  <2>4. Leaving' /\ Renewing'
    BY <2>3 DEF Leaving, Renewing, LogoutOn, RefreshOn
  <2>5. (LoginOn' => Entering') /\ (~LoginOn' => SettledDevice')
    <3>1. CASE Admit
      <4>1. entry.step = "sent" /\ entry'.step = "answered" /\ UNCHANGED <<header, stored, user>>
        BY <3>1 DEF Admit, credentials
      <4> QED BY <2>2, <4>1 DEF Entering, LoginOn
    <3>2. CASE LoginFails
      <4>1. entry.step \in {"sent", "answered"} /\ entry'.step = "idle" /\ UNCHANGED <<header, stored, user>>
        BY <3>2, StartRecords DEF LoginFails, credentials
      <4>2. user = 0 /\ header = NoToken /\ stored = Empty
        BY <1>2, <2>2, <4>1 DEF Entering, StoredRecord, Empty
      <4> QED BY <4>1, <4>2 DEF SettledDevice, LoginOn
    <3>3. CASE Establish
      <4>1. PICK t : t = entry.token /\ entry'.token = t
        BY <1>2, <3>3 DEF Establish, EntryRecord
      <4>2. CASE /\ entry.step = "answered" /\ entry'.step = "access"
                 /\ header' = t /\ UNCHANGED <<stored, user>>
        BY <2>2, <4>1, <4>2 DEF Entering, LoginOn
      <4>3. CASE /\ entry.step = "access" /\ entry'.step = "refresh"
                 /\ stored' = [stored EXCEPT !.access = t] /\ UNCHANGED <<header, user>>
        BY <1>2, <2>2, <4>1, <4>3 DEF Entering, LoginOn, StoredRecord
      <4>4. CASE /\ entry.step = "refresh" /\ entry'.step = "user"
                 /\ stored' = [stored EXCEPT !.refresh = t] /\ UNCHANGED <<header, user>>
        BY <1>2, <2>2, <4>1, <4>4 DEF Entering, LoginOn, StoredRecord
      <4>5. CASE /\ entry.step = "user" /\ entry'.step = "set"
                 /\ stored' = [stored EXCEPT !.user = t.visit] /\ UNCHANGED <<header, user>>
        BY <1>2, <2>2, <4>1, <4>5 DEF Entering, LoginOn, StoredRecord
      <4>6. CASE /\ entry.step = "set" /\ entry'.step = "hydrate"
                 /\ user' = t.visit /\ UNCHANGED <<header, stored>>
        <5>1. t \in Tokens0 /\ t # NoToken
          BY <1>2, <4>1, <4>6 DEF DeviceFit, TasksFit, EntryRecord
        <5>2. t.visit # 0
          BY <5>1, TokenIs, ClientAssumption DEF Visits
        <5>3. header = t /\ Whole(stored, t.visit)
          BY <2>2, <4>1, <4>6 DEF Entering, Whole
        <5> QED BY <4>6, <5>2, <5>3 DEF SettledDevice, LoginOn
      <4> QED BY <1>2, <3>3, <4>1, <4>2, <4>3, <4>4, <4>5, <4>6 DEF Establish, EntryRecord
    <3> QED BY <1>5, <3>1, <3>2, <3>3
  <2> QED BY <2>3, <2>4, <2>5, <1>5 DEF Undisturbed
<1> QED BY <1>3, <1>4, <1>5

\* What loadStoredAuth reads is whole or nothing, and so is what it restores.
LEMMA LoadCalm ==
    ASSUME DeviceFit, DeviceFit', Undisturbed, OneTask', ReadStored \/ Restore
    PROVE  Undisturbed'
<1>1. UNCHANGED <<refresh, exit, entry, stored>> /\ LoadOn /\ load \in LoadRecord
  BY DEF ReadStored, Restore, Got, credentials, LoadOn, DeviceFit, TasksFit
<1>2. Loading /\ ~LoginOn /\ ~LogoutOn /\ ~RefreshOn
  BY <1>1 DEF Undisturbed, OneTask
<1>3. ~LoginOn' /\ ~LogoutOn' /\ ~RefreshOn'
  BY <1>1, <1>2 DEF LoginOn, LogoutOn, RefreshOn
<1>4. Leaving' /\ Renewing'
  BY <1>3 DEF Leaving, Renewing, LogoutOn, RefreshOn
<1>5. (LoadOn' => Loading') /\ (~LoadOn' => SettledDevice')
  <2>1. CASE Restore
    <3>1. load.step = "set" /\ header' = load.token /\ user' = load.user /\ ~LoadOn'
      BY <2>1, StartRecords DEF Restore, LoadOn, LoadRecord
    <3>2. load.token = stored.access /\ load.user = stored.user /\ load.user # 0
      BY <1>2, <3>1 DEF Loading
    <3>3. Whole(stored, stored.user)
      BY <1>2, <3>2 DEF Loading, Empty
    <3> QED BY <1>1, <3>1, <3>2, <3>3 DEF SettledDevice, Whole
  <2>2. CASE ReadStored
    <3>1. UNCHANGED <<header, user>> /\ Got(stored.user, stored.access)
      BY <2>2 DEF ReadStored, credentials
    <3>2. CASE load.step = "user"
      <4>1. load'.step = "token" /\ load'.user = stored.user
        BY <1>1, <3>1, <3>2 DEF Got, LoadRecord
      <4> QED BY <1>1, <1>2, <3>1, <4>1 DEF Loading, LoadOn
    <3>3. CASE load.step = "token" /\ load.user # 0 /\ stored.access # NoToken
      <4>1. load'.step = "set" /\ load'.user = load.user /\ load'.token = stored.access
        BY <1>1, <3>1, <3>3 DEF Got, LoadRecord
      <4> QED BY <1>1, <1>2, <3>1, <3>3, <4>1 DEF Loading, LoadOn
    <3>4. CASE load.step = "token" /\ ~(load.user # 0 /\ stored.access # NoToken)
      <4>1. load'.step = "done"
        BY <3>1, <3>4, StartRecords DEF Got, LoadRecord
      <4>2. stored = Empty
        BY <1>2, <3>4, TokenIs DEF Loading, Whole
      <4> QED BY <1>1, <1>2, <3>1, <4>1, <4>2 DEF Loading, SettledDevice, LoadOn
    <3> QED BY <3>1, <3>2, <3>3, <3>4 DEF Got
  <2> QED BY <2>1, <2>2
<1> QED BY <1>3, <1>4, <1>5 DEF Undisturbed

\* A refresh that comes to nothing ends in a logout, or leaves the device as it was.
LEMMA GiveUpCalm ==
    ASSUME DeviceFit, Undisturbed, OneTask', RefreshOn, GiveUp, UNCHANGED <<user, entry, load>>
    PROVE  Undisturbed'
<1>1. SettledDevice /\ ~LoginOn /\ ~LogoutOn /\ ~LoadOn
  BY DEF Undisturbed, OneTask
<1>2. ~LoginOn' /\ ~LoadOn' /\ ~RefreshOn'
  BY <1>1, StartRecords DEF GiveUp, LoginOn, LoadOn, RefreshOn
<1>3. Renewing'
  BY <1>2 DEF Renewing, RefreshOn
<1>4. CASE recent
  <2>1. UNCHANGED <<header, stored, exit>>
    BY <1>4 DEF GiveUp, ForceLogout
  <2> QED BY <1>1, <1>2, <1>3, <2>1 DEF Undisturbed, SettledDevice, Leaving
<1>5. CASE ~recent
  <2>1. PICK x \in Exits : exit' = [exit EXCEPT ![x] = "read"]
    BY <1>5 DEF GiveUp, ForceLogout, Enter
  <2>2. exit'[x] = "read" /\ \A y \in Exits : y # x => exit'[y] = "idle"
    BY <1>1, <2>1 DEF LogoutOn, DeviceFit, TasksFit
  <2>3. Leaving' /\ LogoutOn'
    BY <2>2 DEF Leaving, LogoutOn
  <2> QED BY <1>2, <1>3, <2>3 DEF Undisturbed
<1> QED BY <1>4, <1>5

\* A refresh renews the tokens of the user that is shown.
LEMMA RefreshCalm ==
    ASSUME DeviceFit, DeviceFit', Undisturbed, OneTask',
           ReadRefreshToken \/ Rotate \/ RefreshRefused \/ RefreshLost \/ StoreAccess \/ StoreRefresh
    PROVE  Undisturbed'
<1>1. RefreshOn /\ UNCHANGED <<user, entry, load>>
  BY DEF ReadRefreshToken, Rotate, RefreshRefused, RefreshLost, StoreAccess, StoreRefresh, RefreshOn, credentials
<1>2. SettledDevice /\ Renewing /\ ~LoginOn /\ ~LogoutOn /\ ~LoadOn
  BY <1>1 DEF Undisturbed, OneTask
<1>3. CASE GiveUp
  BY <1>1, <1>3, GiveUpCalm
<1>4. CASE ~GiveUp
  <2>1. UNCHANGED exit
    BY <1>4 DEF ReadRefreshToken, Rotate, RefreshRefused, RefreshLost, StoreAccess, StoreRefresh
  <2>2. ~LoginOn' /\ ~LogoutOn' /\ ~LoadOn'
    BY <1>1, <1>2, <2>1 DEF LoginOn, LogoutOn, LoadOn
  <2>3. Leaving'
    BY <2>2 DEF Leaving, LogoutOn
  <2>4. stored \in StoredRecord /\ refresh \in RefreshRecord
    BY DEF DeviceFit, CredentialsFit, TasksFit
  <2>5. SettledDevice' /\ Renewing'
    <3>1. CASE ReadRefreshToken
      <4>1. /\ stored.refresh # NoToken /\ refresh' = [step |-> "sent", token |-> stored.refresh]
            /\ UNCHANGED <<header, stored>>
        BY <1>4, <3>1 DEF ReadRefreshToken
      <4>2. user # 0 /\ stored.refresh.visit = user
        BY <1>2, <4>1 DEF SettledDevice, Empty, Whole
      <4> QED BY <1>1, <1>2, <4>1, <4>2 DEF SettledDevice, Renewing
    <3>2. CASE Rotate
      <4>1. /\ refresh.step = "sent" /\ refresh'.step = "answered" /\ UNCHANGED <<header, stored>>
            /\ refresh'.token = [refresh.token EXCEPT !.gen = @ + 1]
        BY <3>2 DEF Rotate, credentials
      <4>2. refresh.token \in Token
        BY <3>2, TokenIs DEF Rotate, DeviceFit, TasksFit, RefreshRecord, RefreshFit
      <4>3. refresh'.token.visit = refresh.token.visit
        BY <4>1, <4>2 DEF Token
      <4> QED BY <1>1, <1>2, <4>1, <4>3 DEF SettledDevice, Renewing
    <3>3. CASE StoreAccess
      <4>1. user # 0 /\ refresh.token.visit = user
        BY <1>2, <3>3 DEF StoreAccess, Renewing
      <4>2. /\ header' = refresh.token /\ stored'.access = refresh.token /\ stored'.refresh = stored.refresh
            /\ stored'.user = stored.user /\ refresh'.step = "refresh" /\ refresh'.token = refresh.token
        BY <2>4, <3>3 DEF StoreAccess, StoredRecord, RefreshRecord
      <4> QED BY <1>1, <1>2, <4>1, <4>2 DEF SettledDevice, Renewing, Whole
    <3>4. CASE StoreRefresh
      <4>1. user # 0 /\ refresh.token.visit = user
        BY <1>2, <3>4 DEF StoreRefresh, Renewing
      <4>2. /\ UNCHANGED header /\ stored'.access = stored.access /\ stored'.refresh = refresh.token
            /\ stored'.user = stored.user /\ refresh'.step = "idle"
        BY <2>4, <3>4, StartRecords DEF StoreRefresh, Resume, StoredRecord
      <4> QED BY <1>1, <1>2, <4>1, <4>2 DEF SettledDevice, Renewing, Whole
    <3> QED BY <1>4, <3>1, <3>2, <3>3, <3>4 DEF RefreshRefused, RefreshLost
  <2> QED BY <2>2, <2>3, <2>5 DEF Undisturbed
<1> QED BY <1>3, <1>4

\* Requests, the clock and the server leave the credentials alone; the app restarts at rest.
LEMMA WorldCalm ==
    ASSUME DeviceFit, DeviceFit', Undisturbed, OneTask',
           \/ \E c \in Calls : Call(c) \/ Answer(c) \/ AnswerLost(c) \/ Unauthorized(c)
           \/ Tick \/ DebounceEnds \/ (Restart /\ ~LoginOn /\ ~LogoutOn /\ ~LoadOn)
           \/ \E v \in Visits : AccessExpires(v) \/ Revoke(v)
    PROVE  Undisturbed'
<1>1. CASE UNCHANGED <<header, stored, user, exit, entry, load, refresh>>
  BY <1>1 DEF Undisturbed, OneTask, SettledDevice, Entering, Leaving, Loading, Renewing, LoginOn, LogoutOn, LoadOn, RefreshOn
<1>2. ASSUME NEW c \in Calls, Unauthorized(c) PROVE Undisturbed'
  <2>1. /\ UNCHANGED <<header, stored, user, exit, entry, load>>
        /\ refresh' = IF refresh.step = "idle" THEN [NoRefresh EXCEPT !.step = "read"] ELSE refresh
    BY <1>2, RequestFit DEF Unauthorized
  <2>2. UNCHANGED refresh \/ refresh'.step = "read"
    BY <2>1, StartRecords DEF RefreshRecord
  <2>3. Renewing'
    BY <2>1, <2>2 DEF Undisturbed, Renewing
  <2> QED BY <2>1, <2>3 DEF Undisturbed, SettledDevice, Entering, Leaving, Loading, LoginOn, LogoutOn, LoadOn
<1>3. CASE Restart /\ ~LoginOn /\ ~LogoutOn /\ ~LoadOn
  <2>1. SettledDevice
    BY <1>3 DEF Undisturbed
  <2>2. /\ header' = NoToken /\ user' = 0 /\ UNCHANGED stored /\ load'.step = "user"
        /\ refresh'.step = "idle" /\ entry'.step = "idle" /\ \A x \in Exits : exit'[x] = "idle"
    BY <1>3, StartRecords DEF Restart
  <2>3. Loading'
    BY <2>1, <2>2 DEF SettledDevice, Loading, Whole
  <2>4. LoadOn' /\ ~LoginOn' /\ Leaving' /\ Renewing'
    BY <2>2 DEF LoadOn, LoginOn, Leaving, Renewing
  <2> QED BY <2>3, <2>4 DEF Undisturbed
<1>4. CASE \E c \in Calls : Call(c) \/ Answer(c) \/ AnswerLost(c)
  BY <1>1, <1>4 DEF Call, Answer, AnswerLost, credentials
<1>5. CASE Tick \/ DebounceEnds \/ \E v \in Visits : AccessExpires(v) \/ Revoke(v)
  BY <1>1, <1>5 DEF Tick, DebounceEnds, AccessExpires, Revoke, credentials
<1> QED BY <1>2, <1>3, <1>4, <1>5

------------------------------------------------------------------------------
(* ClientAuth: tasks counted                                                *)

\* A set that does not have two elements
LEMMA NotTwo ==
    ASSUME NEW W \in SUBSET {"login", "logout", "refresh", "load"}, ~(Cardinality(W) > 1), NEW p \in W, NEW q \in W
    PROVE  p = q
<1>1. IsFiniteSet({"login", "logout", "refresh", "load"})
  <2>1. IsFiniteSet({"login"} \cup {"logout"})
    BY FS_Singleton, FS_AddElement
  <2>2. IsFiniteSet(({"login"} \cup {"logout"}) \cup {"refresh"})
    BY <2>1, FS_AddElement
  <2>3. IsFiniteSet((({"login"} \cup {"logout"}) \cup {"refresh"}) \cup {"load"})
    BY <2>2, FS_AddElement
  <2>4. {"login", "logout", "refresh", "load"} = (({"login"} \cup {"logout"}) \cup {"refresh"}) \cup {"load"}
    OBVIOUS
  <2> QED BY <2>3, <2>4
<1>2. IsFiniteSet(W) /\ Cardinality(W) \in Nat
  BY <1>1, FS_Subset, FS_CardinalityType
<1>3. SUFFICES ASSUME p # q PROVE FALSE
  OBVIOUS
<1>4. IsFiniteSet({p}) /\ Cardinality({p}) = 1
  BY FS_Singleton
<1>5. Cardinality({p} \cup {q}) = 2
  BY <1>3, <1>4, FS_AddElement
<1>6. {p} \cup {q} \subseteq W
  OBVIOUS
<1>7. Cardinality({p} \cup {q}) <= Cardinality(W)
  BY <1>2, <1>6, FS_Subset
<1> QED BY <1>2, <1>5, <1>7

\* Crossing is what its name says, and Writers names the tasks under way.
LEMMA CrossingIs ==
    /\ ~Crossing => OneTask'
    /\ Writers = {} <=> ~LoginOn /\ ~LogoutOn /\ ~RefreshOn /\ ~LoadOn
<1>1. /\ "login" \in Writers' <=> LoginOn'
      /\ "logout" \in Writers' <=> LogoutOn'
      /\ "refresh" \in Writers' <=> RefreshOn'
      /\ "load" \in Writers' <=> LoadOn'
      /\ Writers' \in SUBSET {"login", "logout", "refresh", "load"}
  BY DEF Writers, LoginOn, LogoutOn, RefreshOn, LoadOn
<1>2. /\ "login" \in Writers <=> LoginOn
      /\ "logout" \in Writers <=> LogoutOn
      /\ "refresh" \in Writers <=> RefreshOn
      /\ "load" \in Writers <=> LoadOn
      /\ Writers \in SUBSET {"login", "logout", "refresh", "load"}
  BY DEF Writers, LoginOn, LogoutOn, RefreshOn, LoadOn
<1>3. ASSUME ~Crossing PROVE OneTask'
  <2>1. \A p, q \in Writers' : p = q
    BY <1>1, <1>3, NotTwo DEF Crossing
  <2> QED BY <1>1, <2>1 DEF OneTask
<1> QED BY <1>2, <1>3

------------------------------------------------------------------------------
(* ClientAuth: while nothing fails, the newest refresh token is kept        *)

\* A session that is given up is one the server does not honour.
JustStep == ~recent /\ recent' => user \notin live

\* Steps that leave the tokens of the server, of storage and of the tasks alone
LEMMA CurrentKept ==
    ASSUME DeviceFit, Current, UNCHANGED <<issued, refresh>>, LoginOn' => UNCHANGED entry,
           stored'.refresh \in {stored.refresh, NoToken}
    PROVE  Current'
BY DEF Current, Newest, LoginOn

LEMMA LogoutCurrent ==
    ASSUME DeviceFit, Current, NEW x \in Exits,
           \/ LogOut(x) \/ SendLogout(x) \/ LogoutAnswered(x) \/ ClearState(x) \/ Erase(x)
           \/ DropHeader(x) \/ LoadExpired(x)
    PROVE  Current' /\ JustStep
<1>1. UNCHANGED <<issued, refresh, entry, recent>>
  BY DEF LogOut, SendLogout, LogoutAnswered, ClearState, Erase, DropHeader, LoadExpired, server
<1>2. stored'.refresh \in {stored.refresh, NoToken}
  <2>1. CASE Erase(x)
    BY <2>1 DEF Erase, DeviceFit, CredentialsFit, StoredRecord
  <2>2. CASE ~Erase(x)
    BY <2>2 DEF LogOut, SendLogout, LogoutAnswered, ClearState, DropHeader, LoadExpired, credentials
  <2> QED BY <2>1, <2>2
<1> QED BY <1>1, <1>2, CurrentKept DEF JustStep

LEMMA LoginCurrent ==
    ASSUME DeviceFit, DeviceFit', Undisturbed, Current, LogIn \/ Admit \/ LoginFails \/ Establish \/ Hydrate
    PROVE  Current' /\ JustStep
<1>1. UNCHANGED <<refresh, recent>>
  BY DEF LogIn, Admit, LoginFails, Establish, Hydrate
<1>2. JustStep
  BY <1>1 DEF JustStep
<1>3. CASE LogIn
  <2>1. UNCHANGED <<issued, stored>> /\ entry'.step = "sent"
    BY <1>3, StartRecords DEF LogIn, server, credentials, EntryRecord
  <2> QED BY <1>1, <1>2, <2>1 DEF Current, Newest
<1>4. CASE LoginFails \/ Hydrate
  <2>1. UNCHANGED <<issued, stored>> /\ (LoginOn' => UNCHANGED entry)
    BY <1>4, StartRecords DEF LoginFails, Hydrate, server, credentials, LoginOn
  <2> QED BY <1>1, <1>2, <2>1, CurrentKept
<1>5. CASE Admit
  <2>1. LoginOn /\ entry.step = "sent" /\ UNCHANGED stored
    BY <1>5 DEF Admit, LoginOn, credentials
  <2>2. ~RefreshOn /\ stored.refresh = NoToken
    BY <2>1 DEF Undisturbed, OneTask, Entering
  <2>3. PICK v \in Visits : issued' = [issued EXCEPT ![v] = 1]
                            /\ entry' = [step |-> "answered", token |-> [visit |-> v, gen |-> 1]]
    BY <1>5 DEF Admit
  <2>4. issued'[v] = 1
    BY <2>3 DEF DeviceFit, ServerFit
  <2>5. entry'.token.gen = issued'[entry'.token.visit]
    BY <2>3, <2>4
  <2> QED BY <1>1, <1>2, <2>1, <2>2, <2>5 DEF Current, Newest, RefreshOn
<1>6. CASE Establish
  <2>1. LoginOn /\ entry.step # "sent" /\ UNCHANGED issued
    BY <1>6 DEF Establish, LoginOn, server
  <2>2. ~RefreshOn /\ Newest(entry.token)
    BY <2>1 DEF Undisturbed, OneTask, Current
  <2>3. entry'.token = entry.token
    BY <1>6 DEF Establish, DeviceFit, TasksFit, EntryRecord
  <2>4. stored'.refresh \in {stored.refresh, entry.token}
    BY <1>6 DEF Establish, DeviceFit, CredentialsFit, StoredRecord
  <2> QED BY <1>1, <1>2, <2>1, <2>2, <2>3, <2>4 DEF Current, Newest, RefreshOn
<1> QED BY <1>3, <1>4, <1>5, <1>6

LEMMA LoadCurrent ==
    ASSUME DeviceFit, Current, ReadStored \/ Restore
    PROVE  Current' /\ JustStep
<1>1. UNCHANGED <<issued, refresh, entry, stored, recent>>
  BY DEF ReadStored, Restore, server, credentials
<1> QED BY <1>1, CurrentKept DEF JustStep

\* The refresh token that is presented is the newest one, so only a session that was ended is
\* refused.
LEMMA RefreshCurrent ==
    ASSUME DeviceFit, DeviceFit', Undisturbed, Current,
           ReadRefreshToken \/ Rotate \/ RefreshRefused \/ StoreAccess \/ StoreRefresh
    PROVE  Current' /\ JustStep
<1>1. RefreshOn /\ UNCHANGED entry
  BY DEF ReadRefreshToken, Rotate, RefreshRefused, StoreAccess, StoreRefresh, RefreshOn
<1>2. SettledDevice /\ Renewing /\ ~LoginOn /\ ~LoginOn'
  BY <1>1 DEF Undisturbed, OneTask, LoginOn
<1>3. stored \in StoredRecord /\ refresh \in RefreshRecord
  BY DEF DeviceFit, CredentialsFit, TasksFit
<1>4. ASSUME GiveUp, UNCHANGED issued, refresh.step \in {"read", "sent"} PROVE Current'
  <2>1. refresh'.step = "idle" /\ stored'.refresh \in {stored.refresh, NoToken}
    BY <1>3, <1>4, StartRecords DEF GiveUp, ForceLogout, StoredRecord
  <2> QED BY <1>2, <1>4, <2>1 DEF Current, Newest
<1>5. CASE ReadRefreshToken
  <2>1. UNCHANGED issued /\ refresh.step = "read"
    BY <1>5 DEF ReadRefreshToken, server
  <2>2. CASE stored.refresh # NoToken
    <3>1. UNCHANGED <<stored, recent>> /\ refresh'.step = "sent"
      BY <1>5, <2>2 DEF ReadRefreshToken
    <3> QED BY <1>2, <2>1, <2>2, <3>1 DEF Current, Newest, JustStep
  <2>3. CASE stored.refresh = NoToken
    <3>1. GiveUp
      BY <1>5, <2>3 DEF ReadRefreshToken
    <3>2. user = 0
      BY <1>2, <2>3, TokenIs DEF SettledDevice, Whole
    <3>3. 0 \notin live
      BY ClientAssumption DEF DeviceFit, ServerFit, Visits
    <3> QED BY <1>4, <2>1, <3>1, <3>2, <3>3 DEF JustStep
  <2> QED BY <2>2, <2>3
<1>6. CASE RefreshRefused
  <2>1. GiveUp /\ UNCHANGED issued /\ refresh.step = "sent" /\ ~Honoured(refresh.token)
    BY <1>6 DEF RefreshRefused, server
  <2>2. user # 0 /\ refresh.token.visit = user /\ refresh.token = stored.refresh
    BY <1>2, <2>1 DEF Renewing
  <2>3. Newest(refresh.token)
    BY <2>1, <2>2, TokenIs DEF Current, DeviceFit, TasksFit, RefreshFit
  <2>4. user \notin live
    BY <2>1, <2>2, <2>3 DEF Honoured, Newest
  <2> QED BY <1>4, <2>1, <2>4 DEF JustStep
<1>7. CASE Rotate
  <2>1. refresh.token \in Token
    BY <1>7, TokenIs DEF Rotate, DeviceFit, TasksFit, RefreshRecord, RefreshFit
  <2>2. PICK next : next = [refresh.token EXCEPT !.gen = refresh.token.gen + 1]
    OBVIOUS
  <2>3. /\ issued' = [issued EXCEPT ![next.visit] = next.gen] /\ refresh' = [step |-> "answered", token |-> next]
        /\ UNCHANGED recent
    BY <1>7, <2>2 DEF Rotate
  <2>4. next.visit \in Visits
    BY <2>1, <2>2 DEF Token
  <2>5. issued'[next.visit] = next.gen
    BY <2>3, <2>4 DEF DeviceFit, ServerFit
  <2> QED BY <1>2, <2>3, <2>5 DEF Current, Newest, JustStep
<1>8. CASE StoreAccess
  <2>1. /\ refresh'.step = "refresh" /\ refresh'.token = refresh.token /\ refresh.step = "answered"
        /\ UNCHANGED <<issued, recent>>
    BY <1>3, <1>8 DEF StoreAccess, RefreshRecord, server
  <2> QED BY <1>2, <2>1 DEF Current, Newest, JustStep
<1>9. CASE StoreRefresh
  <2>1. /\ refresh'.step = "idle" /\ stored'.refresh = refresh.token /\ refresh.step = "refresh"
        /\ UNCHANGED <<issued, recent>>
    BY <1>3, <1>9, StartRecords DEF StoreRefresh, Resume, StoredRecord, server
  <2> QED BY <1>2, <2>1 DEF Current, Newest, JustStep
<1> QED BY <1>5, <1>6, <1>7, <1>8, <1>9

LEMMA WorldCurrent ==
    ASSUME DeviceFit, Current,
           \/ \E c \in Calls : Call(c) \/ Answer(c) \/ Unauthorized(c)
           \/ Tick \/ DebounceEnds \/ (Restart /\ ~RefreshOn)
           \/ \E v \in Visits : AccessExpires(v) \/ Revoke(v)
    PROVE  Current' /\ JustStep
<1>1. ASSUME NEW c \in Calls, Unauthorized(c) PROVE Current' /\ JustStep
  <2>1. /\ UNCHANGED <<stored, recent, issued, entry>>
        /\ refresh' = IF refresh.step = "idle" THEN [NoRefresh EXCEPT !.step = "read"] ELSE refresh
    BY <1>1, RequestFit DEF Unauthorized, server
  <2>2. UNCHANGED refresh \/ (refresh'.step = "read" /\ refresh.step = "idle")
    BY <2>1, StartRecords DEF RefreshRecord
  <2> QED BY <2>1, <2>2 DEF Current, Newest, LoginOn, JustStep
<1>2. CASE Restart /\ ~RefreshOn
  <2>1. UNCHANGED <<issued, stored>> /\ refresh'.step = "idle" /\ entry'.step = "idle" /\ recent' = FALSE
    BY <1>2, StartRecords DEF Restart, server
  <2> QED BY <1>2, <2>1 DEF Current, Newest, LoginOn, RefreshOn, JustStep
<1>3. CASE \/ \E c \in Calls : Call(c) \/ Answer(c)
           \/ Tick \/ DebounceEnds \/ \E v \in Visits : AccessExpires(v) \/ Revoke(v)
  <2>1. UNCHANGED <<issued, refresh, entry, stored>> /\ (UNCHANGED recent \/ ~recent')
    BY <1>3 DEF Call, Answer, Tick, DebounceEnds, AccessExpires, Revoke, server, credentials
  <2> QED BY <2>1, CurrentKept DEF JustStep
<1> QED BY <1>1, <1>2, <1>3

------------------------------------------------------------------------------
(* ClientAuth: the theorems                                                 *)

\* A session stored by an earlier run of the app is whole, and its tokens are the newest ones.
LEMMA ClientInitially == ClientInit => ClientIInv
<1> SUFFICES ASSUME ClientInit PROVE ClientIInv
  OBVIOUS
<1>1. PICK v \in {0, 1}, t \in Tokens0 :
         /\ t = IF v = 0 THEN NoToken ELSE [visit |-> 1, gen |-> 1]
         /\ issued = [w \in Visits |-> IF w = v THEN 1 ELSE 0]
         /\ live = {v} \ {0}
         /\ stored = [access |-> t, refresh |-> t, user |-> v]
  <2>1. 1 \in Visits /\ [visit |-> 1, gen |-> 1] \in Token
    BY ClientAssumption DEF Visits, Token
  <2>2. [visit |-> 1, gen |-> 1] \in Tokens0 /\ NoToken \in Tokens0
    BY <2>1, TokenIs
  <2> QED BY <2>2 DEF ClientInit
<1>2. /\ expired = [w \in Visits |-> 0] /\ header = NoToken /\ user = 0
      /\ call = [c \in Calls |-> NoCall] /\ refresh = NoRefresh /\ entry = Outside /\ load = Unloaded
      /\ exit = [x \in Exits |-> "idle"] /\ beat = FALSE /\ recent = FALSE /\ trouble = "none"
  BY DEF ClientInit
<1>3. 1 \in Visits /\ 0 \notin Visits /\ v \in 0..MaxVisits /\ 0 \in 0..MaxRotation /\ 1 \in 0..MaxRotation /\ 0 \in 0..MaxVisits
  BY ClientAssumption DEF Visits
<1>4. ServerFit
  <2>1. issued \in [Visits -> 0..MaxRotation] /\ live \in SUBSET Visits /\ expired \in [Visits -> 0..MaxRotation]
    BY <1>1, <1>2, <1>3
  <2>2. \A w \in Visits : expired[w] <= issued[w]
    BY <1>1, <1>2
  <2> QED BY <2>1, <2>2 DEF ServerFit
<1>5. CredentialsFit
  BY <1>1, <1>2, <1>3, TokenIs DEF CredentialsFit, StoredRecord
<1>6. CallsFit
  BY <1>2, StartRecords DEF CallsFit
<1>7. TasksFit
  BY <1>2, StartRecords DEF TasksFit, ExitSteps
<1>8. FlagsFit /\ Watched
  BY <1>2 DEF FlagsFit, Watched
<1>9. LoadOn /\ ~LoginOn /\ ~LogoutOn /\ ~RefreshOn
  BY <1>2, StartRecords DEF LoadOn, LoginOn, LogoutOn, RefreshOn
<1>10. stored = Empty \/ (stored.user # 0 /\ Whole(stored, stored.user))
  <2>1. CASE v = 0
    BY <1>1, <2>1 DEF Empty
  <2>2. CASE v = 1
    BY <1>1, <2>2 DEF Whole
  <2> QED BY <2>1, <2>2
<1>11. Undisturbed
  BY <1>2, <1>9, <1>10, StartRecords DEF Undisturbed, OneTask, Loading, Leaving, Renewing, RefreshOn
<1>12. Current
  <2>1. stored.refresh # NoToken => stored.refresh.gen = issued[stored.refresh.visit]
    BY <1>1, <1>3
  <2> QED BY <1>9, <2>1 DEF Current, Newest, RefreshOn
<1> QED BY <1>4, <1>5, <1>6, <1>7, <1>8, <1>11, <1>12 DEF ClientIInv, DeviceFit

\* As long as nothing worse than the network fails, every step keeps the credentials together.
LEMMA CalmStep ==
    ASSUME DeviceFit, DeviceFit', Undisturbed, ~Crossing, Sound \/ NetworkFault
    PROVE  Undisturbed'
<1>1. OneTask'
  BY CrossingIs
<1>2. CASE \E x \in Exits : \/ LogOut(x) \/ SendLogout(x) \/ LogoutAnswered(x) \/ ClearState(x)
                            \/ Erase(x) \/ DropHeader(x) \/ LoadExpired(x)
  BY <1>1, <1>2, LogoutCalm
<1>3. CASE LogIn \/ Admit \/ LoginFails \/ Establish \/ Hydrate
  BY <1>1, <1>3, LoginCalm
<1>4. CASE ReadStored \/ Restore
  BY <1>1, <1>4, LoadCalm
<1>5. CASE ReadRefreshToken \/ Rotate \/ RefreshRefused \/ RefreshLost \/ StoreAccess \/ StoreRefresh
  BY <1>1, <1>5, RefreshCalm
<1>6. CASE \/ \E c \in Calls : Call(c) \/ Answer(c) \/ AnswerLost(c) \/ Unauthorized(c)
           \/ Tick \/ DebounceEnds \/ (Writers = {} /\ Restart)
           \/ \E v \in Visits : AccessExpires(v) \/ Revoke(v)
  BY <1>1, <1>6, WorldCalm, CrossingIs
<1> QED BY <1>2, <1>3, <1>4, <1>5, <1>6 DEF Sound, NetworkFault

\* As long as nothing fails, every step keeps the newest refresh token.
LEMMA CurrentStep ==
    ASSUME DeviceFit, DeviceFit', Undisturbed, Current, Sound
    PROVE  Current' /\ JustStep
<1>1. CASE \E x \in Exits : \/ LogOut(x) \/ SendLogout(x) \/ LogoutAnswered(x) \/ ClearState(x)
                            \/ Erase(x) \/ DropHeader(x) \/ LoadExpired(x)
  BY <1>1, LogoutCurrent
<1>2. CASE LogIn \/ Admit \/ LoginFails \/ Establish \/ Hydrate
  BY <1>2, LoginCurrent
<1>3. CASE ReadStored \/ Restore
  BY <1>3, LoadCurrent
<1>4. CASE ReadRefreshToken \/ Rotate \/ RefreshRefused \/ StoreAccess \/ StoreRefresh
  BY <1>4, RefreshCurrent
<1>5. CASE \/ \E c \in Calls : Call(c) \/ Answer(c) \/ Unauthorized(c)
           \/ Tick \/ DebounceEnds \/ (Writers = {} /\ Restart)
           \/ \E v \in Visits : AccessExpires(v) \/ Revoke(v)
  BY <1>5, WorldCurrent, CrossingIs
<1> QED BY <1>1, <1>2, <1>3, <1>4, <1>5 DEF Sound

\* The flags of the model keep their shape.
LEMMA FlagsStep ==
    ASSUME FlagsFit, ClientNext
    PROVE  FlagsFit'
<1>1. trouble' \in {"none", "network", "worse"}
  BY DEF ClientNext, FlagsFit
<1>2. Sound \/ NetworkFault \/ DeviceFault
  BY DEF ClientNext
<1>3. beat' \in {beat, TRUE, FALSE} /\ recent' \in {recent, TRUE, FALSE}
  BY <1>2 DEF Sound, NetworkFault, DeviceFault, LogOut, SendLogout, LogoutAnswered, ClearState, Erase,
     EraseFails, DropHeader, LoadExpired, Enter, LogIn, Admit, LoginFails, Establish, EstablishFails,
     Hydrate, ReadStored, ReadStoredFails, Restore, Call, Answer, AnswerLost, Unauthorized, Tick,
     DebounceEnds, ForceLogout, GiveUp, ReadRefreshToken, ReadFails, Rotate, RefreshRefused, RefreshLost,
     StoreAccess, StoreRefresh, KeepFails, AccessExpires, Revoke, Restart
<1> QED BY <1>1, <1>3 DEF FlagsFit

\* One step of the device keeps the invariant, and gives up no session unjustly.
LEMMA ClientStep ==
    ASSUME ClientIInv, ClientNext
    PROVE  ClientIInv' /\ (trouble' = "none" => JustStep)
<1>1. Sound \/ NetworkFault \/ DeviceFault
  BY DEF ClientNext
<1>2. DeviceFit' /\ Watched'
  BY <1>1, ActionFit, WatchedStep DEF ClientIInv
<1>3. FlagsFit'
  BY FlagsStep DEF ClientIInv
<1>4. ASSUME trouble' # "worse" PROVE Undisturbed'
  <2>1. ~Crossing /\ trouble # "worse" /\ (Sound \/ NetworkFault)
    BY <1>4 DEF ClientNext
  <2> QED BY <1>2, <2>1, CalmStep DEF ClientIInv
<1>5. ASSUME trouble' = "none" PROVE Current' /\ JustStep
  <2>1. trouble = "none" /\ Sound
    BY <1>5 DEF ClientNext
  <2> QED BY <1>2, <2>1, CurrentStep DEF ClientIInv
<1> QED BY <1>2, <1>3, <1>4, <1>5 DEF ClientIInv

LEMMA ClientStill ==
    ASSUME ClientIInv, UNCHANGED clientVars
    PROVE  ClientIInv' /\ JustStep
<1>1. UNCHANGED <<issued, live, expired, header, stored, user, call, refresh, exit, entry, load, beat, recent, trouble>>
  BY DEF clientVars, server, credentials
<1>2. DeviceFit' /\ FlagsFit' /\ Watched' /\ JustStep
  BY <1>1 DEF ClientIInv, DeviceFit, ServerFit, CredentialsFit, CallsFit, TasksFit, FlagsFit, Watched, JustStep
<1>3. (trouble' # "worse" => Undisturbed') /\ (trouble' = "none" => Current')
  BY <1>1 DEF ClientIInv, Undisturbed, OneTask, LoginOn, LogoutOn, RefreshOn, LoadOn, SettledDevice, Entering,
              Leaving, Loading, Renewing, Current, Newest
<1> QED BY <1>2, <1>3 DEF ClientIInv

\* The inductive invariant of the device holds, for any number of requests and logouts in flight,
\* visits and token generations.
THEOREM ClientInductive == ClientSpec => []ClientIInv
<1>1. ClientIInv /\ [ClientNext]_clientVars => ClientIInv'
  BY ClientStep, ClientStill
<1> QED BY <1>1, ClientInitially, PTL DEF ClientSpec

\* DeviceInv: undisturbed, a device at rest acts for the user it shows and keeps nothing of a user
\* who left; and whoever is logged in is watched, whatever overlaps, fails or is cut short.
THEOREM DeviceSafe == ClientSpec => []DeviceInv
<1>1. ClientIInv => DeviceInv
  <2> SUFFICES ASSUME ClientIInv PROVE DeviceInv
    OBVIOUS
  <2>1. ClientTypeOK /\ Watched
    BY DeviceTypes DEF ClientIInv
  <2>2. ASSUME Writers = {}, trouble # "worse"
        PROVE  IF user = 0 THEN header = NoToken /\ stored = [access |-> NoToken, refresh |-> NoToken, user |-> 0]
               ELSE stored.user = user /\ {header.visit, stored.access.visit, stored.refresh.visit} = {user}
    <3>1. SettledDevice
      BY <2>2, CrossingIs DEF ClientIInv, Undisturbed
    <3> QED BY <3>1 DEF SettledDevice, Empty, Whole
  <2>3. Consistent
    BY <2>2 DEF Consistent
  <2> QED BY <2>1, <2>3 DEF DeviceInv
<1> QED BY <1>1, ClientInductive, PTL

\* NeverUnjust: however many requests meet an expired access token together, while no call fails
\* and no tasks overlap, a forced logout ends only a session the server no longer honours.
THEOREM ForcedJustly == ClientSpec => NeverUnjust
<1>1. ClientIInv /\ [ClientNext]_clientVars =>
         (~recent /\ recent' /\ trouble' = "none" => user \notin live)
  BY ClientStep, ClientStill DEF JustStep
<1> QED BY <1>1, ClientInductive, PTL DEF ClientSpec, NeverUnjust
==============================================================================
