----------------------------- MODULE Adjustments -----------------------------
(***************************************************************************)
(* InventoryAdjustmentService: an adjustment goes from draft through a     *)
(* supervisor's authorization, paid for with an override token, to the     *)
(* ledger.  Each stage reads the document in one call and writes it by id  *)
(* in another; ledger entries are inserted before the state moves.         *)
(***************************************************************************)
EXTENDS PinOverride

CONSTANTS Clerks,       \* stages in flight on one adjustment
          MaxEntries    \* bound: ledger entries of either kind

ASSUME AdjustmentAssumption == MaxEntries \in Nat

VARIABLES state,    \* inventory_adjustments.state
          posted,   \* inventory_ledger: entries of this adjustment
          reversed, \* inventory_ledger: its reversals
          clerk,    \* the stages in flight
          granted   \* override tokens consumed by authorize so far

adjustmentVars == <<state, posted, reversed, clerk, granted>>

Transitions == [
    DRAFT |-> {"PENDING_AUTHORIZATION"},
    PROPOSED |-> {"PENDING_AUTHORIZATION", "VOIDED"},
    PENDING_AUTHORIZATION |-> {"AUTHORIZED", "VOIDED"},
    AUTHORIZED |-> {"POSTED", "VOIDED"},
    POSTED |-> {"FINALIZED", "ROLLED_BACK"},
    FINALIZED |-> {}, VOIDED |-> {}, ROLLED_BACK |-> {}]
AdjustmentStates == DOMAIN Transitions
Absent == "absent"

Free == [step |-> "idle", to |-> "VOIDED"]

AdjustmentTypeOK ==
    /\ state \in AdjustmentStates \cup {Absent}
    /\ posted \in 0..MaxEntries /\ reversed \in 0..MaxEntries
    /\ clerk \in [Clerks -> [step : {"idle", "enter", "check", "write"}, to : AdjustmentStates]]
    /\ granted \in 0..MaxTries

AdjustmentInit ==
    /\ state = Absent
    /\ posted = 0 /\ reversed = 0 /\ granted = 0
    /\ clerk = [c \in Clerks |-> Free]

Busy(c, s) == clerk[c].step = s
ledger == <<posted, reversed>>

------------------------------------------------------------------------------
(* Stages                                                                   *)

CreateProposal ==
    /\ state = Absent
    /\ state' = "DRAFT"
    /\ UNCHANGED <<ledger, clerk, granted, pinVars>>

\* submit_for_review, finalize and void are a transition and nothing else
Request(c) ==
    /\ Busy(c, "idle") /\ state # Absent
    /\ \E to \in {"PENDING_AUTHORIZATION", "FINALIZED", "VOIDED"} :
          clerk' = [clerk EXCEPT ![c] = [step |-> "check", to |-> to]]
    /\ UNCHANGED <<state, ledger, granted, pinVars>>

\* authorize consumes the token before it looks at the document
Authorize(c) ==
    /\ Busy(c, "idle") /\ state # Absent
    /\ UseOverride
    /\ granted' = granted + 1
    /\ clerk' = [clerk EXCEPT ![c] = [step |-> "check", to |-> "AUTHORIZED"]]
    /\ UNCHANGED <<state, ledger>>

\* post_to_ledger and rollback: _load_and_assert_state first
Loads == [POSTED |-> "AUTHORIZED", ROLLED_BACK |-> "POSTED"]
Load(c) ==
    /\ Busy(c, "idle")
    /\ \E to \in DOMAIN Loads :
          /\ state = Loads[to]
          /\ clerk' = [clerk EXCEPT ![c] = [step |-> "enter", to |-> to]]
    /\ UNCHANGED <<state, ledger, granted, pinVars>>

EnterLedger(c) ==
    /\ Busy(c, "enter")
    /\ IF clerk[c].to = "POSTED"
          THEN posted < MaxEntries /\ posted' = posted + 1 /\ UNCHANGED reversed
          ELSE reversed < MaxEntries /\ reversed' = reversed + 1 /\ UNCHANGED posted
    /\ clerk' = [clerk EXCEPT ![c].step = "check"]
    /\ UNCHANGED <<state, granted, pinVars>>

\* mutant: any transition is allowed
AnyTransition(from, to) == TRUE

\* _transition: find_one and _assert_transition, which raises ...
Allowed(from, to) == to \in Transitions[from]
Check(c) ==
    /\ Busy(c, "check")
    /\ clerk' = IF Allowed(state, clerk[c].to) THEN [clerk EXCEPT ![c].step = "write"]
                                              ELSE [clerk EXCEPT ![c] = Free]
    /\ UNCHANGED <<state, ledger, granted, pinVars>>

\* ... then update_one by id, whatever the state is by now
WriteState(c) ==
    /\ Busy(c, "write")
    /\ state' = clerk[c].to
    /\ clerk' = [clerk EXCEPT ![c] = Free]
    /\ UNCHANGED <<ledger, granted, pinVars>>

StageDies(c) ==
    /\ ~Busy(c, "idle")
    /\ clerk' = [clerk EXCEPT ![c] = Free]
    /\ UNCHANGED <<state, ledger, granted, pinVars>>

AdjustmentNext ==
    \/ CreateProposal
    \/ \E c \in Clerks : Request(c) \/ Authorize(c) \/ Load(c) \/ EnterLedger(c)
                         \/ Check(c) \/ WriteState(c) \/ StageDies(c)
    \/ PinNext /\ UNCHANGED adjustmentVars

AdjustmentSpec == PinInit /\ AdjustmentInit /\ [][AdjustmentNext]_<<pinVars, adjustmentVars>>

------------------------------------------------------------------------------
(* Properties                                                               *)

\* Every authorization was paid for with a right PIN of its own: unused tokens,
\* tokens being issued and tokens consumed never outnumber the right PINs,
\* across races, expiry and crashes.
OverrideEarned ==
    override + granted + Cardinality({d \in Devices : Stands(d, "issue")}) <= right

\* Whatever stale transitions do to the state, nothing reaches the ledger that
\* no override token was spent on, nothing is reversed that was not entered,
\* and an adjustment shown as posted, finalized or rolled back has its entries.
LedgerCovered ==
    /\ posted > 0 => granted > 0
    /\ reversed > 0 => posted > 0
    /\ state \in {"POSTED", "FINALIZED", "ROLLED_BACK"} => posted > 0
    /\ state = "ROLLED_BACK" => reversed > 0

\* What a supervisor's PIN guards: locks are earned by wrong PINs, override tokens by right ones,
\* ledger entries by override tokens.
AdjustmentInv ==
    PinTypeOK /\ AdjustmentTypeOK /\ LockEarned /\ OverrideEarned /\ LedgerCovered
==============================================================================
