------------------------------- MODULE MCAuth -------------------------------
(* Refresh tokens, reset codes, PINs with the adjustments they pay for, and *)
(* the credentials on a device.  They share no state, so each is explored   *)
(* on its own: part says which one moves.  The device is explored twice:    *)
(* with two requests as long as no more than the network fails ("requests") *)
(* and with one request in any trouble ("device").                          *)
EXTENDS AuthTokens, ResetCodes, Adjustments, ClientAuth, TLC

VARIABLE part

adjusting == <<pinVars, adjustmentVars>>
authVars == <<part, tokenVars, codeVars, adjusting, clientVars>>

AuthInit ==
    /\ TokensInit /\ CodesInit /\ PinInit /\ AdjustmentInit /\ ClientInit
    /\ part \in {"tokens", "codes", "adjustments", "requests", "device"}
    /\ part \notin {"requests", "device"} => stored.user = 0

\* After worse trouble only Watched says anything, and tokens do not matter to it.
ClientFocus ==
    /\ part = "requests" => trouble' # "worse"
    /\ part = "device" =>
          /\ trouble' # "network"
          /\ Cardinality({c \in Calls : call'[c].step # "idle"}) < 2
          /\ trouble = "worse" => /\ expired' = expired /\ live \subseteq live'
                                 /\ \A c \in Calls : call[c] = NoCall => call'[c] = NoCall

AuthNext ==
    \/ part = "tokens" /\ TokensNext /\ UNCHANGED <<part, codeVars, adjusting, clientVars>>
    \/ part = "codes" /\ CodesNext /\ UNCHANGED <<part, tokenVars, adjusting, clientVars>>
    \/ part = "adjustments" /\ AdjustmentNext /\ UNCHANGED <<part, tokenVars, codeVars, clientVars>>
    \/ /\ part \in {"requests", "device"} /\ ClientNext /\ ClientFocus
       /\ UNCHANGED <<part, tokenVars, codeVars, adjusting>>

AuthSpec == AuthInit /\ [][AuthNext]_authVars

Symmetry == Permutations(Logins) \cup Permutations(Devices)
==============================================================================
