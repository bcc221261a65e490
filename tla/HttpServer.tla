----------------------------- MODULE HttpServer -----------------------------
(***************************************************************************)
(* The HTTP server in front of the settings, the users, the analytic data, *)
(* the versioned data and the control tables: who may do what, and what a  *)
(* client is served (http/server.go).  A request that is refused changes   *)
(* nothing.  For the settings, signer remembers the permissions of the key *)
(* that signed a call.                                                     *)
(***************************************************************************)
EXTENDS Settings, Users, Analytics, PriceData, ControlData

VARIABLE signer         \* signer[c]: the permissions of the key of call c

Unsigned == [c \in Calls |-> {}]

Sign(c, r) == signer' = [signer EXCEPT ![c] = GetPermission(r.key)]

\* A handler of the settings that proposes, and one that decides.
Propose(c, r, step) == Authenticated(r, {"Configure"})   /\ step /\ Sign(c, r)
Decide(c, r, step)  == Authenticated(r, {"ConfirmConf"}) /\ step /\ Sign(c, r)

SetTargetQtyHandler(c, r)             == Propose(c, r, SetTargetQty(c))
ConfirmTargetQtyHandler(c, r)         == Decide(c, r, ConfirmTargetQty(c))
CancelTargetQtyHandler(c, r)          == Decide(c, r, CancelTargetQty(c))
SetPWIEquationHandler(c, r)           == Propose(c, r, SetPWIEquation(c))
ConfirmPWIEquationHandler(c, r)       == Decide(c, r, ConfirmPWIEquation(c))
RejectPWIEquationHandler(c, r)        == Decide(c, r, RejectPWIEquation(c))
SetStableTokenParamsHandler(c, r)     == Propose(c, r, SetStableTokenParams(c))
ConfirmStableTokenParamsHandler(c, r) == Decide(c, r, CompareParams(c))
RejectStableTokenParamsHandler(c, r)  == Decide(c, r, RejectStableTokenParams(c))

SettingsNext ==
  \/ \E c \in Calls, r \in Requests :
       \/ SetTargetQtyHandler(c, r) \/ ConfirmTargetQtyHandler(c, r) \/ CancelTargetQtyHandler(c, r)
       \/ SetPWIEquationHandler(c, r) \/ ConfirmPWIEquationHandler(c, r) \/ RejectPWIEquationHandler(c, r)
       \/ SetStableTokenParamsHandler(c, r) \/ ConfirmStableTokenParamsHandler(c, r)
       \/ RejectStableTokenParamsHandler(c, r)
  \/ \E c \in Calls : (PutParams(c) \/ FinishConfirm(c)) /\ UNCHANGED signer
  \/ (Tick \/ Crash) /\ UNCHANGED signer

\* What the handlers that read the settings answer.  A missing PWI equation is
\* an error; for the other two the error is set inside the transaction and
\* overwritten by its own nil, and the empty record is answered.
DataOf(k, entries)        == IF kind = k THEN {p.data : p \in entries} ELSE {}
DataOrEmptyOf(k, entries) == IF kind = k /\ entries = {} THEN {EmptyValue} ELSE DataOf(k, entries)

GetTargetQty(r)                == Answer(r, DataOrEmptyOf("target", confirmed))
GetPendingTargetQty(r)         == Answer(r, DataOrEmptyOf("target", pending))
GetPWIEquation(r)              == Answer(r, DataOf("pwi", confirmed))
GetPendingPWIEquation(r)       == Answer(r, DataOf("pwi", pending))
GetStableTokenParams(r)        == Answer(r, DataOrEmptyOf("stable", confirmed))
GetPendingStableTokenParams(r) == Answer(r, DataOrEmptyOf("stable", pending))

------------------------------------------------------------------------------
\* UpdateUserAddresses: the addresses that are zero or have no readable time are
\* left out, and without any other the request is refused.
UpdateUserAddressesHandler(r) ==
  /\ Authenticated(r, {"ConfirmConf"})
  /\ \E user \in UserIds, A \in (SUBSET Addresses) \ {{}}, again \in BOOLEAN :
       \E given \in [A -> Times] : UpdateUserAddresses(user, given, again)

UsersStep ==
  \/ \E a \in Addresses, cat \in Categories : UpdateAddressCategory(a, cat)
  \/ \E r \in Requests : UpdateUserAddressesHandler(r)

------------------------------------------------------------------------------
(***************************************************************************)
(* The services share nothing but the server: a step is one of the steps   *)
(* of one of them.                                                         *)
(***************************************************************************)
settingsVars == <<vars, signer>>
servicesVars == <<settingsVars, usersVars, anaVars, priceVars, controlVars>>

SettingsPart  == SettingsNext /\ UNCHANGED <<usersVars, anaVars, priceVars, controlVars>>
UsersPart     == UsersStep /\ UNCHANGED <<settingsVars, anaVars, priceVars, controlVars>>
AnalyticsPart == AnalyticsNext /\ UNCHANGED <<settingsVars, usersVars, priceVars, controlVars>>
PricePart     == PriceNext /\ UNCHANGED <<settingsVars, usersVars, anaVars, controlVars>>
ControlPart   == ControlNext /\ UNCHANGED <<settingsVars, usersVars, anaVars, priceVars>>

ServicesInit ==
  Init /\ signer = Unsigned /\ UsersInit /\ AnalyticsInit /\ PriceInit /\ ControlInit

ServicesNext == SettingsPart \/ UsersPart \/ AnalyticsPart \/ PricePart \/ ControlPart

ServicesSpec == ServicesInit /\ [][ServicesNext]_servicesVars

\* The type invariants of the parts.
ServicesTypeOK == TypeOK /\ UsersTypeOK /\ AnalyticsTypeOK /\ PriceTypeOK /\ ControlTypeOK

------------------------------------------------------------------------------
(***************************************************************************)
(* TwoKeys: a setting that is served as in force was sent by a call signed *)
(* with a key that may configure and by another with a key that may        *)
(* confirm, and one that is served as pending by a call whose key may      *)
(* configure (the keys of README.md:24-26), however calls overlap, fail or *)
(* are cut off.  An empty target quantity and empty stable token           *)
(* parameters need neither: a missing record is served as those.           *)
(***************************************************************************)
SentWith(data, perm) == {c \in Calls : call[c].data = data /\ perm \in signer[c]}

TwoKeys ==
  AuthEnabled => \A r \in Requests :
    /\ \A data \in GetPWIEquation(r)
                     \cup ((GetTargetQty(r) \cup GetStableTokenParams(r)) \ {EmptyValue}) :
         \E c \in SentWith(data, "Configure"), d \in SentWith(data, "ConfirmConf") : c # d
    /\ \A data \in GetPendingPWIEquation(r)
                     \cup ((GetPendingTargetQty(r) \cup GetPendingStableTokenParams(r)) \ {EmptyValue}) :
         SentWith(data, "Configure") # {}
=============================================================================
