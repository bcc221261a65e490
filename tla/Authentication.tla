--------------------------- MODULE Authentication ---------------------------
(***************************************************************************)
(* Who may call which HTTP handler (http/authentication.go, permission.go  *)
(* and Authenticated of http/server.go).  A request is signed with a key;  *)
(* the signature is that of every permission whose secret is this key.     *)
(* Of the request's nonce only its distance from the server's clock        *)
(* counts; nonces are not remembered.                                      *)
(***************************************************************************)
EXTENDS Integers

CONSTANTS Keys,         \* keys that sign requests
          SecretOf,     \* the configuration: a key for every permission
          AuthEnabled,  \* the flag of the command line
          Window,       \* the 30000 ms of IsIntime
          Distances     \* how far the nonces of requests are from the clock

Permissions == {"ReadOnly", "Rebalance", "Configure", "ConfirmConf"}

ASSUME AuthenticationAssumption ==
  /\ SecretOf \in [Permissions -> Keys]
  /\ AuthEnabled \in BOOLEAN
  /\ Window \in Nat /\ Distances \subseteq Int

\* complete: every required parameter is given.
Requests == [key : Keys, nonce : Distances, complete : BOOLEAN]

------------------------------------------------------------------------------
\* The signature equals that of KNSign, KNReadonlySign, KNConfigurationSign or
\* KNConfirmConfSign.
GetPermission(key) == {p \in Permissions : SecretOf[p] = key}

IsIntime(nonce) == ~(nonce < -Window \/ nonce > Window)

\* Mutant of eligible: a permission is enough, whichever it is.
eligibleAny(ups, allowedPerms) == ups # {}

eligible(ups, allowedPerms) == ups \cap allowedPerms # {}

Authenticated(r, perms) ==
  AuthEnabled => /\ IsIntime(r.nonce)
                 /\ r.complete
                 /\ eligible(GetPermission(r.key), perms)

\* What a handler that only reads answers, if it does.
Answer(r, data) == IF Authenticated(r, Permissions) THEN data ELSE {}
=============================================================================
