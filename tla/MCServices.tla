----------------------------- MODULE MCServices -----------------------------
(***************************************************************************)
(* A small instance of the services behind the HTTP server.  They share    *)
(* nothing but the server, so each behaviour is about one of them, part;   *)
(* the others stay in one initial state.                                   *)
(***************************************************************************)
EXTENDS HttpServer, TLC

VARIABLE part

Parts == {"settings", "users", "analytics", "prices", "control"}

\* A key for every permission, and one that has none.
MCKeys     == {"k0", "k1", "k2", "k3", "k4"}
MCSecretOf == [ReadOnly |-> "k1", Rebalance |-> "k2", Configure |-> "k3", ConfirmConf |-> "k4"]

MCInit ==
  /\ part \in Parts
  /\ ServicesInit
  /\ part # "settings" => kind = "pwi" /\ \A c \in Calls : call[c].data = EmptyValue
  /\ part # "prices" => source = "price"
  /\ part # "control" => table = "status"

MCNext ==
  /\ UNCHANGED part
  /\ \/ part = "settings" /\ SettingsPart
     \/ part = "users" /\ UsersPart
     \/ part = "analytics" /\ AnalyticsPart
     \/ part = "prices" /\ PricePart
     \/ part = "control" /\ ControlPart

MCSpec == MCInit /\ [][MCNext]_<<part, servicesVars>>

CallSymmetry == Permutations(Calls)
=============================================================================
