----------------------------- MODULE MCDiscovery -----------------------------
(***************************************************************************)
(* Instances of Discovery: a device configured by imsi and one configured  *)
(* by both, two modems, and one that shows no ports.                       *)
(***************************************************************************)
EXTENDS Discovery

MCTwo == <<"a", "b">>
Both(x) == [imei |-> x, imsi |-> x]
MCWant == [a |-> [imei |-> None, imsi |-> "1"], b |-> Both("2")]

Modem(x, i) == [imei |-> x, imsi |-> x, product |-> "E1550", interfaces |-> i]
MCModems == {Modem("1", {0, 1, 2}), Modem("2", {0, 1, 2})}

Budget(p, o, l, s) == [plugs |-> p, others |-> o, lists |-> l, start |-> s]
MCBudgets == {Budget(1, 0, 0, 2), Budget(0, 1, 0, 2), Budget(0, 0, 1, 1)}
MCQuiet == {Budget(0, 0, 0, 2)}
MCDisturbed == {Budget(2, 0, 0, 2), Budget(0, 1, 0, 2), Budget(0, 0, 1, 2)}
=============================================================================
