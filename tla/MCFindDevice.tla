---------------------------- MODULE MCFindDevice ----------------------------
(* Instance of FindDevice: three devices, dialled as "r1" and "g1".        *)
EXTENDS FindDevice

MCDevices == <<"a", "b", "c">>
Resource(values, turn) == [kind |-> "group", values |-> values, turn |-> turn]
MCAttrs == {[d \in Devs |-> [k \in Kinds |-> 1]]}
MCGroup == {Resource({1}, TRUE), Resource({1}, FALSE)}

(* a prefix that extends another one: the same mark for two rounds *)
MCNested == {Resource({1}, TRUE), Resource({1, 2}, TRUE)}
=============================================================================
