------------------------------- MODULE MCSdk -------------------------------
(***************************************************************************)
(* Instances of Sdk: one part of the SDK is used to its bound, or every    *)
(* part a little.                                                          *)
(***************************************************************************)
EXTENDS Sdk

Part(a, o, t) == [asked |-> a, ops |-> o, tries |-> t]
MCParts == {Part(MaxAsked, 0, 0), Part(0, MaxOps, 0), Part(0, 0, MaxTries), Part(1, 1, 1)}
=============================================================================
