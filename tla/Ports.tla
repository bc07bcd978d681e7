------------------------------- MODULE Ports -------------------------------
(***************************************************************************)
(* The data ports, their lock files and the descriptors of the process:    *)
(* lock_try, opentty and closetty of chan_dongle.c, in the steps between   *)
(* which other threads and other programs may act.  A lock file holds the  *)
(* process and the descriptor the port is expected to get: the one that    *)
(* was used to write the file and was closed again.                        *)
(***************************************************************************)
EXTENDS Integers, FiniteSets, FiniteSetsExt

CONSTANTS
  Slots,   (* the USB devices; each has one data port of the same name      *)
  Fds,     (* the descriptors                                               *)
  Closed,  (* a descriptor that is not open                                 *)
  Hung,    (* a descriptor of a port that was unplugged                     *)
  NoLock,  (* there is no lock file                                         *)
  Foreign  (* the lock file of another program that runs                    *)

ASSUME FdsAssumption == Fds \subseteq Nat /\ IsFiniteSet(Fds)
ASSUME SlotsAssumption == IsFiniteSet(Slots) /\ Slots = 1 .. Cardinality(Slots)
ASSUME PortNamesAssumption ==
  /\ Closed # Hung /\ Slots \cap {Closed, Hung} = {}
  /\ Fds \cap {NoLock, Foreign} = {}

VARIABLES
  fds,  (* what every descriptor is open on                                 *)
  lock  (* the lock file of every port                                      *)

Free == {f \in Fds : fds[f] = Closed}
NewFd == Min(Free)

(* a descriptor of another program means nothing here; one of this process *)
(* counts when a terminal answers on it; and a lock file that cannot be    *)
(* opened for want of a descriptor is taken for none                       *)
Busy(s) ==
  /\ Free # {}
  /\ lock[s] = Foreign \/ (lock[s] \in Fds /\ fds[lock[s]] \in Slots)

lock_create(s) == lock' = [lock EXCEPT ![s] = IF Free = {} THEN NoLock ELSE NewFd]
unlink(s) == lock' = [lock EXCEPT ![s] = NoLock]
open(f, s) == fds' = [fds EXCEPT ![f] = s]
close(f) == fds' = [fds EXCEPT ![f] = Closed]

hangup(s) == fds' = [f \in Fds |-> IF fds[f] = s THEN Hung ELSE fds[f]]
=============================================================================
