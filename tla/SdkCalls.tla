------------------------------ MODULE SdkCalls ------------------------------
(***************************************************************************)
(* The calls of a real device as the SDK sees them (simbox_modem.c and the *)
(* event bridge of simbox_api.c): one pointer to a call structure of the   *)
(* driver, set by an incoming call or by simbox_call_originate, used       *)
(* without a lock by the functions of the SDK, and cleared by the event of *)
(* a released call, which the driver sends after it has freed the call.    *)
(***************************************************************************)
EXTENDS Integers, FiniteSetsExt

CONSTANTS
  Users,    (* the threads that originate, answer and hang up               *)
  Ids,      (* call structures; 0 is none                                   *)
  MaxOps    (* bound: functions called and calls that come in               *)

ASSUME IdsAssumption == Ids \subseteq Nat \ {0}
ASSUME OpsAssumption == MaxOps \in Nat

VARIABLES
  calls,   (* the state of every call structure of the driver, or "free"    *)
  dev,     (* cpvt, cpvt_adapter_owned, call_state of the device            *)
  user,    (* where every thread is, and the pointer it has read            *)
  monitor, (* what the monitor thread has yet to report                     *)
  misused, (* the kinds of dead memory that were used                       *)
  ops      (* functions called and calls that came in so far                *)

callVars == <<calls, dev, user, monitor, misused, ops>>

States == {"init", "dialing", "alerting", "active", "held", "incoming"}
Quiet == [state |-> "none", call |-> 0]
Away == [pc |-> "out", cpvt |-> 0]
NoCall == [cpvt |-> 0, owned |-> FALSE, state |-> "unknown"]

(* simbox_call_state_from_name                                             *)
SdkState ==
  [init |-> "CONNECTING", dialing |-> "DIALING", alerting |-> "DIALING",
   active |-> "ACTIVE_CALL", held |-> "HOLD", incoming |-> "RINGING", released |-> "IDLE"]

CallsInit(used) ==
  /\ calls = [i \in Ids |-> "free"]
  /\ dev = NoCall
  /\ user = [u \in Users |-> Away]
  /\ monitor = Quiet
  /\ misused = {}
  /\ ops = used

Free == {i \in Ids : calls[i] = "free"}
Live == Ids \ Free
NewCall(i, s) == i = Min(Free) /\ calls' = [calls EXCEPT ![i] = s]

-----------------------------------------------------------------------------
(* simbox_call_originate, simbox_call_answer and simbox_call_hangup: the   *)
(* pointer is read, and later followed                                     *)

Goes(u, pc, i) == user' = [user EXCEPT ![u] = [pc |-> pc, cpvt |-> i]]
Counted == ops < MaxOps /\ misused = {} /\ ops' = ops + 1

Originate(u) ==
  /\ user[u].pc = "out" /\ Counted
  /\ IF dev.cpvt # 0 THEN Goes(u, "use", dev.cpvt) ELSE Goes(u, "alloc", 0)
  /\ UNCHANGED <<calls, dev, monitor, misused>>

(* the rest of simbox_require_cpvt                                         *)
Alloc(u) ==
  /\ user[u].pc = "alloc" /\ misused = {}
  /\ \E i \in Free :
       /\ NewCall(i, "init")
       /\ dev' = [dev EXCEPT !.cpvt = i, !.owned = TRUE]
       /\ Goes(u, "use", i)
  /\ UNCHANGED <<monitor, misused, ops>>

AllocFails(u) ==
  /\ user[u].pc = "alloc"
  /\ dev' = [dev EXCEPT !.cpvt = 0, !.owned = FALSE]
  /\ Goes(u, "out", 0)
  /\ UNCHANGED <<calls, monitor, misused, ops>>

AnswerOrHangup(u) ==
  /\ user[u].pc = "out" /\ Counted
  /\ dev.cpvt # 0
  /\ Goes(u, "reread", dev.cpvt)
  /\ UNCHANGED <<calls, dev, monitor, misused>>

(* at_enque_dial has the pointer in hand; the others may read it again     *)
Use(u) ==
  /\ user[u].pc \in {"use", "reread"} /\ misused = {}
  /\ \E i \in {user[u].cpvt} \cup (IF user[u].pc = "reread" THEN {dev.cpvt} ELSE {}) :
       misused' = IF i \in Live THEN {} ELSE IF i = 0 THEN {"null"} ELSE {"call"}
  /\ Goes(u, "out", 0)
  /\ UNCHANGED <<calls, dev, monitor, ops>>

-----------------------------------------------------------------------------
(* The driver, in the monitor thread; what it does is reported next.       *)
Report(s, i) == monitor' = [state |-> s, call |-> i]

Incoming ==
  /\ monitor = Quiet /\ Counted
  /\ \E i \in Free : NewCall(i, "incoming") /\ Report("ring", i)
  /\ UNCHANGED <<dev, user, misused>>

Moves ==
  [init |-> {"dialing"}, dialing |-> {"alerting", "active"}, alerting |-> {"active"},
   active |-> {"held"}, held |-> {"active"}, incoming |-> {"active"}]

Change(i) ==
  /\ monitor = Quiet /\ i \in Live
  /\ \E s \in Moves[calls[i]] : calls' = [calls EXCEPT ![i] = s] /\ Report(s, i)
  /\ UNCHANGED <<dev, user, misused, ops>>

(* change_channel_state frees the call and reports it then                 *)
Release(i) ==
  /\ monitor = Quiet /\ i \in Live
  /\ calls' = [calls EXCEPT ![i] = "free"]
  /\ Report("released", i)
  /\ UNCHANGED <<dev, user, misused, ops>>

(* simbox_event_bridge_fire_incoming_call: the device gets the call,       *)
(* whatever call it had                                                    *)
Attach ==
  /\ monitor.state = "ring"
  /\ dev' = [dev EXCEPT !.cpvt = monitor.call, !.owned = FALSE]
  /\ monitor' = Quiet
  /\ UNCHANGED <<calls, user, misused, ops>>

BadApplied(s) == (* forgets only a call of its own *)
  [cpvt |-> IF s = "IDLE" /\ dev.owned THEN 0 ELSE dev.cpvt,
   owned |-> dev.owned /\ s # "IDLE", state |-> s]

(* simbox_device_apply_call_state                                          *)
Applied(s) ==
  IF s = "IDLE" THEN [cpvt |-> 0, owned |-> FALSE, state |-> s] ELSE [dev EXCEPT !.state = s]

Fire ==
  /\ monitor # Quiet /\ monitor.state # "ring"
  /\ dev' = Applied(SdkState[monitor.state])
  /\ monitor' = Quiet
  /\ UNCHANGED <<calls, user, misused, ops>>

-----------------------------------------------------------------------------
CallsTypeOK ==
  /\ calls \in [Ids -> States \cup {"free"}]
  /\ dev.cpvt \in Ids \cup {0}
  /\ dev.owned => dev.cpvt # 0
  /\ monitor.state \in States \cup {"none", "ring", "released"}

(* The pointer dangles only from the freeing of a call to the event that   *)
(* reports it released: that event clears it, whichever call it is of.     *)
DanglesBriefly == misused = {} /\ dev.cpvt \in Free => monitor.state = "released"

(* What does not hold: the SDK never follows a pointer to a freed call or  *)
(* a null pointer,                                                         *)
CallAlive == misused \cap {"call", "null"} = {}

(* and the call of a device with calls can be hung up.                     *)
CallReachable == monitor = Quiet /\ misused = {} /\ (\E i \in Live : calls[i] = "active")
                   => dev.cpvt \in Live
=============================================================================
