----------------------------- MODULE DeviceLife -----------------------------
(***************************************************************************)
(* The life of one device (chan_dongle.c): the discovery thread D that     *)
(* starts, stops and removes it, its monitor thread M, a command C from    *)
(* the CLI or the manager (start, stop, restart, remove, reload) and the   *)
(* unloading of the module U.                                              *)
(*                                                                         *)
(* A step is what a thread does between two points where it may wait: for  *)
(* pvt->lock, the lock of the device list, discovery_lock, or the end of   *)
(* another thread.                                                         *)
(***************************************************************************)
EXTENDS Naturals, FiniteSets

CONSTANTS
  Events,   (* what C may ask for: "stopped", "restarted", "removed", "started" *)
  Whens,    (* and when: "now", "gracefully", "convenient"                  *)
  Configs,  (* initstate a reload may read, "absent" if the file has no such *)
            (* device; {} if no reload is made                              *)
  Changes,  (* and whether a setting that needs a restart has changed       *)
  Unloads,  (* whether the module may be unloaded                           *)
  Uses,     (* what the device may be used for: "call", "in_sms", "out_sms" *)
  None      (* nobody                                                       *)

Threads == {"D", "M", "C", "U"}

ASSUME NoneAssumption == None \notin Threads
ASSUME RequestsAssumption ==
  /\ Events \subseteq {"stopped", "restarted", "removed", "started"}
  /\ Whens \subseteq {"now", "gracefully", "convenient"}
  /\ Configs \subseteq {"absent", "removed", "stopped", "started"}
  /\ Changes \subseteq BOOLEAN
  /\ Unloads \in BOOLEAN /\ Uses \subseteq {"call", "in_sms", "out_sms"}

VARIABLES
  pvt,        (* the device: see Init                                        *)
  lock,       (* who holds pvt->lock                                         *)
  readers,    (* who holds the list's lock for reading                       *)
  writer,     (* who holds it for writing                                    *)
  dlock,      (* who holds discovery_lock                                    *)
  unloading,  (* unloading_flag                                              *)
  pc,         (* where each thread is; "none" for a thread that does not run *)
  op,         (* what D and C are doing there                                *)
  asked       (* history: the last event C asked for or read, and when       *)

vars == <<pvt, lock, readers, writer, dlock, unloading, pc, op, asked>>

-----------------------------------------------------------------------------
(* pvt_create, as configured to be started *)
NewPvt(state) ==
  [life |-> "listed",          (* "listed", "unlinked" by devices_destroy, "freed" *)
   desired |-> state, current |-> "stopped", when |-> "now",
   connected |-> FALSE, terminate |-> FALSE, must_remove |-> FALSE,
   thread |-> FALSE,           (* monitor_thread is not AST_PTHREADT_NULL *)
   uses |-> {}]                (* what is going on with the device *)

Init ==
  /\ pvt = NewPvt("started")
  /\ lock = None /\ readers = {} /\ writer = None /\ dlock = None
  /\ unloading = FALSE
  /\ pc = [D |-> "top", M |-> "none", C |-> "idle", U |-> "idle"]
  /\ op = [D |-> None, C |-> None]
  /\ asked = [event |-> "started", when |-> "now"]

At(t, place) == pc[t] = place
Goto(t, place) == pc' = [pc EXCEPT ![t] = place]
Goto2(t, place, t2, place2) == pc' = [pc EXCEPT ![t] = place, ![t2] = place2]

Listed == pvt.life = "listed"

(* outgoing_sms is never set, so only the others are seen *)
pvt_time4restate(p) ==
  p.desired # p.current /\ (p.when = "now" \/ p.uses \cap {"call", "in_sms"} = {})

pvt_enabled(p) ==
  p.current = "started" /\ (p.desired = p.current \/ p.when = "convenient")

Restated(p) == IF pvt_time4restate(p) THEN [p EXCEPT !.when = "now"] ELSE p

(* discovery_restart has to wait for discovery_lock, unless the discovery  *)
(* thread was stopped for good: then it returns at once                    *)
MustKick(p) == pvt_time4restate(p) /\ ~At("D", "gone")

Quiet == UNCHANGED <<unloading, asked>>
Lists == <<readers, writer>>

(* pvt_stop once the monitor is joined *)
JoinedPvt == [pvt EXCEPT !.terminate = FALSE, !.thread = FALSE]

-----------------------------------------------------------------------------
(* do_discovery *)

(* Mutant: the flag is not looked at. *)
DTopDeaf ==
  /\ At("D", "top")
  /\ writer = None /\ readers' = readers \cup {"D"} /\ Goto("D", "look")
  /\ UNCHANGED <<pvt, lock, writer, dlock, op>> /\ Quiet

DTop ==
  /\ At("D", "top")
  /\ \/ unloading /\ Goto("D", "end") /\ UNCHANGED readers
     \/ ~unloading /\ writer = None /\ readers' = readers \cup {"D"} /\ Goto("D", "look")
  /\ UNCHANGED <<pvt, lock, writer, dlock, op>> /\ Quiet

(* Mutant: a change is begun although it was asked for later than now. *)
TaskHasty == CASE pvt.desired = pvt.current -> None
               [] pvt.desired = "started" /\ pvt.connected -> None
               [] OTHER -> pvt.desired

(* Mutant: a device that is connected is left alone. *)
TaskOfUnconnected == IF pvt.when # "now" \/ pvt.desired = pvt.current \/ pvt.connected
                     THEN None ELSE pvt.desired

(* what the look at the device leads to *)
Task == CASE pvt.when # "now" \/ pvt.desired = pvt.current -> None
          [] pvt.desired = "started" /\ pvt.connected -> None
          [] OTHER -> pvt.desired

DLook ==
  /\ At("D", "look")
  /\ IF ~Listed THEN /\ readers' = readers \ {"D"} /\ Goto("D", "sweep")
                     /\ UNCHANGED <<pvt, lock, op>>
     ELSE /\ lock = None
          /\ op' = [op EXCEPT !.D = Task]
          /\ IF Task = None
             THEN /\ pvt' = [pvt EXCEPT !.must_remove = FALSE]
                  /\ readers' = readers \ {"D"} /\ UNCHANGED lock /\ Goto("D", "sweep")
             ELSE /\ UNCHANGED readers
                  /\ IF pvt.thread
                     THEN /\ pvt' = [pvt EXCEPT !.terminate = TRUE, !.must_remove = FALSE]
                          /\ UNCHANGED lock /\ Goto("D", "join")
                     ELSE /\ pvt' = [pvt EXCEPT !.must_remove = FALSE]
                          /\ lock' = "D" /\ Goto("D", "stopped")
  /\ UNCHANGED <<writer, dlock>> /\ Quiet

(* Mutant: the end of the monitor is not waited for. *)
DJoinHasty ==
  /\ At("D", "join")
  /\ Goto("D", "relock")
  /\ UNCHANGED <<pvt, lock, Lists, dlock, op>> /\ Quiet

DJoin ==
  /\ At("D", "join") /\ At("M", "end")
  /\ Goto2("D", "relock", "M", "none")
  /\ UNCHANGED <<pvt, lock, Lists, dlock, op>> /\ Quiet

DRelock ==
  /\ At("D", "relock") /\ lock = None
  /\ lock' = "D" /\ pvt' = JoinedPvt /\ Goto("D", "stopped")
  /\ UNCHANGED <<Lists, dlock, op>> /\ Quiet

(* the monitor is no more; what was to be done next *)
DStopped ==
  /\ At("D", "stopped")
  /\ CASE op.D = "stopped" -> /\ lock' = None /\ readers' = readers \ {"D"}
                              /\ Goto("D", "sweep") /\ UNCHANGED pvt
       [] op.D = "removed" -> /\ pvt' = [pvt EXCEPT !.must_remove = TRUE]
                              /\ lock' = None /\ readers' = readers \ {"D"} /\ Goto("D", "sweep")
       [] op.D \in {"restarted", "started"} ->
            /\ pvt' = IF op.D = "restarted" THEN [pvt EXCEPT !.desired = "started"] ELSE pvt
            /\ UNCHANGED readers
            /\ \/ Goto("D", "open") /\ UNCHANGED lock              (* the ports are configured *)
               \/ Goto("D", "probe") /\ lock' = None               (* or searched by IMEI *)
  /\ UNCHANGED <<writer, dlock, op>> /\ Quiet

DProbe ==
  /\ At("D", "probe") /\ lock = None
  /\ lock' = "D" /\ Goto("D", "open")
  /\ UNCHANGED <<pvt, Lists, dlock, op>> /\ Quiet

(* Mutant: monitor_thread is not set. *)
DOpensForgets ==
  /\ At("D", "open")
  /\ pvt' = [pvt EXCEPT !.connected = TRUE, !.current = "started"]
  /\ lock' = None /\ readers' = readers \ {"D"}
  /\ Goto2("D", "sweep", "M", "loop")
  /\ UNCHANGED <<writer, dlock, op>> /\ Quiet

DOpens ==
  /\ At("D", "open")
  /\ pvt' = [pvt EXCEPT !.connected = TRUE, !.current = "started", !.thread = TRUE]
  /\ lock' = None /\ readers' = readers \ {"D"}
  /\ Goto2("D", "sweep", "M", "loop")
  /\ UNCHANGED <<writer, dlock, op>> /\ Quiet

(* no ports found, or a port does not open, or the thread does not start *)
DOpenFails ==
  /\ At("D", "open")
  /\ lock' = None /\ readers' = readers \ {"D"} /\ Goto("D", "sweep")
  /\ UNCHANGED <<pvt, writer, dlock, op>> /\ Quiet

DSweep ==
  /\ At("D", "sweep") /\ writer = None /\ readers = {}
  /\ writer' = "D" /\ Goto("D", "sweeping")
  /\ UNCHANGED <<pvt, lock, readers, dlock, op>> /\ Quiet

DSwept ==
  /\ At("D", "sweeping")
  /\ Listed => lock = None
  /\ pvt' = IF Listed /\ pvt.must_remove THEN [pvt EXCEPT !.life = "freed"] ELSE pvt
  /\ writer' = None /\ Goto("D", IF unloading THEN "top" ELSE "sleep")
  /\ UNCHANGED <<lock, readers, dlock, op>> /\ Quiet

(* a signal or the end of the interval *)
DWakes ==
  /\ At("D", "sleep") /\ Goto("D", "top")
  /\ UNCHANGED <<pvt, lock, Lists, dlock, op>> /\ Quiet

-----------------------------------------------------------------------------
(* do_monitor_phone, from the point of view of the device.  Nothing is     *)
(* modelled of a monitor that runs on a device already freed.              *)

Alive == At("M", "loop") /\ pvt.life # "freed" /\ lock = None

(* Mutant: current_state is left. *)
DisconnectedKeepsState(p) == [p EXCEPT !.uses = {}, !.connected = FALSE]

(* disconnect_dongle *)
Disconnected(p) == [p EXCEPT !.uses = {}, !.connected = FALSE, !.current = "stopped"]

(* the last call that disconnect_dongle releases may be what a restart     *)
(* waited for                                                              *)
Disconnect(p) ==
  LET q == [p EXCEPT !.uses = @ \ {"call"}]
  IN  IF "call" \in p.uses /\ MustKick(q)
      THEN /\ pvt' = Restated(q) /\ lock' = "M" /\ Goto("M", "kick_disconnect")
      ELSE /\ pvt' = Disconnected(p) /\ UNCHANGED lock /\ Goto("M", "end")

MTerminates ==
  /\ Alive /\ pvt.terminate
  /\ Disconnect(pvt)
  /\ UNCHANGED <<Lists, dlock, op>> /\ Quiet

(* the port is gone, a command timed out or failed *)
MLoses ==
  /\ Alive
  /\ Disconnect([pvt EXCEPT !.terminate = FALSE])
  /\ UNCHANGED <<Lists, dlock, op>> /\ Quiet

UseBegins(use) ==
  /\ Alive /\ use \in Uses \ pvt.uses
  /\ pvt_enabled(pvt)
  /\ pvt' = [pvt EXCEPT !.uses = @ \cup {use}]
  /\ UNCHANGED <<lock, Lists, dlock, pc, op>> /\ Quiet

(* the last call released, the message read or sent: pvt_try_restate *)
UseEnds(use) ==
  /\ Alive /\ use \in pvt.uses
  /\ LET p == [pvt EXCEPT !.uses = @ \ {use}]
     IN  /\ pvt' = Restated(p)
         /\ IF MustKick(p) THEN lock' = "M" /\ Goto("M", "kick")
            ELSE UNCHANGED <<lock, pc>>
  /\ UNCHANGED <<Lists, dlock, op>> /\ Quiet

(* discovery_lock is free: the discovery thread is woken *)
MKicks ==
  /\ dlock = None
  /\ lock' = None
  /\ \/ At("M", "kick") /\ Goto("M", "loop") /\ UNCHANGED pvt
     \/ At("M", "kick_disconnect") /\ Goto("M", "end") /\ pvt' = Disconnected(pvt)
  /\ UNCHANGED <<Lists, dlock, op>> /\ Quiet

-----------------------------------------------------------------------------
(* Commands.                                                               *)

(* Every command starts by taking the list for reading *)
CReads(what, place) ==
  /\ writer = None /\ ~unloading
  /\ readers' = readers \cup {"C"} /\ op' = [op EXCEPT !.C = what] /\ Goto("C", place)
  /\ UNCHANGED <<pvt, lock, writer, dlock>> /\ Quiet

CAsks(event, when) ==
  At("C", "idle") /\ CReads([event |-> event, when |-> when], "find")

(* schedule_restart_event *)
CSchedules ==
  LET p == [pvt EXCEPT !.desired = op.C.event, !.when = op.C.when]
  IN  /\ At("C", "find")
      /\ readers' = readers \ {"C"}
      /\ IF ~Listed THEN Goto("C", "idle") /\ UNCHANGED <<pvt, lock, asked>>
         ELSE /\ lock = None
              /\ asked' = op.C
              /\ pvt' = Restated(p)
              /\ IF MustKick(p) THEN lock' = "C" /\ Goto("C", "kick")
                 ELSE UNCHANGED lock /\ Goto("C", "idle")
      /\ UNCHANGED <<writer, dlock, unloading, op>>

CKicks ==
  /\ At("C", "kick") /\ dlock = None
  /\ lock' = IF lock = "C" THEN None ELSE lock
  /\ Goto("C", "idle")
  /\ UNCHANGED <<pvt, Lists, dlock, op>> /\ Quiet

(* pvt_reload: reload_config marks the device, then unmarks and configures *)
(* it if the file lists it, then schedules the removal of what is marked.  *)
(* restart says whether discovery_restart is due at the end.               *)
CReloads(conf, changed, when) ==
  /\ At("C", "idle")
  /\ CReads([conf |-> conf, changed |-> changed, when |-> when, restart |-> FALSE], "mark")

CMarks ==
  /\ At("C", "mark")
  /\ Listed => lock = None
  /\ pvt' = IF Listed THEN [pvt EXCEPT !.must_remove = TRUE] ELSE pvt
  /\ readers' = readers \ {"C"}
  /\ Goto("C", IF op.C.conf = "absent" THEN "marked" ELSE "find_conf")
  /\ UNCHANGED <<lock, writer, dlock, op>> /\ Quiet

(* find_device in the loop over the file, and the list taken for removal *)
CReadsAgain ==
  \/ At("C", "find_conf") /\ CReads(op.C, "configure")
  \/ At("C", "marked") /\ CReads(op.C, "remove")

(* Mutant: the state the file asks for is not compared with the desired. *)
ReconfigureSettingsOnly(p) ==
  LET next == [p EXCEPT !.desired = "restarted"]
  IN  CASE op.C.conf = "removed" -> [p EXCEPT !.must_remove = TRUE]
        [] op.C.conf # "removed" /\ ~op.C.changed -> p
        [] OTHER -> [next EXCEPT !.when = IF pvt_time4restate(next) THEN "now" ELSE op.C.when]

pvt_reconfigure(p) ==
  LET next == [p EXCEPT !.desired = IF p.desired # op.C.conf THEN op.C.conf ELSE "restarted"]
  IN  CASE op.C.conf = "removed" -> [p EXCEPT !.must_remove = TRUE]
        [] op.C.conf = p.desired /\ ~op.C.changed -> p
        [] OTHER -> [next EXCEPT !.when = IF pvt_time4restate(next) THEN "now" ELSE op.C.when]

CConfigures ==
  /\ At("C", "configure")
  /\ readers' = readers \ {"C"}
  /\ IF ~Listed THEN Goto("C", "create") /\ UNCHANGED <<pvt, op, asked>>
     ELSE /\ lock = None
          /\ pvt' = pvt_reconfigure([pvt EXCEPT !.must_remove = FALSE])
          /\ asked' = [event |-> op.C.conf, when |-> op.C.when]
          /\ op' = [op EXCEPT !.C.restart = pvt' # [pvt EXCEPT !.must_remove = FALSE]
                                             /\ pvt_time4restate(pvt')]
          /\ Goto("C", "marked")
  /\ UNCHANGED <<lock, writer, dlock, unloading>>

(* a device the list does not have; nothing is modelled of one created     *)
(* while a monitor of the old one still runs                               *)
CCreates ==
  /\ At("C", "create")
  /\ IF op.C.conf = "removed" \/ ~At("M", "none")
     THEN UNCHANGED <<pvt, op, asked>>
     ELSE /\ writer = None /\ readers = {}
          /\ pvt' = NewPvt(op.C.conf)
          /\ op' = [op EXCEPT !.C.restart = TRUE]
          /\ asked' = [event |-> op.C.conf, when |-> "now"]
  /\ Goto("C", "marked")
  /\ UNCHANGED <<lock, Lists, dlock, unloading>>

CRemoves ==
  LET p == [pvt EXCEPT !.desired = "removed"]
      due == Listed /\ pvt.must_remove
      restart == op.C.restart \/ (due /\ pvt_time4restate(p))
  IN  /\ At("C", "remove")
      /\ Listed => lock = None
      /\ readers' = readers \ {"C"}
      /\ pvt' = IF due THEN [p EXCEPT !.when = IF pvt_time4restate(p) THEN "now" ELSE op.C.when] ELSE pvt
      /\ asked' = IF due THEN [event |-> "removed", when |-> op.C.when] ELSE asked
      /\ Goto("C", IF restart /\ ~At("D", "gone") THEN "kick" ELSE "idle")
      /\ UNCHANGED <<lock, writer, dlock, unloading, op>>

-----------------------------------------------------------------------------
(* Unloading.  Asterisk does not unload a module whose channels exist, and *)
(* the commands are unregistered first.                                    *)

UUnloads ==
  /\ Unloads /\ At("U", "idle") /\ At("C", "idle") /\ "call" \notin pvt.uses
  /\ unloading' = TRUE /\ Goto("U", "stop")
  /\ UNCHANGED <<pvt, lock, Lists, dlock, op, asked>>

(* discovery_stop *)
UStops ==
  /\ At("U", "stop") /\ dlock = None
  /\ dlock' = "U" /\ Goto("U", "join_discovery")
  /\ UNCHANGED <<pvt, lock, Lists, op>> /\ Quiet

UJoinsDiscovery ==
  /\ At("U", "join_discovery") /\ At("D", "end")
  /\ dlock' = None /\ Goto2("U", "destroy", "D", "gone")
  /\ UNCHANGED <<pvt, lock, Lists, op>> /\ Quiet

(* devices_destroy *)
UDestroys ==
  /\ At("U", "destroy") /\ writer = None /\ readers = {}
  /\ IF Listed THEN /\ pvt' = [pvt EXCEPT !.life = "unlinked"]
                    /\ writer' = "U" /\ Goto("U", "destroying")
     ELSE Goto("U", "unloaded") /\ UNCHANGED <<pvt, writer>>
  /\ UNCHANGED <<lock, readers, dlock, op>> /\ Quiet

UJoinsMonitor ==
  /\ lock = None
  /\ \/ /\ At("U", "destroying") /\ pvt.thread
        /\ pvt' = [pvt EXCEPT !.terminate = TRUE] /\ Goto("U", "join")
     \/ /\ At("U", "join") /\ At("M", "end")
        /\ pvt' = JoinedPvt /\ Goto2("U", "destroying", "M", "none")
  /\ UNCHANGED <<lock, Lists, dlock, op>> /\ Quiet

UFrees ==
  /\ At("U", "destroying") /\ lock = None /\ ~pvt.thread
  /\ pvt' = [pvt EXCEPT !.life = "freed"]
  /\ writer' = None /\ Goto("U", "unloaded")
  /\ UNCHANGED <<lock, readers, dlock, op>> /\ Quiet

(* load_module again *)
ULoads ==
  /\ At("U", "unloaded")
  /\ pvt' = NewPvt("started")
  /\ unloading' = FALSE
  /\ asked' = [event |-> "started", when |-> "now"]
  /\ Goto2("U", "idle", "D", "top")
  /\ UNCHANGED <<lock, Lists, dlock, op>>

-----------------------------------------------------------------------------
DStep == \/ DTop \/ DLook \/ DJoin \/ DRelock \/ DStopped \/ DProbe
         \/ DOpens \/ DOpenFails \/ DSweep \/ DSwept \/ DWakes
Monitor == MTerminates \/ MKicks
Use == \E use \in Uses : UseBegins(use) \/ UseEnds(use)
CStep == CSchedules \/ CKicks \/ CMarks \/ CReadsAgain \/ CConfigures \/ CCreates \/ CRemoves
CBegins == \E when \in Whens :
             \/ \E event \in Events : CAsks(event, when)
             \/ \E conf \in Configs, changed \in Changes : CReloads(conf, changed, when)
UStep == UStops \/ UJoinsDiscovery \/ UDestroys \/ UJoinsMonitor \/ UFrees

Next == DStep \/ Monitor \/ MLoses \/ Use \/ CStep \/ CBegins \/ UUnloads \/ UStep \/ ULoads

Spec == Init /\ [][Next]_vars

(* A thread that can go on does; one that waits for a lock gets it if the  *)
(* lock is free again and again, as calls, requests and passes over the    *)
(* devices are far apart; calls and messages come to an end; a port that   *)
(* is tried again and again opens at last.                                 *)
Fairness ==
  /\ WF_vars(DTop) /\ SF_vars(DLook) /\ WF_vars(DJoin) /\ SF_vars(DRelock) /\ WF_vars(DStopped)
  /\ SF_vars(DProbe) /\ SF_vars(DOpens) /\ WF_vars(DOpens \/ DOpenFails) /\ SF_vars(DSweep)
  /\ SF_vars(DSwept) /\ WF_vars(DWakes)
  /\ SF_vars(MTerminates) /\ SF_vars(MKicks)
  /\ \A use \in Uses : SF_vars(UseEnds(use))
  /\ SF_vars(CStep) /\ SF_vars(UStep)

FairSpec == Spec /\ Fairness

-----------------------------------------------------------------------------
(* Properties.                                                             *)

TypeOK ==
  /\ pvt \in [life : {"listed", "unlinked", "freed"},
              desired : {"stopped", "restarted", "removed", "started"},
              current : {"stopped", "started"}, when : {"now", "gracefully", "convenient"},
              connected : BOOLEAN, terminate : BOOLEAN, must_remove : BOOLEAN,
              thread : BOOLEAN, uses : SUBSET Uses]
  /\ {lock, writer, dlock} \subseteq Threads \cup {None} /\ readers \subseteq Threads
  /\ unloading \in BOOLEAN

(* Whenever the device's lock is free, connected and current_state tell    *)
(* whether a monitor serves it, and only a served device is used.          *)
(* pvt_start, disconnect_dongle, pvt_stop.                                 *)
StateTells ==
  lock = None /\ pvt.life # "freed" =>
    /\ pvt.connected = At("M", "loop")
    /\ pvt.connected = (pvt.current = "started")
    /\ pvt.uses # {} => pvt.connected

(* A monitor thread that was started and not joined is known by            *)
(* monitor_thread, so that no second one is started beside it and none is  *)
(* left behind.                                                            *)
MonitorKnown == pvt.life # "freed" /\ ~pvt.thread => At("M", "none") \/ At("D", "relock")

(* Both: what is shown is what is there, and nothing is there unknown.     *)
ServedAsShown == StateTells /\ MonitorKnown

(* A device is freed only when no thread serves it or waits for its lock.  *)
FreedUnused == pvt.life = "freed" => At("M", "none") /\ lock = None

(* A change asked for later than now never cuts a call off: the monitor is *)
(* told to end, for a restart or a stop, only when the device is idle.     *)
GracefulSparesCalls ==
  [][~pvt.terminate /\ pvt'.terminate /\ ~unloading /\ "call" \in pvt.uses
       => asked.when = "now"]_vars

(* The same of a message that is being sent. *)
GracefulSparesSms ==
  [][~pvt.terminate /\ pvt'.terminate /\ ~unloading /\ "out_sms" \in pvt.uses
       => asked.when = "now"]_vars

(* A scheduled stop happens, unless something else is asked for.           *)
StopHonoured ==
  asked.event = "stopped"
    ~> pvt.current = "stopped" \/ asked.event # "stopped" \/ ~Listed

(* A device that is to run and does not is connected, again and again if   *)
(* need be, until it is stopped or removed.                                *)
ComesBack ==
  Listed /\ ~pvt.connected /\ pvt.desired \in {"started", "restarted"}
    ~> pvt.connected \/ pvt.desired \in {"stopped", "removed"} \/ ~Listed \/ unloading

(* Unloading ends, with the discovery thread and the monitor joined and    *)
(* the device freed.                                                       *)
UnloadEnds ==
  unloading ~> At("U", "unloaded") /\ At("D", "gone") /\ At("M", "none") /\ pvt.life = "freed"
=============================================================================
