-------------------------- MODULE DeviceLifeProofs --------------------------
(***************************************************************************)
(* What DeviceLife shows of a device is true, whatever is asked of it, and *)
(* it is freed only when nobody uses it.                                   *)
(*                                                                         *)
(* The inductive invariant IInv follows who holds which lock (Locks), how  *)
(* far unloading is (Unloading) and the monitor thread from its start to   *)
(* its end (Served).  A reload marks listed devices for removal, and the   *)
(* discovery thread may free one under its monitor; what rests on that not *)
(* happening is stated for a module that is not reloaded (Unreloaded).     *)
(***************************************************************************)
EXTENDS DeviceLife, TLAPS

DPlaces == {"top", "look", "join", "relock", "stopped", "probe", "open", "sweep", "sweeping",
            "sleep", "end", "gone"}
MPlaces == {"none", "loop", "kick", "kick_disconnect", "end"}
CPlaces == {"idle", "find", "kick", "mark", "marked", "find_conf", "configure", "create", "remove"}
UPlaces == {"idle", "stop", "join_discovery", "destroy", "destroying", "join", "unloaded"}

DesiredStates == {"stopped", "restarted", "removed", "started"}
Times == {"now", "gracefully", "convenient"}
Device == [life : {"listed", "unlinked", "freed"}, desired : DesiredStates,
           current : {"stopped", "started"}, when : Times,
           connected : BOOLEAN, terminate : BOOLEAN, must_remove : BOOLEAN,
           thread : BOOLEAN, uses : SUBSET Uses]
Request == [event : DesiredStates, when : Times]
Reload == [conf : Configs, changed : BOOLEAN, when : Times, restart : BOOLEAN]

Places == [D : DPlaces, M : MPlaces, C : CPlaces, U : UPlaces]

Typed ==
  /\ pvt \in Device /\ pc \in Places
  /\ readers \in SUBSET {"D", "C"} /\ lock \in {None, "D", "M", "C"}
  /\ writer \in {None, "D", "U"} /\ dlock \in {None, "U"} /\ unloading \in BOOLEAN
  /\ op \in [D : {None} \cup DesiredStates, C : {None} \cup Request \cup Reload]
  /\ asked \in Request
  /\ pc["C"] = "find" => op.C \in Request
  /\ pc["C"] \in CPlaces \ {"idle", "find", "kick"} => op.C \in Reload
  /\ pc["C"] \in {"find_conf", "configure", "create"} => op.C.conf # "absent"

(* the places where D and C have the list, and where D works on the device *)
Working == {"join", "relock", "stopped", "probe", "open"}
Reading == {"find", "mark", "configure", "remove"}
Locks ==
  /\ "D" \in readers <=> pc["D"] \in Working \cup {"look"}
  /\ "C" \in readers <=> pc["C"] \in Reading
  /\ writer = "D" <=> pc["D"] = "sweeping"
  /\ writer = "U" <=> pc["U"] \in {"destroying", "join"}
  /\ writer # None => readers = {}
  /\ lock = "D" <=> pc["D"] \in {"stopped", "open"}
  /\ lock = "M" <=> pc["M"] \in {"kick", "kick_disconnect"}
  /\ lock = "C" => pc["C"] = "kick"

Unloading ==
  /\ unloading <=> pc["U"] # "idle"
  /\ pc["U"] \in {"destroy", "destroying", "join", "unloaded"} => pc["D"] = "gone"
  /\ pvt.life = "unlinked" <=> pc["U"] \in {"destroying", "join"}
  /\ pc["U"] = "unloaded" => pvt.life = "freed"
  /\ pc["U"] # "idle" => pc["C"] = "idle"
  /\ ~Unloads => pc["U"] = "idle"

(* A device that a reload freed under its monitor may be created again by  *)
(* loading the module again; what a monitor is known by is lost then.      *)
NotBoth == Configs = {} \/ ~Unloads

Served ==
  /\ pc["D"] \in Working => pvt.life = "listed" /\ op.D \in DesiredStates
  /\ NotBoth =>
       /\ pc["D"] \in Working \ {"join"} => pc["M"] = "none"
       /\ pc["D"] \in {"stopped", "probe", "open"} => ~pvt.thread
       /\ pvt.life # "freed" =>
            /\ ~pvt.thread => pc["M"] = "none"
            /\ pvt.connected <=> pc["M"] \in {"loop", "kick", "kick_disconnect"}
            /\ pvt.connected <=> pvt.current = "started"
            /\ pvt.uses # {} => pvt.connected

Unreloaded ==
  Configs = {} =>
    /\ pc["C"] \in {"idle", "find", "kick"}
    /\ pvt.life = "freed" => pc["M"] = "none" /\ lock = None
    /\ pvt.must_remove /\ pvt.life # "freed" =>
         pc["D"] \in {"sweep", "sweeping"} /\ pc["M"] = "none"
    /\ "call" \in pvt.uses /\ pvt.desired # pvt.current /\ pvt.when = "now" => asked.when = "now"

IInv == Typed /\ Locks /\ Unloading /\ Served /\ Unreloaded


-----------------------------------------------------------------------------
(* The discovery thread. *)

LEMMA DTopKeeps == ASSUME IInv, DTop PROVE IInv'
<1> USE DEF DTop, At, Goto, Quiet
<1>1. Typed'
  <2>1. pc' \in Places
    BY DEF IInv, Typed, Places, DPlaces
  <2>2. pc'["C"] = pc["C"]
    BY DEF IInv, Typed, Places
  <2>. QED BY <2>1, <2>2 DEF IInv, Typed
<1>2. Locks'
  BY DEF IInv, Typed, Places, Locks, Working, Reading
<1>3. Unloading'
  BY DEF IInv, Typed, Places, Unloading
<1>4. Served'
  BY DEF IInv, Typed, Places, Served, Working
<1>5. Unreloaded'
  BY DEF IInv, Typed, Places, Unreloaded
<1> QED BY <1>1, <1>2, <1>3, <1>4, <1>5 DEF IInv

(* What the look at the device does to it. *)
LEMMA LookAt ==
  ASSUME IInv, DLook
  PROVE  /\ pvt' \in Device /\ pc' \in Places /\ op' \in [D : {None} \cup DesiredStates, C : {None} \cup Request \cup Reload]
         /\ op'.C = op.C /\ pc["D"] = "look"
         /\ \A t \in Threads \ {"D"} : pc'[t] = pc[t]
         /\ pvt'.life = pvt.life /\ pvt'.desired = pvt.desired /\ pvt'.current = pvt.current
         /\ pvt'.when = pvt.when /\ pvt'.connected = pvt.connected /\ pvt'.thread = pvt.thread
         /\ pvt'.uses = pvt.uses /\ (pvt'.must_remove => pvt.must_remove)
         /\ \/ /\ pc'["D"] = "sweep" /\ readers' = readers \ {"D"} /\ lock' = lock
               /\ pvt'.terminate = pvt.terminate
               /\ pvt.life = "listed" => lock = None /\ pvt'.must_remove = FALSE
            \/ /\ pvt.life = "listed" /\ lock = None /\ pvt.thread /\ readers' = readers
               /\ pvt.when = "now" /\ pvt.desired # pvt.current
               /\ pc'["D"] = "join" /\ lock' = lock /\ op'.D \in DesiredStates
            \/ /\ pvt.life = "listed" /\ lock = None /\ ~pvt.thread /\ readers' = readers
               /\ pc'["D"] = "stopped" /\ lock' = "D" /\ op'.D \in DesiredStates
               /\ pvt'.terminate = pvt.terminate
<1>1. pvt \in Device /\ pc \in Places /\ op \in [D : {None} \cup DesiredStates, C : {None} \cup Request \cup Reload]
  BY DEF IInv, Typed
<1>2. CASE ~Listed
  <2>1. /\ pvt' = pvt /\ lock' = lock /\ op' = op /\ readers' = readers \ {"D"}
        /\ pc' = [pc EXCEPT !["D"] = "sweep"] /\ pc["D"] = "look"
    BY <1>2 DEF DLook, At, Goto
  <2>2. pc' \in Places /\ pc'["D"] = "sweep" /\ \A t \in Threads \ {"D"} : pc'[t] = pc[t]
    BY <1>1, <2>1 DEF Places, DPlaces, Threads
  <2>. QED BY <1>1, <1>2, <2>1, <2>2 DEF Listed
<1>3. CASE Listed
  <2>1. /\ lock = None /\ op' = [op EXCEPT !.D = Task] /\ pc["D"] = "look" /\ pvt.life = "listed"
    BY <1>3 DEF DLook, At, Listed
  <2>2. Task = None \/ (Task = pvt.desired /\ pvt.when = "now" /\ pvt.desired # pvt.current)
    BY DEF Task
  <2>3. Task \in {None} \cup DesiredStates /\ (Task # None => Task \in DesiredStates)
    BY <1>1, <2>2 DEF Device
  <2>4. /\ op' \in [D : {None} \cup DesiredStates, C : {None} \cup Request \cup Reload]
        /\ op'.C = op.C /\ op'.D = Task
    BY <1>1, <2>1, <2>3
  <2>5. CASE Task = None
    <3>1. /\ pvt' = [pvt EXCEPT !.must_remove = FALSE] /\ readers' = readers \ {"D"} /\ lock' = lock
          /\ pc' = [pc EXCEPT !["D"] = "sweep"]
      BY <1>3, <2>5 DEF DLook, Goto
    <3>2. pc' \in Places /\ pc'["D"] = "sweep" /\ \A t \in Threads \ {"D"} : pc'[t] = pc[t]
      BY <1>1, <3>1 DEF Places, DPlaces, Threads
    <3>3. /\ pvt' \in Device
          /\ pvt'.life = pvt.life /\ pvt'.desired = pvt.desired /\ pvt'.current = pvt.current
          /\ pvt'.when = pvt.when /\ pvt'.connected = pvt.connected /\ pvt'.thread = pvt.thread
          /\ pvt'.uses = pvt.uses /\ pvt'.must_remove = FALSE /\ pvt'.terminate = pvt.terminate
      BY <1>1, <3>1 DEF Device
    <3>. QED BY <2>1, <2>4, <3>1, <3>2, <3>3
  <2>6. CASE Task # None /\ pvt.thread
    <3>1. /\ pvt' = [pvt EXCEPT !.terminate = TRUE, !.must_remove = FALSE] /\ readers' = readers /\ lock' = lock
          /\ pc' = [pc EXCEPT !["D"] = "join"]
      BY <1>3, <2>6 DEF DLook, Goto
    <3>2. pc' \in Places /\ pc'["D"] = "join" /\ \A t \in Threads \ {"D"} : pc'[t] = pc[t]
      BY <1>1, <3>1 DEF Places, DPlaces, Threads
    <3>3. /\ pvt' \in Device
          /\ pvt'.life = pvt.life /\ pvt'.desired = pvt.desired /\ pvt'.current = pvt.current
          /\ pvt'.when = pvt.when /\ pvt'.connected = pvt.connected /\ pvt'.thread = pvt.thread
          /\ pvt'.uses = pvt.uses /\ pvt'.must_remove = FALSE
      BY <1>1, <3>1 DEF Device
    <3>. QED BY <2>1, <2>2, <2>3, <2>4, <2>6, <3>1, <3>2, <3>3
  <2>7. CASE Task # None /\ ~pvt.thread
    <3>1. /\ pvt' = [pvt EXCEPT !.must_remove = FALSE] /\ readers' = readers /\ lock' = "D"
          /\ pc' = [pc EXCEPT !["D"] = "stopped"]
      BY <1>3, <2>7 DEF DLook, Goto
    <3>2. pc' \in Places /\ pc'["D"] = "stopped" /\ \A t \in Threads \ {"D"} : pc'[t] = pc[t]
      BY <1>1, <3>1 DEF Places, DPlaces, Threads
    <3>3. /\ pvt' \in Device
          /\ pvt'.life = pvt.life /\ pvt'.desired = pvt.desired /\ pvt'.current = pvt.current
          /\ pvt'.when = pvt.when /\ pvt'.connected = pvt.connected /\ pvt'.thread = pvt.thread
          /\ pvt'.uses = pvt.uses /\ pvt'.must_remove = FALSE /\ pvt'.terminate = pvt.terminate
      BY <1>1, <3>1 DEF Device
    <3>. QED BY <2>1, <2>3, <2>4, <2>7, <3>1, <3>2, <3>3
  <2>. QED BY <2>5, <2>6, <2>7
<1> QED BY <1>2, <1>3

LEMMA DLookKeeps == ASSUME IInv, DLook PROVE IInv'
<1>1. Typed /\ Locks /\ Unloading /\ Served /\ Unreloaded
  BY DEF IInv
<1>2. UNCHANGED <<writer, dlock, unloading, asked>>
  BY DEF DLook, Quiet
<1>3. Typed'
  <2>1. /\ pvt' \in Device /\ pc' \in Places /\ pc'["C"] = pc["C"] /\ op'.C = op.C
        /\ op' \in [D : {None} \cup DesiredStates, C : {None} \cup Request \cup Reload]
    BY LookAt DEF Threads
  <2>2. readers' \in {readers, readers \ {"D"}} /\ lock' \in {lock, "D"}
    BY LookAt
  <2>3. readers' \in SUBSET {"D", "C"} /\ lock' \in {None, "D", "M", "C"}
    BY <1>1, <2>2 DEF Typed
  <2>. QED BY <1>1, <1>2, <2>1, <2>3 DEF Typed
<1>4. Locks'
  BY <1>1, <1>2, LookAt, NoneAssumption DEF Locks, Typed, Working, Reading, Threads
<1>5. Unloading'
  BY <1>1, <1>2, LookAt DEF Unloading, Threads
<1>6. Served'
  BY <1>1, <1>2, LookAt DEF Served, Working, Threads
<1>7. Unreloaded'
  BY <1>1, <1>2, LookAt DEF Unreloaded, Unloading, Threads
<1> QED BY <1>3, <1>4, <1>5, <1>6, <1>7 DEF IInv

LEMMA DJoinKeeps == ASSUME IInv, DJoin PROVE IInv'
<1> USE DEF DJoin, At, Goto2, Quiet, Lists
<1>1. Typed'
  <2>1. pc' \in Places /\ pc'["C"] = pc["C"]
    BY DEF IInv, Typed, Places, DPlaces, MPlaces
  <2>. QED BY <2>1 DEF IInv, Typed
<1>2. Locks'
  BY DEF IInv, Typed, Places, Locks, Working, Reading
<1>3. Unloading'
  BY DEF IInv, Typed, Places, Unloading
<1>4. Served'
  BY DEF IInv, Typed, Places, Served, Working
<1>5. Unreloaded'
  BY DEF IInv, Typed, Places, Unreloaded
<1> QED BY <1>1, <1>2, <1>3, <1>4, <1>5 DEF IInv

(* What pvt_stop does to the device when the monitor is joined. *)
LEMMA Joined ==
  ASSUME pvt \in Device, pvt' = JoinedPvt
  PROVE  /\ pvt' \in Device /\ pvt'.life = pvt.life /\ pvt'.desired = pvt.desired
         /\ pvt'.current = pvt.current /\ pvt'.when = pvt.when /\ pvt'.connected = pvt.connected
         /\ pvt'.uses = pvt.uses /\ pvt'.must_remove = pvt.must_remove
         /\ pvt'.terminate = FALSE /\ pvt'.thread = FALSE
BY DEF JoinedPvt, Device

LEMMA DRelockKeeps == ASSUME IInv, DRelock PROVE IInv'
<1>1. Typed /\ Locks /\ Unloading /\ Served /\ Unreloaded /\ pvt \in Device /\ pc \in Places
  BY DEF IInv, Typed
<1>2. /\ pc["D"] = "relock" /\ lock = None /\ lock' = "D" /\ pvt' = JoinedPvt
      /\ pc' = [pc EXCEPT !["D"] = "stopped"]
      /\ UNCHANGED <<readers, writer, dlock, op, unloading, asked>>
  BY DEF DRelock, At, Goto, Quiet, Lists
<1>3. pc' \in Places /\ pc'["D"] = "stopped" /\ \A t \in Threads \ {"D"} : pc'[t] = pc[t]
  BY <1>1, <1>2 DEF Places, DPlaces, Threads
<1>4. /\ pvt' \in Device /\ pvt'.life = pvt.life /\ pvt'.desired = pvt.desired
      /\ pvt'.current = pvt.current /\ pvt'.when = pvt.when /\ pvt'.connected = pvt.connected
      /\ pvt'.uses = pvt.uses /\ pvt'.must_remove = pvt.must_remove /\ pvt'.thread = FALSE
  BY <1>1, <1>2, Joined
<1>5. Typed'
  BY <1>1, <1>2, <1>3, <1>4 DEF Typed, Threads
<1>6. Locks'
  BY <1>1, <1>2, <1>3, NoneAssumption DEF Locks, Working, Reading, Threads
<1>7. Unloading'
  BY <1>1, <1>2, <1>3, <1>4 DEF Unloading, Threads
<1>8. Served'
  BY <1>1, <1>2, <1>3, <1>4 DEF Served, Working, Threads
<1>9. Unreloaded'
  BY <1>1, <1>2, <1>3, <1>4 DEF Unreloaded, NotBoth, Unloading, Served, Working, Threads
<1> QED BY <1>5, <1>6, <1>7, <1>8, <1>9 DEF IInv

(* The device is left, marked or started. *)
LEMMA DStoppedKeeps == ASSUME IInv, DStopped PROVE IInv'
<1>1. Typed /\ Locks /\ Unloading /\ Served /\ Unreloaded /\ pvt \in Device /\ pc \in Places
  BY DEF IInv, Typed
<1>2. /\ pc["D"] = "stopped" /\ lock = "D" /\ UNCHANGED <<writer, dlock, op, unloading, asked>>
      /\ op.D \in DesiredStates /\ pvt.life = "listed"
      /\ NotBoth => /\ pc["M"] = "none" /\ pvt.thread = FALSE /\ pvt.connected = FALSE
                    /\ pvt.uses = {} /\ pvt.current = "stopped"
  <2>1. /\ pc["D"] = "stopped" /\ UNCHANGED <<writer, dlock, op, unloading, asked>>
    BY DEF DStopped, At, Quiet
  <2>2. lock = "D"
    BY <1>1, <2>1 DEF Locks
  <2>3. op.D \in DesiredStates /\ pvt.life = "listed" /\ (NotBoth => pc["M"] = "none" /\ ~pvt.thread)
    BY <1>1, <2>1 DEF Served, Working
  <2>4. NotBoth => ~pvt.connected /\ pvt.uses = {} /\ pvt.current # "started"
    BY <1>1, <2>3 DEF Served
  <2>. QED BY <1>1, <2>1, <2>2, <2>3, <2>4 DEF Device
<1>3. /\ pvt' \in Device /\ pvt'.life = pvt.life /\ pvt'.current = pvt.current
      /\ pvt'.connected = pvt.connected /\ pvt'.uses = pvt.uses /\ pvt'.thread = pvt.thread
      /\ \/ lock' = None /\ readers' = readers \ {"D"} /\ pc' = [pc EXCEPT !["D"] = "sweep"]
         \/ /\ readers' = readers /\ pvt'.must_remove = pvt.must_remove
            /\ \/ lock' = lock /\ pc' = [pc EXCEPT !["D"] = "open"]
               \/ lock' = None /\ pc' = [pc EXCEPT !["D"] = "probe"]
  <2>1. CASE op.D = "stopped"
    <3>1. /\ lock' = None /\ readers' = readers \ {"D"} /\ pc' = [pc EXCEPT !["D"] = "sweep"] /\ pvt' = pvt
      BY <2>1 DEF DStopped, Goto
    <3>. QED BY <1>1, <3>1
  <2>2. CASE op.D = "removed"
    <3>1. /\ lock' = None /\ readers' = readers \ {"D"} /\ pc' = [pc EXCEPT !["D"] = "sweep"]
          /\ pvt' = [pvt EXCEPT !.must_remove = TRUE]
      BY <2>2 DEF DStopped, Goto
    <3>. QED BY <1>1, <3>1 DEF Device
  <2>3. CASE op.D \in {"restarted", "started"}
    <3>1. /\ pvt' = IF op.D = "restarted" THEN [pvt EXCEPT !.desired = "started"] ELSE pvt
          /\ readers' = readers
          /\ \/ pc' = [pc EXCEPT !["D"] = "open"] /\ lock' = lock
             \/ pc' = [pc EXCEPT !["D"] = "probe"] /\ lock' = None
      BY <2>3 DEF DStopped, Goto
    <3>2. /\ pvt' \in Device /\ pvt'.life = pvt.life /\ pvt'.current = pvt.current
          /\ pvt'.connected = pvt.connected /\ pvt'.uses = pvt.uses /\ pvt'.thread = pvt.thread
          /\ pvt'.must_remove = pvt.must_remove
      BY <1>1, <3>1 DEF Device, DesiredStates
    <3>. QED BY <3>1, <3>2
  <2>. QED BY <1>2, <2>1, <2>2, <2>3 DEF DesiredStates
<1>4. pc' \in Places /\ \A t \in Threads \ {"D"} : pc'[t] = pc[t]
  BY <1>1, <1>3 DEF Places, DPlaces, Threads
<1>5. \/ lock' = None /\ readers' = readers \ {"D"} /\ pc'["D"] = "sweep"
      \/ /\ readers' = readers /\ pvt'.must_remove = pvt.must_remove
         /\ \/ lock' = lock /\ pc'["D"] = "open"
            \/ lock' = None /\ pc'["D"] = "probe"
  BY <1>1, <1>3 DEF Places
<1>6. Typed'
  BY <1>1, <1>2, <1>3, <1>4, <1>5 DEF Typed, Threads
<1>7. Locks'
  BY <1>1, <1>2, <1>4, <1>5, NoneAssumption DEF Locks, Working, Reading, Threads
<1>8. Unloading'
  BY <1>1, <1>2, <1>3, <1>4, <1>5 DEF Unloading, Threads
<1>9. Served'
  BY <1>1, <1>2, <1>3, <1>4, <1>5 DEF Served, Working, Threads
<1>10. Unreloaded'
  BY <1>1, <1>2, <1>3, <1>4, <1>5 DEF Unreloaded, NotBoth, Threads
<1> QED BY <1>6, <1>7, <1>8, <1>9, <1>10 DEF IInv

LEMMA DProbeKeeps == ASSUME IInv, DProbe PROVE IInv'
<1> USE DEF DProbe, At, Goto, Quiet, Lists
<1>1. Typed'
  <2>1. pc' \in Places /\ pc'["C"] = pc["C"]
    BY DEF IInv, Typed, Places, DPlaces
  <2>. QED BY <2>1 DEF IInv, Typed
<1>2. Locks'
  BY NoneAssumption DEF IInv, Typed, Places, Locks, Working, Reading, Threads
<1>3. Unloading'
  BY DEF IInv, Typed, Places, Unloading
<1>4. Served'
  BY DEF IInv, Typed, Places, Served, Working
<1>5. Unreloaded'
  BY DEF IInv, Typed, Places, Unreloaded, NotBoth, Served, Working
<1> QED BY <1>1, <1>2, <1>3, <1>4, <1>5 DEF IInv

LEMMA DOpensKeeps == ASSUME IInv, DOpens PROVE IInv'
<1>1. Typed /\ Locks /\ Unloading /\ Served /\ Unreloaded /\ pvt \in Device /\ pc \in Places
  BY DEF IInv, Typed
<1>2. /\ pc["D"] = "open" /\ lock' = None /\ readers' = readers \ {"D"}
      /\ pvt' = [pvt EXCEPT !.connected = TRUE, !.current = "started", !.thread = TRUE]
      /\ pc' = [pc EXCEPT !["D"] = "sweep", !["M"] = "loop"]
      /\ UNCHANGED <<writer, dlock, op, unloading, asked>>
  BY DEF DOpens, At, Goto2, Quiet
<1>3. /\ pc' \in Places /\ pc'["D"] = "sweep" /\ pc'["M"] = "loop"
      /\ \A t \in Threads \ {"D", "M"} : pc'[t] = pc[t]
  BY <1>1, <1>2 DEF Places, DPlaces, MPlaces, Threads
<1>4. /\ pvt' \in Device /\ pvt'.life = pvt.life /\ pvt'.current = "started" /\ pvt'.when = pvt.when
      /\ pvt'.connected = TRUE /\ pvt'.uses = pvt.uses /\ pvt'.must_remove = pvt.must_remove
      /\ pvt'.thread = TRUE
  BY <1>1, <1>2 DEF Device
<1>5. pvt.life = "listed" /\ lock = "D" /\ (NotBoth => pvt.uses = {} /\ pc["M"] = "none")
  BY <1>1, <1>2 DEF Served, Working, Locks
<1>6. Typed'
  BY <1>1, <1>2, <1>3, <1>4 DEF Typed, Threads
<1>7. Locks'
  BY <1>1, <1>2, <1>3, <1>5, NoneAssumption DEF Locks, Working, Reading, Threads
<1>8. Unloading'
  BY <1>1, <1>2, <1>3, <1>4 DEF Unloading, Threads
<1>9. Served'
  BY <1>1, <1>2, <1>3, <1>4 DEF Served, Working, Threads
<1>10. Unreloaded'
  BY <1>1, <1>2, <1>3, <1>4, <1>5 DEF Unreloaded, NotBoth, Threads
<1> QED BY <1>6, <1>7, <1>8, <1>9, <1>10 DEF IInv
LEMMA DOpenFailsKeeps == ASSUME IInv, DOpenFails PROVE IInv'
<1>1. Typed /\ Locks /\ Unloading /\ Served /\ Unreloaded /\ pvt \in Device /\ pc \in Places
  BY DEF IInv, Typed
<1>2. /\ pc["D"] = "open" /\ lock' = None /\ readers' = readers \ {"D"} /\ pvt' = pvt
      /\ pc' = [pc EXCEPT !["D"] = "sweep"]
      /\ UNCHANGED <<writer, dlock, op, unloading, asked>>
  BY DEF DOpenFails, At, Goto, Quiet
<1>3. pc' \in Places /\ pc'["D"] = "sweep" /\ \A t \in Threads \ {"D"} : pc'[t] = pc[t]
  BY <1>1, <1>2 DEF Places, DPlaces, Threads
<1>4. lock = "D" /\ (NotBoth => pc["M"] = "none")
  BY <1>1, <1>2 DEF Locks, Served, Working
<1>5. Typed'
  BY <1>1, <1>2, <1>3, <1>4 DEF Typed, Threads
<1>6. Locks'
  BY <1>1, <1>2, <1>3, <1>4, NoneAssumption DEF Locks, Working, Reading, Threads
<1>7. Unloading'
  BY <1>1, <1>2, <1>3, <1>4 DEF Unloading, Threads
<1>8. Served'
  BY <1>1, <1>2, <1>3, <1>4 DEF Served, Working, Threads
<1>9. Unreloaded'
  BY <1>1, <1>2, <1>3, <1>4 DEF Unreloaded, NotBoth, Threads
<1> QED BY <1>5, <1>6, <1>7, <1>8, <1>9 DEF IInv

LEMMA DSweepKeeps == ASSUME IInv, DSweep PROVE IInv'
<1>1. Typed /\ Locks /\ Unloading /\ Served /\ Unreloaded /\ pvt \in Device /\ pc \in Places
  BY DEF IInv, Typed
<1>2. /\ pc["D"] = "sweep" /\ writer = None /\ readers = {} /\ writer' = "D" /\ readers' = readers
      /\ pc' = [pc EXCEPT !["D"] = "sweeping"]
      /\ UNCHANGED <<pvt, lock, dlock, op, unloading, asked>>
  BY DEF DSweep, At, Goto, Quiet
<1>3. pc' \in Places /\ pc'["D"] = "sweeping" /\ \A t \in Threads \ {"D"} : pc'[t] = pc[t]
  BY <1>1, <1>2 DEF Places, DPlaces, Threads
<1>4. Typed'
  BY <1>1, <1>2, <1>3 DEF Typed, Threads
<1>5. Locks'
  BY <1>1, <1>2, <1>3, NoneAssumption DEF Locks, Working, Reading, Threads
<1>6. Unloading'
  BY <1>1, <1>2, <1>3 DEF Unloading, Threads
<1>7. Served'
  BY <1>1, <1>2, <1>3 DEF Served, Working, Threads
<1>8. Unreloaded'
  BY <1>1, <1>2, <1>3 DEF Unreloaded, NotBoth, Threads
<1> QED BY <1>4, <1>5, <1>6, <1>7, <1>8 DEF IInv

LEMMA DSweptKeeps == ASSUME IInv, DSwept PROVE IInv'
<1>1. Typed /\ Locks /\ Unloading /\ Served /\ Unreloaded /\ pvt \in Device /\ pc \in Places
  BY DEF IInv, Typed
<1>2. /\ pc["D"] = "sweeping" /\ (Listed => lock = None) /\ writer' = None
      /\ pc' = [pc EXCEPT !["D"] = IF unloading THEN "top" ELSE "sleep"]
      /\ pvt' = IF Listed /\ pvt.must_remove THEN [pvt EXCEPT !.life = "freed"] ELSE pvt
      /\ UNCHANGED <<lock, readers, dlock, op, unloading, asked>>
  BY DEF DSwept, At, Goto, Quiet
<1>3. /\ pc' \in Places /\ pc'["D"] \in {"top", "sleep"}
      /\ \A t \in Threads \ {"D"} : pc'[t] = pc[t]
  BY <1>1, <1>2 DEF Places, DPlaces, Threads
<1>4. /\ pvt' \in Device /\ pvt'.thread = pvt.thread /\ pvt'.connected = pvt.connected
      /\ pvt'.current = pvt.current /\ pvt'.uses = pvt.uses /\ pvt'.desired = pvt.desired
      /\ pvt'.when = pvt.when /\ pvt'.must_remove = pvt.must_remove
      /\ \/ pvt.life = "listed" /\ pvt.must_remove /\ pvt'.life = "freed" /\ lock = None
         \/ ~(pvt.life = "listed" /\ pvt.must_remove) /\ pvt'.life = pvt.life
  BY <1>1, <1>2 DEF Device, Listed
<1>5. writer = "D" /\ pc["U"] \notin {"destroying", "join"} /\ readers = {}
  BY <1>1, <1>2, NoneAssumption DEF Locks, Threads
<1>6. pvt.life \in {"listed", "freed"}
  BY <1>1, <1>5 DEF Unloading, Device
<1>7. Typed'
  BY <1>1, <1>2, <1>3, <1>4, <1>5, <1>6 DEF Typed, Threads
<1>8. Locks'
  BY <1>1, <1>2, <1>3, <1>4, <1>5, <1>6, NoneAssumption DEF Locks, Working, Reading, Threads
<1>9. Unloading'
  BY <1>1, <1>2, <1>3, <1>4, <1>5, <1>6 DEF Unloading, Threads
<1>10. Served'
  BY <1>1, <1>2, <1>3, <1>4, <1>5, <1>6 DEF Served, Working, Threads
<1>11. Unreloaded'
  BY <1>1, <1>2, <1>3, <1>4, <1>5, <1>6 DEF Unreloaded, NotBoth, Threads
<1> QED BY <1>7, <1>8, <1>9, <1>10, <1>11 DEF IInv

LEMMA DWakesKeeps == ASSUME IInv, DWakes PROVE IInv'
<1>1. Typed /\ Locks /\ Unloading /\ Served /\ Unreloaded /\ pvt \in Device /\ pc \in Places
  BY DEF IInv, Typed
<1>2. /\ pc["D"] = "sleep" /\ pc' = [pc EXCEPT !["D"] = "top"]
      /\ UNCHANGED <<pvt, lock, readers, writer, dlock, op, unloading, asked>>
  BY DEF DWakes, At, Goto, Quiet, Lists
<1>3. pc' \in Places /\ pc'["D"] = "top" /\ \A t \in Threads \ {"D"} : pc'[t] = pc[t]
  BY <1>1, <1>2 DEF Places, DPlaces, Threads
<1>4. Typed'
  BY <1>1, <1>2, <1>3 DEF Typed, Threads
<1>5. Locks'
  BY <1>1, <1>2, <1>3, NoneAssumption DEF Locks, Working, Reading, Threads
<1>6. Unloading'
  BY <1>1, <1>2, <1>3 DEF Unloading, Threads
<1>7. Served'
  BY <1>1, <1>2, <1>3 DEF Served, Working, Threads
<1>8. Unreloaded'
  BY <1>1, <1>2, <1>3 DEF Unreloaded, NotBoth, Threads
<1> QED BY <1>4, <1>5, <1>6, <1>7, <1>8 DEF IInv

(* pvt_try_restate: only when the change is due is touched. *)
LEMMA RestatedLeaves ==
  ASSUME NEW p \in Device
  PROVE  LET q == Restated(p)
         IN  /\ q \in Device /\ q.life = p.life /\ q.desired = p.desired /\ q.thread = p.thread
             /\ q.must_remove = p.must_remove /\ q.uses = p.uses /\ q.connected = p.connected
             /\ q.current = p.current /\ q.terminate = p.terminate
             /\ q.when = p.when \/ "call" \notin p.uses
BY DEF Restated, pvt_time4restate, Device, Times

-----------------------------------------------------------------------------
(* The monitor thread. *)

(* The device is left as it was but for its calls, or served no more. *)
LEMMA DisconnectLeaves ==
  ASSUME IInv, Alive, NEW p \in Device, p.life = pvt.life, p.desired = pvt.desired,
         p.current = pvt.current, p.when = pvt.when, p.connected = pvt.connected,
         p.must_remove = pvt.must_remove, p.thread = pvt.thread, p.uses = pvt.uses, Disconnect(p)
  PROVE  /\ pvt' \in Device /\ pc' \in Places /\ \A t \in Threads \ {"M"} : pc'[t] = pc[t]
         /\ pvt'.life = pvt.life /\ pvt'.desired = pvt.desired /\ pvt'.thread = pvt.thread
         /\ pvt'.must_remove = pvt.must_remove /\ "call" \notin pvt'.uses /\ pvt'.uses \subseteq pvt.uses
         /\ pvt'.terminate = p.terminate
         /\ \/ /\ pvt'.connected = pvt.connected /\ pvt'.current = pvt.current
               /\ lock' = "M" /\ pc'["M"] = "kick_disconnect"
            \/ /\ pvt'.connected = FALSE /\ pvt'.current = "stopped" /\ pvt'.uses = {}
               /\ lock' = lock /\ pc'["M"] = "end"
<1> DEFINE q == [p EXCEPT !.uses = @ \ {"call"}]
<1>1. pvt \in Device /\ pc \in Places
  BY DEF IInv, Typed
<1>2. /\ q \in Device /\ q.life = p.life /\ q.desired = p.desired /\ q.current = p.current
      /\ q.connected = p.connected /\ q.must_remove = p.must_remove /\ q.thread = p.thread
      /\ q.terminate = p.terminate /\ q.uses = p.uses \ {"call"}
  BY DEF Device
<1>3. \/ pvt' = Restated(q) /\ lock' = "M" /\ pc' = [pc EXCEPT !["M"] = "kick_disconnect"]
      \/ pvt' = Disconnected(p) /\ lock' = lock /\ pc' = [pc EXCEPT !["M"] = "end"]
  BY DEF Disconnect, Goto
<1> HIDE DEF q
<1>4. CASE pvt' = Restated(q) /\ lock' = "M" /\ pc' = [pc EXCEPT !["M"] = "kick_disconnect"]
  <2>1. /\ pc' \in Places /\ pc'["M"] = "kick_disconnect" /\ \A t \in Threads \ {"M"} : pc'[t] = pc[t]
    BY <1>1, <1>4 DEF Places, MPlaces, Threads
  <2>2. /\ pvt' \in Device /\ pvt'.life = q.life /\ pvt'.desired = q.desired /\ pvt'.thread = q.thread
        /\ pvt'.must_remove = q.must_remove /\ pvt'.uses = q.uses /\ pvt'.connected = q.connected
        /\ pvt'.current = q.current /\ pvt'.terminate = q.terminate
    BY <1>2, <1>4, RestatedLeaves
  <2>. QED BY <1>2, <1>4, <2>1, <2>2
<1>5. CASE pvt' = Disconnected(p) /\ lock' = lock /\ pc' = [pc EXCEPT !["M"] = "end"]
  <2>1. /\ pc' \in Places /\ pc'["M"] = "end" /\ \A t \in Threads \ {"M"} : pc'[t] = pc[t]
    BY <1>1, <1>5 DEF Places, MPlaces, Threads
  <2>2. /\ pvt' \in Device /\ pvt'.life = p.life /\ pvt'.desired = p.desired /\ pvt'.thread = p.thread
        /\ pvt'.must_remove = p.must_remove /\ pvt'.uses = {} /\ pvt'.connected = FALSE
        /\ pvt'.current = "stopped" /\ pvt'.terminate = p.terminate
    BY <1>5 DEF Disconnected, Device
  <2>. QED BY <1>5, <2>1, <2>2
<1> QED BY <1>3, <1>4, <1>5

LEMMA MTerminatesKeeps == ASSUME IInv, MTerminates PROVE IInv'
<1>1. Typed /\ Locks /\ Unloading /\ Served /\ Unreloaded /\ pvt \in Device /\ pc \in Places
  BY DEF IInv, Typed
<1>2. Alive /\ Disconnect(pvt) /\ UNCHANGED <<readers, writer, dlock, op, unloading, asked>>
  BY DEF MTerminates, Quiet, Lists
<1>3. pc["M"] = "loop" /\ pvt.life # "freed" /\ lock = None
  BY <1>2 DEF Alive, At
<1>4. /\ pvt' \in Device /\ pc' \in Places /\ \A t \in Threads \ {"M"} : pc'[t] = pc[t]
      /\ pvt'.life = pvt.life /\ pvt'.desired = pvt.desired /\ pvt'.thread = pvt.thread
      /\ pvt'.must_remove = pvt.must_remove /\ "call" \notin pvt'.uses /\ pvt'.uses \subseteq pvt.uses
      /\ \/ /\ pvt'.connected = pvt.connected /\ pvt'.current = pvt.current
            /\ lock' = "M" /\ pc'["M"] = "kick_disconnect"
         \/ /\ pvt'.connected = FALSE /\ pvt'.current = "stopped" /\ pvt'.uses = {}
            /\ lock' = lock /\ pc'["M"] = "end"
  BY <1>1, <1>2, DisconnectLeaves
<1>5. Typed'
  BY <1>1, <1>2, <1>3, <1>4 DEF Typed, Threads
<1>6. Locks'
  BY <1>1, <1>2, <1>3, <1>4, NoneAssumption DEF Locks, Working, Reading, Threads
<1>7. Unloading'
  BY <1>1, <1>2, <1>3, <1>4 DEF Unloading, Threads
<1>8. Served'
  BY <1>1, <1>2, <1>3, <1>4 DEF Served, Working, Threads
<1>9. Unreloaded'
  BY <1>1, <1>2, <1>3, <1>4 DEF Unreloaded, NotBoth, Threads
<1> QED BY <1>5, <1>6, <1>7, <1>8, <1>9 DEF IInv

LEMMA MLosesKeeps == ASSUME IInv, MLoses PROVE IInv'
<1>1. Typed /\ Locks /\ Unloading /\ Served /\ Unreloaded /\ pvt \in Device /\ pc \in Places
  BY DEF IInv, Typed
<1>2. Alive /\ Disconnect([pvt EXCEPT !.terminate = FALSE]) /\ UNCHANGED <<readers, writer, dlock, op, unloading, asked>>
  BY DEF MLoses, Quiet, Lists
<1>3. pc["M"] = "loop" /\ pvt.life # "freed" /\ lock = None
  BY <1>2 DEF Alive, At
<1>4. /\ pvt' \in Device /\ pc' \in Places /\ \A t \in Threads \ {"M"} : pc'[t] = pc[t]
      /\ pvt'.life = pvt.life /\ pvt'.desired = pvt.desired /\ pvt'.thread = pvt.thread
      /\ pvt'.must_remove = pvt.must_remove /\ "call" \notin pvt'.uses /\ pvt'.uses \subseteq pvt.uses
      /\ \/ /\ pvt'.connected = pvt.connected /\ pvt'.current = pvt.current
            /\ lock' = "M" /\ pc'["M"] = "kick_disconnect"
         \/ /\ pvt'.connected = FALSE /\ pvt'.current = "stopped" /\ pvt'.uses = {}
            /\ lock' = lock /\ pc'["M"] = "end"
  <2> DEFINE p == [pvt EXCEPT !.terminate = FALSE]
  <2>1. /\ p \in Device /\ p.life = pvt.life /\ p.desired = pvt.desired
        /\ p.current = pvt.current /\ p.when = pvt.when /\ p.connected = pvt.connected
        /\ p.must_remove = pvt.must_remove /\ p.thread = pvt.thread /\ p.uses = pvt.uses
    BY <1>1 DEF Device
  <2>2. Disconnect(p)
    BY <1>2
  <2> HIDE DEF p
  <2>. QED BY <1>2, <2>1, <2>2, DisconnectLeaves
<1>5. Typed'
  BY <1>1, <1>2, <1>3, <1>4 DEF Typed, Threads
<1>6. Locks'
  BY <1>1, <1>2, <1>3, <1>4, NoneAssumption DEF Locks, Working, Reading, Threads
<1>7. Unloading'
  BY <1>1, <1>2, <1>3, <1>4 DEF Unloading, Threads
<1>8. Served'
  BY <1>1, <1>2, <1>3, <1>4 DEF Served, Working, Threads
<1>9. Unreloaded'
  BY <1>1, <1>2, <1>3, <1>4 DEF Unreloaded, NotBoth, Threads
<1> QED BY <1>5, <1>6, <1>7, <1>8, <1>9 DEF IInv

LEMMA UseBeginsKeeps == ASSUME IInv, NEW use \in Uses, UseBegins(use) PROVE IInv'
<1>1. Typed /\ Locks /\ Unloading /\ Served /\ Unreloaded /\ pvt \in Device /\ pc \in Places
  BY DEF IInv, Typed
<1>2. /\ Alive /\ pvt_enabled(pvt) /\ pvt' = [pvt EXCEPT !.uses = @ \cup {use}] /\ use \in Uses
      /\ UNCHANGED <<lock, readers, writer, dlock, pc, op, unloading, asked>>
  BY DEF UseBegins, Quiet, Lists
<1>3. pc["M"] = "loop" /\ pvt.life # "freed" /\ lock = None
  BY <1>2 DEF Alive, At
<1>4. /\ pvt' \in Device /\ pvt'.life = pvt.life /\ pvt'.desired = pvt.desired
      /\ pvt'.current = pvt.current /\ pvt'.when = pvt.when /\ pvt'.connected = pvt.connected
      /\ pvt'.must_remove = pvt.must_remove /\ pvt'.thread = pvt.thread
  BY <1>1, <1>2 DEF Device
<1>5. pvt.current = "started" /\ (pvt.desired = pvt.current \/ pvt.when = "convenient")
  BY <1>2 DEF pvt_enabled
<1>6. Typed'
  BY <1>1, <1>2, <1>3, <1>4, <1>5 DEF Typed, Threads
<1>7. Locks'
  BY <1>1, <1>2, <1>3, <1>4, <1>5, NoneAssumption DEF Locks, Working, Reading, Threads
<1>8. Unloading'
  BY <1>1, <1>2, <1>3, <1>4, <1>5 DEF Unloading, Threads
<1>9. Served'
  BY <1>1, <1>2, <1>3, <1>4, <1>5 DEF Served, Working, Threads
<1>10. Unreloaded'
  BY <1>1, <1>2, <1>3, <1>4, <1>5 DEF Unreloaded, NotBoth, Threads
<1> QED BY <1>6, <1>7, <1>8, <1>9, <1>10 DEF IInv

LEMMA UseEndsKeeps == ASSUME IInv, NEW use \in Uses, UseEnds(use) PROVE IInv'
<1>1. Typed /\ Locks /\ Unloading /\ Served /\ Unreloaded /\ pvt \in Device /\ pc \in Places
  BY DEF IInv, Typed
<1> DEFINE p == [pvt EXCEPT !.uses = @ \ {use}]
<1>2. /\ Alive /\ pvt' = Restated(p) /\ UNCHANGED <<readers, writer, dlock, op, unloading, asked>>
      /\ \/ lock' = "M" /\ pc' = [pc EXCEPT !["M"] = "kick"]
         \/ lock' = lock /\ pc' = pc
  BY DEF UseEnds, Quiet, Lists, Goto
<1>3. pc["M"] = "loop" /\ pvt.life # "freed" /\ lock = None
  BY <1>2 DEF Alive, At
<1>4. /\ p \in Device /\ p.life = pvt.life /\ p.desired = pvt.desired /\ p.thread = pvt.thread
      /\ p.must_remove = pvt.must_remove /\ p.uses \subseteq pvt.uses /\ p.connected = pvt.connected
      /\ p.current = pvt.current /\ p.when = pvt.when
  BY <1>1 DEF Device
<1> HIDE DEF p
<1>5. /\ pvt' \in Device /\ pvt'.life = p.life /\ pvt'.desired = p.desired /\ pvt'.thread = p.thread
      /\ pvt'.must_remove = p.must_remove /\ pvt'.uses = p.uses /\ pvt'.connected = p.connected
      /\ pvt'.current = p.current
      /\ pvt'.when = p.when \/ "call" \notin p.uses
  BY <1>2, <1>4, RestatedLeaves
<1>6. /\ pc' \in Places /\ \A t \in Threads \ {"M"} : pc'[t] = pc[t]
      /\ \/ lock' = "M" /\ pc'["M"] = "kick"
         \/ lock' = lock /\ pc'["M"] = pc["M"]
  BY <1>1, <1>2 DEF Places, MPlaces, Threads
<1>7. UNCHANGED <<readers, writer, dlock, op, unloading, asked>>
  BY <1>2
<1>8. /\ pvt' \in Device /\ pvt'.life = pvt.life /\ pvt'.desired = pvt.desired
      /\ pvt'.thread = pvt.thread /\ pvt'.must_remove = pvt.must_remove /\ pvt'.uses \subseteq pvt.uses
      /\ pvt'.connected = pvt.connected /\ pvt'.current = pvt.current
      /\ pvt'.when = pvt.when \/ "call" \notin pvt'.uses
  BY <1>4, <1>5
<1>9. Typed'
  BY <1>1, <1>3, <1>6, <1>7, <1>8 DEF Typed, Threads
<1>10. Locks'
  BY <1>1, <1>3, <1>6, <1>7, <1>8, NoneAssumption DEF Locks, Working, Reading, Threads
<1>11. Unloading'
  BY <1>1, <1>3, <1>6, <1>7, <1>8 DEF Unloading, Threads
<1>12. Served'
  BY <1>1, <1>3, <1>6, <1>7, <1>8 DEF Served, Working, Threads
<1>13. Unreloaded'
  BY <1>1, <1>3, <1>6, <1>7, <1>8 DEF Unreloaded, NotBoth, Threads
<1> QED BY <1>9, <1>10, <1>11, <1>12, <1>13 DEF IInv

LEMMA MKicksKeeps == ASSUME IInv, MKicks PROVE IInv'
<1>1. Typed /\ Locks /\ Unloading /\ Served /\ Unreloaded /\ pvt \in Device /\ pc \in Places
  BY DEF IInv, Typed
<1>2. /\ lock' = None /\ UNCHANGED <<readers, writer, dlock, op, unloading, asked>>
      /\ \/ pc["M"] = "kick" /\ pc' = [pc EXCEPT !["M"] = "loop"] /\ pvt' = pvt
         \/ /\ pc["M"] = "kick_disconnect" /\ pc' = [pc EXCEPT !["M"] = "end"]
            /\ pvt' = Disconnected(pvt)
  BY DEF MKicks, At, Goto, Quiet, Lists
<1>3. /\ pc' \in Places /\ \A t \in Threads \ {"M"} : pc'[t] = pc[t]
      /\ pvt' \in Device /\ pvt'.life = pvt.life /\ pvt'.desired = pvt.desired
      /\ pvt'.thread = pvt.thread /\ pvt'.must_remove = pvt.must_remove /\ pvt'.uses \subseteq pvt.uses
      /\ pvt'.when = pvt.when
      /\ \/ pc'["M"] = "loop" /\ pvt' = pvt
         \/ pc'["M"] = "end" /\ pvt'.connected = FALSE /\ pvt'.current = "stopped" /\ pvt'.uses = {}
  <2>1. CASE pc["M"] = "kick" /\ pc' = [pc EXCEPT !["M"] = "loop"] /\ pvt' = pvt
    BY <1>1, <2>1 DEF Places, MPlaces, Threads
  <2>2. CASE /\ pc["M"] = "kick_disconnect" /\ pc' = [pc EXCEPT !["M"] = "end"]
             /\ pvt' = Disconnected(pvt)
    <3>1. /\ pvt' \in Device /\ pvt'.life = pvt.life /\ pvt'.desired = pvt.desired
          /\ pvt'.thread = pvt.thread /\ pvt'.must_remove = pvt.must_remove /\ pvt'.uses = {}
          /\ pvt'.when = pvt.when /\ pvt'.connected = FALSE /\ pvt'.current = "stopped"
      BY <1>1, <2>2 DEF Disconnected, Device
    <3>2. pc' \in Places /\ pc'["M"] = "end" /\ \A t \in Threads \ {"M"} : pc'[t] = pc[t]
      BY <1>1, <2>2 DEF Places, MPlaces, Threads
    <3>. QED BY <3>1, <3>2
  <2>. QED BY <1>2, <2>1, <2>2
<1>4. lock = "M" /\ pc["M"] \in {"kick", "kick_disconnect"}
  BY <1>1, <1>2 DEF Locks
<1>5. lock' = None /\ UNCHANGED <<readers, writer, dlock, op, unloading, asked>>
  BY <1>2
<1>6. Typed'
  BY <1>1, <1>3, <1>4, <1>5 DEF Typed, Threads
<1>7. Locks'
  BY <1>1, <1>3, <1>4, <1>5, NoneAssumption DEF Locks, Working, Reading, Threads
<1>8. Unloading'
  BY <1>1, <1>3, <1>4, <1>5 DEF Unloading, Threads
<1>9. Served'
  BY <1>1, <1>3, <1>4, <1>5 DEF Served, Working, Threads
<1>10. Unreloaded'
  BY <1>1, <1>3, <1>4, <1>5 DEF Unreloaded, NotBoth, Threads
<1> QED BY <1>6, <1>7, <1>8, <1>9, <1>10 DEF IInv

-----------------------------------------------------------------------------
(* Commands. *)

LEMMA CReadsKeeps ==
  ASSUME IInv, pc["C"] \in {"idle", "find_conf", "marked"}, NEW what, NEW place, CReads(what, place),
         \/ place = "find" /\ what \in Request
         \/ /\ place \in {"mark", "configure", "remove"} /\ what \in Reload
            /\ place = "configure" => what.conf # "absent"
  PROVE  IInv'
<1>1. Typed /\ Locks /\ Unloading /\ Served /\ Unreloaded /\ pvt \in Device /\ pc \in Places
  BY DEF IInv, Typed
<1>2. /\ writer = None /\ ~unloading /\ readers' = readers \cup {"C"}
      /\ op' = [op EXCEPT !.C = what] /\ pc' = [pc EXCEPT !["C"] = place]
      /\ UNCHANGED <<pvt, lock, writer, dlock, unloading, asked>>
  BY DEF CReads, Goto, Quiet
<1>3. pc' \in Places /\ pc'["C"] = place /\ \A t \in Threads \ {"C"} : pc'[t] = pc[t]
  BY <1>1, <1>2 DEF Places, CPlaces, Threads
<1>4. /\ op' \in [D : {None} \cup DesiredStates, C : {None} \cup Request \cup Reload]
      /\ op'.C = what /\ op'.D = op.D
  BY <1>1, <1>2 DEF Typed
<1>5. what \in Reload => Configs # {}
  BY DEF Reload
<1>6. pc["U"] = "idle"
  BY <1>1, <1>2 DEF Unloading
<1>7. Typed'
  BY <1>1, <1>2, <1>3, <1>4, <1>5, <1>6 DEF Typed, Threads
<1>8. Locks'
  BY <1>1, <1>2, <1>3, <1>4, <1>5, <1>6, NoneAssumption DEF Locks, Working, Reading, Threads
<1>9. Unloading'
  BY <1>1, <1>2, <1>3, <1>4, <1>5, <1>6 DEF Unloading, Threads
<1>10. Served'
  BY <1>1, <1>2, <1>3, <1>4, <1>5, <1>6 DEF Served, Working, Threads
<1>11. Unreloaded'
  BY <1>1, <1>2, <1>3, <1>4, <1>5, <1>6 DEF Unreloaded, NotBoth, Threads
<1> QED BY <1>7, <1>8, <1>9, <1>10, <1>11 DEF IInv

LEMMA CAsksKeeps ==
  ASSUME IInv, NEW event \in Events, NEW when \in Whens, CAsks(event, when) PROVE IInv'
<1>1. [event |-> event, when |-> when] \in Request
  BY RequestsAssumption DEF Request, DesiredStates, Times
<1> QED BY <1>1, CReadsKeeps DEF CAsks, At

LEMMA CReloadsKeeps ==
  ASSUME IInv, NEW conf \in Configs, NEW changed \in Changes, NEW when \in Whens,
         CReloads(conf, changed, when)
  PROVE  IInv'
<1>1. [conf |-> conf, changed |-> changed, when |-> when, restart |-> FALSE] \in Reload
  BY RequestsAssumption DEF Reload, Times
<1> QED BY <1>1, CReadsKeeps DEF CReloads, At

LEMMA CReadsAgainKeeps == ASSUME IInv, CReadsAgain PROVE IInv'
<1>1. /\ pc["C"] \in {"find_conf", "marked"} => op.C \in Reload
      /\ pc["C"] = "find_conf" => op.C.conf # "absent"
  BY DEF IInv, Typed, CPlaces
<1>2. CASE At("C", "find_conf") /\ CReads(op.C, "configure")
  BY <1>1, <1>2, CReadsKeeps DEF At
<1>3. CASE At("C", "marked") /\ CReads(op.C, "remove")
  BY <1>1, <1>3, CReadsKeeps DEF At
<1> QED BY <1>2, <1>3 DEF CReadsAgain

LEMMA CSchedulesKeeps == ASSUME IInv, CSchedules PROVE IInv'
<1>1. Typed /\ Locks /\ Unloading /\ Served /\ Unreloaded /\ pvt \in Device /\ pc \in Places
  BY DEF IInv, Typed
<1> DEFINE p == [pvt EXCEPT !.desired = op.C.event, !.when = op.C.when]
<1>2. /\ pc["C"] = "find" /\ readers' = readers \ {"C"} /\ UNCHANGED <<writer, dlock, unloading, op>>
      /\ \/ pc' = [pc EXCEPT !["C"] = "idle"] /\ UNCHANGED <<pvt, lock, asked>>
         \/ /\ pvt.life = "listed" /\ lock = None /\ asked' = op.C /\ pvt' = Restated(p)
            /\ \/ lock' = "C" /\ pc' = [pc EXCEPT !["C"] = "kick"]
               \/ lock' = lock /\ pc' = [pc EXCEPT !["C"] = "idle"]
  BY DEF CSchedules, At, Goto, Listed
<1>3. op.C \in Request
  BY <1>1, <1>2 DEF Typed
<1>4. /\ p \in Device /\ p.life = pvt.life /\ p.when = op.C.when /\ p.thread = pvt.thread
      /\ p.must_remove = pvt.must_remove /\ p.uses = pvt.uses /\ p.connected = pvt.connected
      /\ p.current = pvt.current
  BY <1>1, <1>3 DEF Device, Request
<1> HIDE DEF p
<1>5. /\ pc' \in Places /\ \A t \in Threads \ {"C"} : pc'[t] = pc[t]
      /\ \/ pc'["C"] = "idle" /\ lock' = lock
         \/ pc'["C"] = "kick" /\ lock' = "C" /\ lock = None /\ pvt.life = "listed"
  BY <1>1, <1>2 DEF Places, CPlaces, Threads
<1>6. /\ pvt' \in Device /\ pvt'.life = pvt.life /\ pvt'.thread = pvt.thread /\ asked' \in Request
      /\ pvt'.must_remove = pvt.must_remove /\ pvt'.uses = pvt.uses
      /\ pvt'.connected = pvt.connected /\ pvt'.current = pvt.current
      /\ \/ pvt' = pvt /\ asked' = asked
         \/ pvt'.when = asked'.when \/ "call" \notin pvt.uses
  <2>1. CASE UNCHANGED <<pvt, lock, asked>>
    BY <1>1, <2>1 DEF Typed
  <2>2. CASE asked' = op.C /\ pvt' = Restated(p)
    <3>1. /\ pvt' \in Device /\ pvt'.life = p.life /\ pvt'.thread = p.thread
          /\ pvt'.must_remove = p.must_remove /\ pvt'.uses = p.uses
          /\ pvt'.connected = p.connected /\ pvt'.current = p.current
          /\ pvt'.when = p.when \/ "call" \notin p.uses
      BY <1>4, <2>2, RestatedLeaves
    <3>. QED BY <1>3, <1>4, <2>2, <3>1
  <2>. QED BY <1>2, <2>1, <2>2
<1>7. readers' = readers \ {"C"} /\ UNCHANGED <<writer, dlock, unloading, op>> /\ pc["C"] = "find"
  BY <1>2
<1>8. Typed'
  BY <1>1, <1>5, <1>6, <1>7 DEF Typed, Threads
<1>9. Locks'
  BY <1>1, <1>5, <1>6, <1>7, NoneAssumption DEF Locks, Working, Reading, Threads
<1>10. Unloading'
  BY <1>1, <1>5, <1>6, <1>7 DEF Unloading, Threads
<1>11. Served'
  BY <1>1, <1>5, <1>6, <1>7 DEF Served, Working, Threads
<1>12. Unreloaded'
  BY <1>1, <1>5, <1>6, <1>7 DEF Unreloaded, NotBoth, Threads
<1> QED BY <1>8, <1>9, <1>10, <1>11, <1>12 DEF IInv

LEMMA CKicksKeeps == ASSUME IInv, CKicks PROVE IInv'
<1>1. Typed /\ Locks /\ Unloading /\ Served /\ Unreloaded /\ pvt \in Device /\ pc \in Places
  BY DEF IInv, Typed
<1>2. /\ pc["C"] = "kick" /\ lock' = IF lock = "C" THEN None ELSE lock
      /\ pc' = [pc EXCEPT !["C"] = "idle"]
      /\ UNCHANGED <<pvt, readers, writer, dlock, op, unloading, asked>>
  BY DEF CKicks, At, Goto, Quiet, Lists
<1>3. pc' \in Places /\ pc'["C"] = "idle" /\ \A t \in Threads \ {"C"} : pc'[t] = pc[t]
  BY <1>1, <1>2 DEF Places, CPlaces, Threads
<1>4. lock' \in {None, "D", "M"} /\ (lock = "C" => lock' = None) /\ (lock # "C" => lock' = lock)
  BY <1>1, <1>2 DEF Typed
<1>5. UNCHANGED <<pvt, readers, writer, dlock, op, unloading, asked>> /\ pc["C"] = "kick"
  BY <1>2
<1>6. Typed'
  BY <1>1, <1>3, <1>4, <1>5 DEF Typed, Threads
<1>7. Locks'
  BY <1>1, <1>3, <1>4, <1>5, NoneAssumption DEF Locks, Working, Reading, Threads
<1>8. Unloading'
  BY <1>1, <1>3, <1>4, <1>5 DEF Unloading, Threads
<1>9. Served'
  BY <1>1, <1>3, <1>4, <1>5 DEF Served, Working, Threads
<1>10. Unreloaded'
  BY <1>1, <1>3, <1>4, <1>5 DEF Unreloaded, NotBoth, Threads
<1> QED BY <1>6, <1>7, <1>8, <1>9, <1>10 DEF IInv

LEMMA CMarksKeeps == ASSUME IInv, CMarks PROVE IInv'
<1>1. Typed /\ Locks /\ Unloading /\ Served /\ Unreloaded /\ pvt \in Device /\ pc \in Places
  BY DEF IInv, Typed
<1>2. /\ pc["C"] = "mark" /\ readers' = readers \ {"C"}
      /\ pvt' = IF Listed THEN [pvt EXCEPT !.must_remove = TRUE] ELSE pvt
      /\ pc' = [pc EXCEPT !["C"] = IF op.C.conf = "absent" THEN "marked" ELSE "find_conf"]
      /\ UNCHANGED <<lock, writer, dlock, op, unloading, asked>>
  BY DEF CMarks, At, Goto, Quiet
<1>3. /\ pc' \in Places /\ \A t \in Threads \ {"C"} : pc'[t] = pc[t]
      /\ \/ op.C.conf = "absent" /\ pc'["C"] = "marked"
         \/ op.C.conf # "absent" /\ pc'["C"] = "find_conf"
  BY <1>1, <1>2 DEF Places, CPlaces, Threads
<1>4. /\ pvt' \in Device /\ pvt'.life = pvt.life /\ pvt'.desired = pvt.desired
      /\ pvt'.current = pvt.current /\ pvt'.when = pvt.when /\ pvt'.connected = pvt.connected
      /\ pvt'.uses = pvt.uses /\ pvt'.thread = pvt.thread
  BY <1>1, <1>2 DEF Device
<1>5. op.C \in Reload /\ Configs # {} /\ pc["U"] = "idle" /\ lock # "C"
  BY <1>1, <1>2 DEF Typed, CPlaces, Reload, Unreloaded, Unloading, Locks
<1>6. /\ pc["C"] = "mark" /\ readers' = readers \ {"C"}
      /\ UNCHANGED <<lock, writer, dlock, op, unloading, asked>>
  BY <1>2
<1>7. Typed'
  BY <1>1, <1>3, <1>4, <1>5, <1>6 DEF Typed, Threads
<1>8. Locks'
  BY <1>1, <1>3, <1>4, <1>5, <1>6, NoneAssumption DEF Locks, Working, Reading, Threads
<1>9. Unloading'
  BY <1>1, <1>3, <1>4, <1>5, <1>6 DEF Unloading, Threads
<1>10. Served'
  BY <1>1, <1>3, <1>4, <1>5, <1>6 DEF Served, Working, Threads
<1>11. Unreloaded'
  BY <1>1, <1>3, <1>4, <1>5, <1>6 DEF Unreloaded, NotBoth, Threads
<1> QED BY <1>7, <1>8, <1>9, <1>10, <1>11 DEF IInv

(* pvt_reconfigure touches the desired state, its time and the mark only. *)
LEMMA ReconfiguredLeaves ==
  ASSUME NEW p \in Device, op.C \in Reload, op.C.conf # "absent"
  PROVE  LET q == pvt_reconfigure(p)
         IN  /\ q \in Device /\ q.life = p.life /\ q.thread = p.thread /\ q.uses = p.uses
             /\ q.connected = p.connected /\ q.current = p.current
<1> DEFINE next == [p EXCEPT !.desired = IF p.desired # op.C.conf THEN op.C.conf ELSE "restarted"]
           when == IF pvt_time4restate(next) THEN "now" ELSE op.C.when
<1>1. op.C.conf \in {"removed", "stopped", "started"} /\ op.C.when \in Times
  BY RequestsAssumption DEF Reload
<1>2. /\ next \in Device /\ next.life = p.life /\ next.thread = p.thread /\ next.uses = p.uses
      /\ next.connected = p.connected /\ next.current = p.current
  BY <1>1 DEF Device, DesiredStates
<1>3. pvt_reconfigure(p) \in {[p EXCEPT !.must_remove = TRUE], p, [next EXCEPT !.when = when]}
  <2>1. CASE op.C.conf = "removed"
    BY <2>1 DEF pvt_reconfigure
  <2>2. CASE op.C.conf # "removed" /\ op.C.conf = p.desired /\ ~op.C.changed
    BY <2>2 DEF pvt_reconfigure
  <2>3. CASE op.C.conf # "removed" /\ ~(op.C.conf = p.desired /\ ~op.C.changed)
    <3>1. pvt_reconfigure(p) = [next EXCEPT !.when = when]
      BY <2>3, Zenon DEF pvt_reconfigure
    <3>. QED BY <3>1
  <2>. QED BY <2>1, <2>2, <2>3
<1>4. when \in Times
  BY <1>1 DEF Times
<1> HIDE DEF next, when
<1>5. /\ [next EXCEPT !.when = when] \in Device
      /\ LET q == [next EXCEPT !.when = when]
         IN  /\ q.life = next.life /\ q.thread = next.thread /\ q.uses = next.uses
             /\ q.connected = next.connected /\ q.current = next.current
  BY <1>2, <1>4 DEF Device
<1>6. /\ [p EXCEPT !.must_remove = TRUE] \in Device
      /\ LET q == [p EXCEPT !.must_remove = TRUE]
         IN  /\ q.life = p.life /\ q.thread = p.thread /\ q.uses = p.uses
             /\ q.connected = p.connected /\ q.current = p.current
  BY DEF Device
<1> QED BY <1>2, <1>3, <1>5, <1>6

(* The note that a restart is due leaves what is reloaded as it is. *)
LEMMA Noted ==
  ASSUME op \in [D : {None} \cup DesiredStates, C : {None} \cup Request \cup Reload],
         op.C \in Reload, NEW b \in BOOLEAN, op' = [op EXCEPT !.C.restart = b]
  PROVE  /\ op' \in [D : {None} \cup DesiredStates, C : {None} \cup Request \cup Reload]
         /\ op'.C \in Reload /\ op'.C.conf = op.C.conf /\ op'.D = op.D
<1>1. op' = [op EXCEPT !.C = [op.C EXCEPT !.restart = b]]
  OBVIOUS
<1>2. /\ [op.C EXCEPT !.restart = b] \in Reload
      /\ [op.C EXCEPT !.restart = b].conf = op.C.conf
  BY DEF Reload
<1> QED BY <1>1, <1>2

LEMMA CConfiguresKeeps == ASSUME IInv, CConfigures PROVE IInv'
<1>1. Typed /\ Locks /\ Unloading /\ Served /\ Unreloaded /\ pvt \in Device /\ pc \in Places
  BY DEF IInv, Typed
<1> DEFINE unmarked == [pvt EXCEPT !.must_remove = FALSE]
           b == pvt' # unmarked /\ pvt_time4restate(pvt')
<1>2. /\ pc["C"] = "configure" /\ readers' = readers \ {"C"}
      /\ UNCHANGED <<lock, writer, dlock, unloading>>
      /\ \/ pc' = [pc EXCEPT !["C"] = "create"] /\ UNCHANGED <<pvt, op, asked>>
         \/ /\ pvt.life = "listed" /\ lock = None /\ pvt' = pvt_reconfigure(unmarked)
            /\ asked' = [event |-> op.C.conf, when |-> op.C.when]
            /\ op' = [op EXCEPT !.C.restart = b]
            /\ pc' = [pc EXCEPT !["C"] = "marked"]
  BY DEF CConfigures, At, Goto, Listed
<1>3. op.C \in Reload /\ op.C.conf # "absent" /\ Configs # {} /\ pc["U"] = "idle" /\ lock # "C"
  BY <1>1, <1>2 DEF Typed, CPlaces, Reload, Unreloaded, Unloading, Locks
<1>4. /\ pc' \in Places /\ \A t \in Threads \ {"C"} : pc'[t] = pc[t]
      /\ pc'["C"] \in {"create", "marked"}
  BY <1>1, <1>2 DEF Places, CPlaces, Threads
<1>5. /\ unmarked \in Device /\ unmarked.life = pvt.life /\ unmarked.thread = pvt.thread
      /\ unmarked.uses = pvt.uses /\ unmarked.connected = pvt.connected
      /\ unmarked.current = pvt.current
  BY <1>1 DEF Device
<1>6. b \in BOOLEAN
  OBVIOUS
<1> HIDE DEF unmarked, b
<1>7. /\ pvt' \in Device /\ pvt'.life = pvt.life /\ pvt'.thread = pvt.thread
      /\ pvt'.uses = pvt.uses /\ pvt'.connected = pvt.connected /\ pvt'.current = pvt.current
  <2>1. CASE pvt' = pvt
    BY <1>1, <2>1
  <2>2. CASE pvt' = pvt_reconfigure(unmarked)
    BY <1>3, <1>5, <2>2, ReconfiguredLeaves
  <2>. QED BY <1>2, <2>1, <2>2
<1>8. /\ op' \in [D : {None} \cup DesiredStates, C : {None} \cup Request \cup Reload]
      /\ op'.C \in Reload /\ op'.C.conf = op.C.conf /\ op'.D = op.D
  <2>1. op \in [D : {None} \cup DesiredStates, C : {None} \cup Request \cup Reload]
    BY <1>1 DEF Typed
  <2>2. CASE op' = op
    BY <1>3, <2>1, <2>2
  <2>3. CASE op' = [op EXCEPT !.C.restart = b]
    BY <1>3, <1>6, <2>1, <2>3, Noted
  <2>. QED BY <1>2, <2>2, <2>3
<1>9. asked' \in Request
  <2>1. CASE asked' = asked
    BY <1>1, <2>1 DEF Typed
  <2>2. CASE asked' = [event |-> op.C.conf, when |-> op.C.when]
    BY <1>3, <2>2, RequestsAssumption DEF Reload, Request, DesiredStates
  <2>. QED BY <1>2, <2>1, <2>2
<1>10. pc["C"] = "configure" /\ readers' = readers \ {"C"} /\ UNCHANGED <<lock, writer, dlock, unloading>>
  BY <1>2
<1>11. Typed'
  BY <1>1, <1>3, <1>4, <1>7, <1>8, <1>9, <1>10 DEF Typed, Threads
<1>12. Locks'
  BY <1>1, <1>3, <1>4, <1>7, <1>8, <1>9, <1>10, NoneAssumption DEF Locks, Working, Reading, Threads
<1>13. Unloading'
  BY <1>1, <1>3, <1>4, <1>7, <1>8, <1>9, <1>10 DEF Unloading, Threads
<1>14. Served'
  BY <1>1, <1>3, <1>4, <1>7, <1>8, <1>9, <1>10 DEF Served, Working, Threads
<1>15. Unreloaded'
  BY <1>1, <1>3, <1>4, <1>7, <1>8, <1>9, <1>10 DEF Unreloaded, NotBoth, Threads
<1> QED BY <1>11, <1>12, <1>13, <1>14, <1>15 DEF IInv

LEMMA Created ==
  ASSUME NEW state \in {"stopped", "started"}
  PROVE  LET q == NewPvt(state)
         IN  /\ q \in Device /\ q.life = "listed" /\ q.current = "stopped" /\ q.connected = FALSE
             /\ q.must_remove = FALSE /\ q.thread = FALSE /\ q.uses = {} /\ q.desired = state
             /\ q.when = "now"
BY DEF NewPvt, Device, DesiredStates, Times

LEMMA CCreatesKeeps == ASSUME IInv, CCreates PROVE IInv'
<1>1. Typed /\ Locks /\ Unloading /\ Served /\ Unreloaded /\ pvt \in Device /\ pc \in Places
  BY DEF IInv, Typed
<1>2. /\ pc["C"] = "create" /\ pc' = [pc EXCEPT !["C"] = "marked"]
      /\ UNCHANGED <<lock, readers, writer, dlock, unloading>>
      /\ \/ UNCHANGED <<pvt, op, asked>>
         \/ /\ op.C.conf # "removed" /\ pc["M"] = "none" /\ writer = None /\ readers = {}
            /\ pvt' = NewPvt(op.C.conf) /\ op' = [op EXCEPT !.C.restart = TRUE]
            /\ asked' = [event |-> op.C.conf, when |-> "now"]
  BY DEF CCreates, At, Goto, Lists
<1>3. op.C \in Reload /\ op.C.conf # "absent" /\ Configs # {} /\ pc["U"] = "idle" /\ lock # "C"
  BY <1>1, <1>2 DEF Typed, CPlaces, Reload, Unreloaded, Unloading, Locks
<1>4. pc' \in Places /\ pc'["C"] = "marked" /\ \A t \in Threads \ {"C"} : pc'[t] = pc[t]
  BY <1>1, <1>2 DEF Places, CPlaces, Threads
<1>5. /\ UNCHANGED <<lock, readers, writer, dlock, unloading>> /\ pc["C"] = "create"
      /\ op \in [D : {None} \cup DesiredStates, C : {None} \cup Request \cup Reload]
  BY <1>1, <1>2 DEF Typed
<1>6. CASE UNCHANGED <<pvt, op, asked>>
  <2>1. Typed'
    BY <1>1, <1>3, <1>4, <1>5, <1>6 DEF Typed, Threads
  <2>2. Locks'
    BY <1>1, <1>3, <1>4, <1>5, <1>6, NoneAssumption DEF Locks, Working, Reading, Threads
  <2>3. Unloading'
    BY <1>1, <1>3, <1>4, <1>5, <1>6 DEF Unloading, Threads
  <2>4. Served'
    BY <1>1, <1>3, <1>4, <1>5, <1>6 DEF Served, Working, Threads
  <2>5. Unreloaded'
    BY <1>1, <1>3, <1>4, <1>5, <1>6 DEF Unreloaded, NotBoth, Threads
  <2>. QED BY <2>1, <2>2, <2>3, <2>4, <2>5 DEF IInv
<1>7. CASE /\ op.C.conf # "removed" /\ pc["M"] = "none" /\ writer = None /\ readers = {}
            /\ pvt' = NewPvt(op.C.conf) /\ op' = [op EXCEPT !.C.restart = TRUE]
            /\ asked' = [event |-> op.C.conf, when |-> "now"]
  <2>1. op.C.conf \in {"stopped", "started"}
    BY <1>3, <1>7, RequestsAssumption DEF Reload
  <2>2. /\ pvt' \in Device /\ pvt'.life = "listed" /\ pvt'.current = "stopped"
        /\ pvt'.connected = FALSE /\ pvt'.must_remove = FALSE /\ pvt'.thread = FALSE /\ pvt'.uses = {}
    BY <1>7, <2>1, Created
  <2>3. /\ op' \in [D : {None} \cup DesiredStates, C : {None} \cup Request \cup Reload]
        /\ op'.C \in Reload /\ op'.C.conf = op.C.conf /\ op'.D = op.D
    BY <1>3, <1>5, <1>7, Noted
  <2>4. asked' \in Request
    BY <1>7, <2>1 DEF Request, DesiredStates, Times
  <2>5. pc["M"] = "none" /\ pc["D"] \notin Working
    BY <1>1, <1>7 DEF Locks
  <2>6. Typed'
    BY <1>1, <1>3, <1>4, <1>5, <2>2, <2>3, <2>4 DEF Typed, Threads
  <2>7. Locks'
    BY <1>1, <1>4, <1>5, NoneAssumption DEF Locks, Working, Reading, Threads
  <2>8. Unloading'
    BY <1>1, <1>3, <1>4, <1>5, <2>2 DEF Unloading, Threads
  <2>9. Served'
    BY <1>1, <1>4, <2>2, <2>5 DEF Served, Working, Threads
  <2>10. Unreloaded'
    BY <1>3 DEF Unreloaded
  <2>. QED BY <2>6, <2>7, <2>8, <2>9, <2>10 DEF IInv
<1> QED BY <1>2, <1>6, <1>7

LEMMA CRemovesKeeps == ASSUME IInv, CRemoves PROVE IInv'
<1>1. Typed /\ Locks /\ Unloading /\ Served /\ Unreloaded /\ pvt \in Device /\ pc \in Places
  BY DEF IInv, Typed
<1> DEFINE p == [pvt EXCEPT !.desired = "removed"]
           when == IF pvt_time4restate(p) THEN "now" ELSE op.C.when
<1>2. /\ pc["C"] = "remove" /\ readers' = readers \ {"C"} /\ UNCHANGED <<lock, writer, dlock, unloading, op>>
      /\ pvt' = [p EXCEPT !.when = when] \/ pvt' = pvt
      /\ asked' \in {[event |-> "removed", when |-> op.C.when], asked}
      /\ pc' = [pc EXCEPT !["C"] = "kick"] \/ pc' = [pc EXCEPT !["C"] = "idle"]
  BY DEF CRemoves, At, Goto
<1>3. op.C \in Reload /\ Configs # {} /\ pc["U"] = "idle" /\ lock # "C"
  BY <1>1, <1>2 DEF Typed, CPlaces, Reload, Unreloaded, Unloading, Locks
<1>4. when \in Times
  BY <1>3 DEF Reload, Times
<1> HIDE DEF when
<1>5. /\ pvt' \in Device /\ pvt'.life = pvt.life /\ pvt'.thread = pvt.thread
      /\ pvt'.uses = pvt.uses /\ pvt'.connected = pvt.connected /\ pvt'.current = pvt.current
  BY <1>1, <1>2, <1>4 DEF Device, DesiredStates
<1>6. /\ pc' \in Places /\ pc'["C"] \in {"kick", "idle"} /\ \A t \in Threads \ {"C"} : pc'[t] = pc[t]
  BY <1>1, <1>2 DEF Places, CPlaces, Threads
<1>7. asked' \in Request
  BY <1>1, <1>2, <1>3 DEF Typed, Reload, Request, DesiredStates
<1>8. /\ pc["C"] = "remove" /\ readers' = readers \ {"C"}
      /\ UNCHANGED <<lock, writer, dlock, unloading, op>>
  BY <1>2
<1>9. Typed'
  BY <1>1, <1>3, <1>5, <1>6, <1>7, <1>8 DEF Typed, Threads
<1>10. Locks'
  BY <1>1, <1>3, <1>5, <1>6, <1>7, <1>8, NoneAssumption DEF Locks, Working, Reading, Threads
<1>11. Unloading'
  BY <1>1, <1>3, <1>5, <1>6, <1>7, <1>8 DEF Unloading, Threads
<1>12. Served'
  BY <1>1, <1>3, <1>5, <1>6, <1>7, <1>8 DEF Served, Working, Threads
<1>13. Unreloaded'
  BY <1>1, <1>3, <1>5, <1>6, <1>7, <1>8 DEF Unreloaded, NotBoth, Threads
<1> QED BY <1>9, <1>10, <1>11, <1>12, <1>13 DEF IInv

-----------------------------------------------------------------------------
(* Unloading. *)

LEMMA UUnloadsKeeps == ASSUME IInv, UUnloads PROVE IInv'
<1>1. Typed /\ Locks /\ Unloading /\ Served /\ Unreloaded /\ pvt \in Device /\ pc \in Places
  BY DEF IInv, Typed
<1>2. /\ Unloads /\ pc["U"] = "idle" /\ pc["C"] = "idle" /\ unloading' = TRUE
      /\ pc' = [pc EXCEPT !["U"] = "stop"]
      /\ UNCHANGED <<pvt, lock, readers, writer, dlock, op, asked>>
  BY DEF UUnloads, At, Goto, Lists
<1>3. pc' \in Places /\ pc'["U"] = "stop" /\ \A t \in Threads \ {"U"} : pc'[t] = pc[t]
  BY <1>1, <1>2 DEF Places, UPlaces, Threads
<1>4. Typed'
  BY <1>1, <1>2, <1>3 DEF Typed, Threads
<1>5. Locks'
  BY <1>1, <1>2, <1>3, NoneAssumption DEF Locks, Working, Reading, Threads
<1>6. Unloading'
  BY <1>1, <1>2, <1>3 DEF Unloading, Threads
<1>7. Served'
  BY <1>1, <1>2, <1>3 DEF Served, Working, Threads
<1>8. Unreloaded'
  BY <1>1, <1>2, <1>3 DEF Unreloaded, NotBoth, Threads
<1> QED BY <1>4, <1>5, <1>6, <1>7, <1>8 DEF IInv

LEMMA UStopsKeeps == ASSUME IInv, UStops PROVE IInv'
<1>1. Typed /\ Locks /\ Unloading /\ Served /\ Unreloaded /\ pvt \in Device /\ pc \in Places
  BY DEF IInv, Typed
<1>2. /\ pc["U"] = "stop" /\ dlock' = "U" /\ pc' = [pc EXCEPT !["U"] = "join_discovery"]
      /\ UNCHANGED <<pvt, lock, readers, writer, op, unloading, asked>>
  BY DEF UStops, At, Goto, Lists, Quiet
<1>3. pc' \in Places /\ pc'["U"] = "join_discovery" /\ \A t \in Threads \ {"U"} : pc'[t] = pc[t]
  BY <1>1, <1>2 DEF Places, UPlaces, Threads
<1>4. Typed'
  BY <1>1, <1>2, <1>3 DEF Typed, Threads
<1>5. Locks'
  BY <1>1, <1>2, <1>3, NoneAssumption DEF Locks, Working, Reading, Threads
<1>6. Unloading'
  BY <1>1, <1>2, <1>3 DEF Unloading, Threads
<1>7. Served'
  BY <1>1, <1>2, <1>3 DEF Served, Working, Threads
<1>8. Unreloaded'
  BY <1>1, <1>2, <1>3 DEF Unreloaded, NotBoth, Threads
<1> QED BY <1>4, <1>5, <1>6, <1>7, <1>8 DEF IInv

LEMMA UJoinsDiscoveryKeeps == ASSUME IInv, UJoinsDiscovery PROVE IInv'
<1>1. Typed /\ Locks /\ Unloading /\ Served /\ Unreloaded /\ pvt \in Device /\ pc \in Places
  BY DEF IInv, Typed
<1>2. /\ pc["U"] = "join_discovery" /\ pc["D"] = "end" /\ dlock' = None
      /\ pc' = [pc EXCEPT !["U"] = "destroy", !["D"] = "gone"]
      /\ UNCHANGED <<pvt, lock, readers, writer, op, unloading, asked>>
  BY DEF UJoinsDiscovery, At, Goto2, Lists, Quiet
<1>3. /\ pc' \in Places /\ pc'["U"] = "destroy" /\ pc'["D"] = "gone"
      /\ \A t \in Threads \ {"U", "D"} : pc'[t] = pc[t]
  BY <1>1, <1>2 DEF Places, UPlaces, DPlaces, Threads
<1>4. Typed'
  BY <1>1, <1>2, <1>3 DEF Typed, Threads
<1>5. Locks'
  BY <1>1, <1>2, <1>3, NoneAssumption DEF Locks, Working, Reading, Threads
<1>6. Unloading'
  BY <1>1, <1>2, <1>3 DEF Unloading, Threads
<1>7. Served'
  BY <1>1, <1>2, <1>3 DEF Served, Working, Threads
<1>8. Unreloaded'
  BY <1>1, <1>2, <1>3 DEF Unreloaded, NotBoth, Threads
<1> QED BY <1>4, <1>5, <1>6, <1>7, <1>8 DEF IInv

LEMMA UDestroysKeeps == ASSUME IInv, UDestroys PROVE IInv'
<1>1. Typed /\ Locks /\ Unloading /\ Served /\ Unreloaded /\ pvt \in Device /\ pc \in Places
  BY DEF IInv, Typed
<1>2. /\ pc["U"] = "destroy" /\ readers = {} /\ writer = None
      /\ UNCHANGED <<lock, readers, dlock, op, unloading, asked>>
      /\ \/ /\ pvt.life = "listed" /\ pvt' = [pvt EXCEPT !.life = "unlinked"]
            /\ writer' = "U" /\ pc' = [pc EXCEPT !["U"] = "destroying"]
         \/ /\ pvt.life # "listed" /\ pvt' = pvt /\ writer' = writer
            /\ pc' = [pc EXCEPT !["U"] = "unloaded"]
  BY DEF UDestroys, At, Goto, Quiet, Listed
<1>3. /\ pvt' \in Device /\ pvt'.thread = pvt.thread /\ pvt'.uses = pvt.uses
      /\ pvt'.connected = pvt.connected /\ pvt'.current = pvt.current
      /\ pvt'.desired = pvt.desired /\ pvt'.when = pvt.when /\ pvt'.must_remove = pvt.must_remove
  BY <1>1, <1>2 DEF Device
<1>4. \/ pvt.life = "listed" /\ pvt'.life = "unlinked" /\ writer' = "U" /\ pc'["U"] = "destroying"
      \/ pvt.life = "freed" /\ pvt'.life = "freed" /\ writer' = None /\ pc'["U"] = "unloaded"
  BY <1>1, <1>2 DEF Device, Unloading, Places
<1>5. pc' \in Places /\ \A t \in Threads \ {"U"} : pc'[t] = pc[t]
  BY <1>1, <1>2 DEF Places, UPlaces, Threads
<1>6. /\ pc["U"] = "destroy" /\ readers = {} /\ writer = None /\ pc["D"] = "gone"
      /\ UNCHANGED <<lock, readers, dlock, op, unloading, asked>>
  BY <1>1, <1>2 DEF Unloading
<1>7. Typed'
  BY <1>1, <1>3, <1>4, <1>5, <1>6 DEF Typed, Threads
<1>8. Locks'
  BY <1>1, <1>3, <1>4, <1>5, <1>6, NoneAssumption DEF Locks, Working, Reading, Threads
<1>9. Unloading'
  BY <1>1, <1>3, <1>4, <1>5, <1>6 DEF Unloading, Threads
<1>10. Served'
  BY <1>1, <1>3, <1>4, <1>5, <1>6 DEF Served, Working, Threads
<1>11. Unreloaded'
  BY <1>1, <1>3, <1>4, <1>5, <1>6 DEF Unreloaded, NotBoth, Threads
<1> QED BY <1>7, <1>8, <1>9, <1>10, <1>11 DEF IInv

LEMMA UJoinsMonitorKeeps == ASSUME IInv, UJoinsMonitor PROVE IInv'
<1>1. Typed /\ Locks /\ Unloading /\ Served /\ Unreloaded /\ pvt \in Device /\ pc \in Places
  BY DEF IInv, Typed
<1>2. /\ UNCHANGED <<lock, readers, writer, dlock, op, unloading, asked>>
      /\ \/ /\ pc["U"] = "destroying" /\ pvt.thread /\ pvt' = [pvt EXCEPT !.terminate = TRUE]
            /\ pc' = [pc EXCEPT !["U"] = "join"]
         \/ /\ pc["U"] = "join" /\ pc["M"] = "end" /\ pvt' = JoinedPvt
            /\ pc' = [pc EXCEPT !["U"] = "destroying", !["M"] = "none"]
  BY DEF UJoinsMonitor, At, Goto, Goto2, Quiet, Lists
<1>3. /\ pvt' \in Device /\ pvt'.life = pvt.life /\ pvt'.uses = pvt.uses
      /\ pvt'.connected = pvt.connected /\ pvt'.current = pvt.current
      /\ pvt'.desired = pvt.desired /\ pvt'.when = pvt.when /\ pvt'.must_remove = pvt.must_remove
      /\ \/ pc["U"] = "destroying" /\ pvt'.thread = pvt.thread
         \/ pc["U"] = "join" /\ pc["M"] = "end" /\ pvt'.thread = FALSE
  <2>1. CASE pc["U"] = "destroying" /\ pvt' = [pvt EXCEPT !.terminate = TRUE]
    BY <1>1, <2>1 DEF Device
  <2>2. CASE pc["U"] = "join" /\ pc["M"] = "end" /\ pvt' = JoinedPvt
    BY <1>1, <2>2, Joined
  <2>. QED BY <1>2, <2>1, <2>2
<1>4. /\ pc' \in Places /\ \A t \in Threads \ {"U", "M"} : pc'[t] = pc[t]
      /\ \/ pc["U"] = "destroying" /\ pc'["U"] = "join" /\ pc'["M"] = pc["M"]
         \/ pc["U"] = "join" /\ pc["M"] = "end" /\ pc'["U"] = "destroying" /\ pc'["M"] = "none"
  BY <1>1, <1>2 DEF Places, UPlaces, MPlaces, Threads
<1>5. /\ pc["D"] = "gone" /\ pc["U"] \in {"destroying", "join"} /\ pvt.life = "unlinked"
      /\ UNCHANGED <<lock, readers, writer, dlock, op, unloading, asked>>
  BY <1>1, <1>2 DEF Unloading
<1>6. Typed'
  BY <1>1, <1>3, <1>4, <1>5 DEF Typed, Threads
<1>7. Locks'
  BY <1>1, <1>3, <1>4, <1>5, NoneAssumption DEF Locks, Working, Reading, Threads
<1>8. Unloading'
  BY <1>1, <1>3, <1>4, <1>5 DEF Unloading, Threads
<1>9. Served'
  BY <1>1, <1>3, <1>4, <1>5 DEF Served, Working, Threads
<1>10. Unreloaded'
  BY <1>1, <1>3, <1>4, <1>5 DEF Unreloaded, NotBoth, Threads
<1> QED BY <1>6, <1>7, <1>8, <1>9, <1>10 DEF IInv

LEMMA UFreesKeeps == ASSUME IInv, UFrees PROVE IInv'
<1>1. Typed /\ Locks /\ Unloading /\ Served /\ Unreloaded /\ pvt \in Device /\ pc \in Places
  BY DEF IInv, Typed
<1>2. /\ pc["U"] = "destroying" /\ lock = None /\ ~pvt.thread
      /\ pvt' = [pvt EXCEPT !.life = "freed"] /\ writer' = None /\ pc' = [pc EXCEPT !["U"] = "unloaded"]
      /\ UNCHANGED <<lock, readers, dlock, op, unloading, asked>>
  BY DEF UFrees, At, Goto, Quiet
<1>3. /\ pvt' \in Device /\ pvt'.life = "freed" /\ pvt'.uses = pvt.uses
      /\ pvt'.current = pvt.current /\ pvt'.desired = pvt.desired /\ pvt'.when = pvt.when
  BY <1>1, <1>2 DEF Device
<1>4. pc' \in Places /\ pc'["U"] = "unloaded" /\ \A t \in Threads \ {"U"} : pc'[t] = pc[t]
  BY <1>1, <1>2 DEF Places, UPlaces, Threads
<1>5. /\ pc["D"] = "gone" /\ pc["U"] = "destroying" /\ pvt.life = "unlinked" /\ (NotBoth => pc["M"] = "none")
      /\ lock = None /\ writer' = None /\ UNCHANGED <<lock, readers, dlock, op, unloading, asked>>
  BY <1>1, <1>2 DEF Unloading, Served
<1>6. Typed'
  BY <1>1, <1>3, <1>4, <1>5 DEF Typed, Threads
<1>7. Locks'
  BY <1>1, <1>3, <1>4, <1>5, NoneAssumption DEF Locks, Working, Reading, Threads
<1>8. Unloading'
  BY <1>1, <1>3, <1>4, <1>5 DEF Unloading, Threads
<1>9. Served'
  BY <1>1, <1>3, <1>4, <1>5 DEF Served, Working, Threads
<1>10. Unreloaded'
  BY <1>1, <1>3, <1>4, <1>5 DEF Unreloaded, NotBoth, Threads
<1> QED BY <1>6, <1>7, <1>8, <1>9, <1>10 DEF IInv

LEMMA ULoadsKeeps == ASSUME IInv, ULoads PROVE IInv'
<1>1. Typed /\ Locks /\ Unloading /\ Served /\ Unreloaded /\ pvt \in Device /\ pc \in Places
  BY DEF IInv, Typed
<1>2. /\ pc["U"] = "unloaded" /\ pvt' = NewPvt("started") /\ unloading' = FALSE
      /\ asked' = [event |-> "started", when |-> "now"]
      /\ pc' = [pc EXCEPT !["U"] = "idle", !["D"] = "top"]
      /\ UNCHANGED <<lock, readers, writer, dlock, op>>
  BY DEF ULoads, At, Goto2, Lists
<1>3. /\ pvt' \in Device /\ pvt'.life = "listed" /\ pvt'.current = "stopped"
      /\ pvt'.connected = FALSE /\ pvt'.must_remove = FALSE /\ pvt'.thread = FALSE /\ pvt'.uses = {}
  BY <1>2, Created
<1>4. /\ pc' \in Places /\ pc'["U"] = "idle" /\ pc'["D"] = "top"
      /\ \A t \in Threads \ {"U", "D"} : pc'[t] = pc[t]
  BY <1>1, <1>2 DEF Places, UPlaces, DPlaces, Threads
<1>5. (NotBoth => pc["M"] = "none") /\ pc["C"] = "idle" /\ pc["D"] = "gone"
  BY <1>1, <1>2 DEF Unloading, Unreloaded, NotBoth
<1>6. asked' \in Request
  BY <1>2 DEF Request, DesiredStates, Times
<1>7. /\ UNCHANGED <<lock, readers, writer, dlock, op>> /\ unloading' = FALSE /\ pc["U"] = "unloaded"
  BY <1>2
<1>8. Typed'
  BY <1>1, <1>3, <1>4, <1>5, <1>6, <1>7 DEF Typed, Threads
<1>9. Locks'
  BY <1>1, <1>3, <1>4, <1>5, <1>6, <1>7, NoneAssumption DEF Locks, Working, Reading, Threads
<1>10. Unloading'
  BY <1>1, <1>3, <1>4, <1>5, <1>6, <1>7 DEF Unloading, Threads
<1>11. Served'
  BY <1>1, <1>3, <1>4, <1>5, <1>6, <1>7 DEF Served, Working, Threads
<1>12. Unreloaded'
  BY <1>1, <1>3, <1>4, <1>5, <1>6, <1>7 DEF Unreloaded, NotBoth, Threads
<1> QED BY <1>8, <1>9, <1>10, <1>11, <1>12 DEF IInv

-----------------------------------------------------------------------------
(* The invariant. *)

LEMMA InitHolds == Init => IInv
<1> SUFFICES ASSUME Init PROVE IInv
  OBVIOUS
<1>1. /\ pvt \in Device /\ pvt.life = "listed" /\ pvt.current = "stopped" /\ pvt.connected = FALSE
      /\ pvt.must_remove = FALSE /\ pvt.thread = FALSE /\ pvt.uses = {}
  BY Created DEF Init
<1>2. /\ pc \in Places /\ pc["D"] = "top" /\ pc["M"] = "none" /\ pc["C"] = "idle" /\ pc["U"] = "idle"
  BY DEF Init, Places, DPlaces, MPlaces, CPlaces, UPlaces
<1>3. /\ op \in [D : {None} \cup DesiredStates, C : {None} \cup Request \cup Reload]
      /\ asked \in Request
  BY DEF Init, Request, DesiredStates, Times
<1>4. lock = None /\ readers = {} /\ writer = None /\ dlock = None /\ unloading = FALSE
  BY DEF Init
<1>5. Typed
  BY <1>1, <1>2, <1>3, <1>4 DEF Typed
<1>6. Locks
  BY <1>2, <1>4, NoneAssumption DEF Locks, Working, Reading, Threads
<1>7. Unloading /\ Served /\ Unreloaded
  BY <1>1, <1>2, <1>4 DEF Unloading, Served, Unreloaded, Working
<1> QED BY <1>5, <1>6, <1>7 DEF IInv

LEMMA NextKeeps == ASSUME IInv, Next PROVE IInv'
<1>1. CASE DTop
  BY <1>1, DTopKeeps
<1>2. CASE DLook
  BY <1>2, DLookKeeps
<1>3. CASE DJoin
  BY <1>3, DJoinKeeps
<1>4. CASE DRelock
  BY <1>4, DRelockKeeps
<1>5. CASE DStopped
  BY <1>5, DStoppedKeeps
<1>6. CASE DProbe
  BY <1>6, DProbeKeeps
<1>7. CASE DOpens
  BY <1>7, DOpensKeeps
<1>8. CASE DOpenFails
  BY <1>8, DOpenFailsKeeps
<1>9. CASE DSweep
  BY <1>9, DSweepKeeps
<1>10. CASE DSwept
  BY <1>10, DSweptKeeps
<1>11. CASE DWakes
  BY <1>11, DWakesKeeps
<1>12. CASE MTerminates
  BY <1>12, MTerminatesKeeps
<1>13. CASE MKicks
  BY <1>13, MKicksKeeps
<1>14. CASE MLoses
  BY <1>14, MLosesKeeps
<1>15. CASE CSchedules
  BY <1>15, CSchedulesKeeps
<1>16. CASE CKicks
  BY <1>16, CKicksKeeps
<1>17. CASE CMarks
  BY <1>17, CMarksKeeps
<1>18. CASE CReadsAgain
  BY <1>18, CReadsAgainKeeps
<1>19. CASE CConfigures
  BY <1>19, CConfiguresKeeps
<1>20. CASE CCreates
  BY <1>20, CCreatesKeeps
<1>21. CASE CRemoves
  BY <1>21, CRemovesKeeps
<1>22. CASE UUnloads
  BY <1>22, UUnloadsKeeps
<1>23. CASE UStops
  BY <1>23, UStopsKeeps
<1>24. CASE UJoinsDiscovery
  BY <1>24, UJoinsDiscoveryKeeps
<1>25. CASE UDestroys
  BY <1>25, UDestroysKeeps
<1>26. CASE UJoinsMonitor
  BY <1>26, UJoinsMonitorKeeps
<1>27. CASE UFrees
  BY <1>27, UFreesKeeps
<1>28. CASE ULoads
  BY <1>28, ULoadsKeeps
<1>29. CASE Use
  <2>1. ASSUME NEW use \in Uses, UseBegins(use) PROVE IInv'
    BY <2>1, UseBeginsKeeps
  <2>2. ASSUME NEW use \in Uses, UseEnds(use) PROVE IInv'
    BY <2>2, UseEndsKeeps
  <2>. QED BY <1>29, <2>1, <2>2 DEF Use
<1>30. CASE CBegins
  <2>1. ASSUME NEW when \in Whens, NEW event \in Events, CAsks(event, when) PROVE IInv'
    BY <2>1, CAsksKeeps
  <2>2. ASSUME NEW when \in Whens, NEW conf \in Configs, NEW changed \in Changes,
               CReloads(conf, changed, when)
        PROVE  IInv'
    BY <2>2, CReloadsKeeps
  <2>. QED BY <1>30, <2>1, <2>2 DEF CBegins
<1> QED BY <1>1, <1>2, <1>3, <1>4, <1>5, <1>6, <1>7, <1>8, <1>9, <1>10, <1>11, <1>12, <1>13,
     <1>14, <1>15, <1>16, <1>17, <1>18, <1>19, <1>20, <1>21, <1>22, <1>23, <1>24, <1>25, <1>26,
     <1>27, <1>28, <1>29, <1>30 DEF Next, DStep, Monitor, CStep, UStep

LEMMA Invariance == Spec => []IInv
<1>1. IInv /\ [Next]_vars => IInv'
  <2> SUFFICES ASSUME IInv, [Next]_vars PROVE IInv'
    OBVIOUS
  <2>1. CASE Next
    BY <2>1, NextKeeps
  <2>2. CASE UNCHANGED vars
    <3>1. /\ pvt' = pvt /\ lock' = lock /\ readers' = readers /\ writer' = writer /\ dlock' = dlock
          /\ unloading' = unloading /\ pc' = pc /\ op' = op /\ asked' = asked
      BY <2>2 DEF vars
    <3>2. Typed' /\ Locks' /\ Unloading' /\ Served' /\ Unreloaded'
      BY <3>1 DEF IInv, Typed, Locks, Unloading, Served, Unreloaded
    <3>. QED BY <3>2 DEF IInv
  <2>. QED BY <2>1, <2>2
<1> QED BY <1>1, InitHolds, PTL DEF Spec

-----------------------------------------------------------------------------
(* The device, the locks and unloading_flag have their types, whoever runs *)
(* beside whom. *)
THEOREM TypeCorrect == Spec => []TypeOK
<1>1. IInv => TypeOK
  BY DEF IInv, Typed, TypeOK, Device, DesiredStates, Times, Threads
<1> QED BY <1>1, Invariance, PTL

(* In a module that is reloaded or unloaded, but not both, what is shown of *)
(* the device is what is there: connected and current_state (pvt_start,     *)
(* disconnect_dongle) tell whether a monitor serves it, only a served       *)
(* device is used, and no monitor runs that monitor_thread does not know.   *)
THEOREM ShownIsTrue == ASSUME NotBoth PROVE Spec => []ServedAsShown
<1>1. IInv => ServedAsShown
  <2> SUFFICES ASSUME IInv PROVE ServedAsShown
    OBVIOUS
  <2>1. Typed /\ Locks /\ Served /\ pvt \in Device
    BY DEF IInv, Typed
  <2>2. StateTells
    <3> SUFFICES ASSUME lock = None, pvt.life # "freed"
                 PROVE  /\ pvt.connected = (pc["M"] = "loop")
                        /\ pvt.connected = (pvt.current = "started")
                        /\ pvt.uses # {} => pvt.connected
      BY DEF StateTells, At
    <3>1. pc["M"] \notin {"kick", "kick_disconnect"}
      BY <2>1, NoneAssumption DEF Locks, Threads
    <3>2. /\ pvt.connected <=> pc["M"] \in {"loop", "kick", "kick_disconnect"}
          /\ pvt.connected <=> pvt.current = "started"
          /\ pvt.uses # {} => pvt.connected
      BY <2>1, NotBoth DEF Served
    <3>3. pvt.connected \in BOOLEAN
      BY <2>1 DEF Device
    <3>. QED BY <3>1, <3>2, <3>3
  <2>3. MonitorKnown
    BY <2>1, NotBoth DEF MonitorKnown, At, Served
  <2>. QED BY <2>2, <2>3 DEF ServedAsShown
<1> QED BY <1>1, Invariance, PTL

(* Without reloads a device is freed (DSwept, UFrees) only when no monitor *)
(* serves it and nobody has or waits for its lock. *)
THEOREM FreedSafely == ASSUME Configs = {} PROVE Spec => []FreedUnused
<1>1. IInv => FreedUnused
  BY Configs = {} DEF IInv, Unreloaded, FreedUnused, At
<1> QED BY <1>1, Invariance, PTL

-----------------------------------------------------------------------------
(* Who tells the monitor to end. *)

LEMMA ToldToEnd ==
  ASSUME IInv, Configs = {}, Next, ~pvt.terminate, pvt'.terminate, ~unloading, "call" \in pvt.uses
  PROVE  asked.when = "now"
<1>1. Typed /\ Locks /\ Unloading /\ Served /\ Unreloaded /\ pvt \in Device
  BY DEF IInv, Typed
<1>2. pvt' # pvt
  OBVIOUS
<1>3. pc["C"] \in {"idle", "find", "kick"} /\ pc["U"] = "idle"
  BY <1>1 DEF Unreloaded, Unloading
<1>4. CASE DStep
  <2>1. CASE DLook
    <3>1. pvt.when = "now" /\ pvt.desired # pvt.current
      BY <2>1, LookAt
    <3>. QED BY <1>1, <3>1 DEF Unreloaded
  <2>2. CASE DRelock
    BY <1>1, <2>2, Joined DEF DRelock
  <2>3. CASE DStopped
    <3>1. \/ pvt' = pvt \/ pvt' = [pvt EXCEPT !.must_remove = TRUE]
          \/ pvt' = [pvt EXCEPT !.desired = "started"]
      <4>1. op.D \in DesiredStates
        BY <1>1, <2>3 DEF Served, Working, DStopped, At
      <4>2. CASE op.D = "stopped"
        BY <2>3, <4>2 DEF DStopped
      <4>3. CASE op.D = "removed"
        BY <2>3, <4>3 DEF DStopped
      <4>4. CASE op.D \in {"restarted", "started"}
        BY <2>3, <4>4 DEF DStopped
      <4>. QED BY <4>1, <4>2, <4>3, <4>4 DEF DesiredStates
    <3>. QED BY <1>1, <3>1 DEF Device
  <2>4. CASE DOpens
    <3>1. pvt' = [pvt EXCEPT !.connected = TRUE, !.current = "started", !.thread = TRUE]
      BY <2>4 DEF DOpens
    <3>. QED BY <1>1, <3>1 DEF Device
  <2>5. CASE DSwept
    <3>1. pvt' = [pvt EXCEPT !.life = "freed"] \/ pvt' = pvt
      BY <2>5 DEF DSwept
    <3>. QED BY <1>1, <3>1 DEF Device
  <2>6. CASE DTop \/ DJoin \/ DProbe \/ DOpenFails \/ DSweep \/ DWakes
    BY <1>2, <2>6 DEF DTop, DJoin, DProbe, DOpenFails, DSweep, DWakes
  <2>. QED BY <1>4, <2>1, <2>2, <2>3, <2>4, <2>5, <2>6 DEF DStep
<1>5. CASE MTerminates
  BY <1>5 DEF MTerminates
<1>6. CASE MLoses
  <2> DEFINE p == [pvt EXCEPT !.terminate = FALSE]
  <2>1. /\ p \in Device /\ p.life = pvt.life /\ p.desired = pvt.desired
        /\ p.current = pvt.current /\ p.when = pvt.when /\ p.connected = pvt.connected
        /\ p.must_remove = pvt.must_remove /\ p.thread = pvt.thread /\ p.uses = pvt.uses
        /\ p.terminate = FALSE
    BY <1>1 DEF Device
  <2>2. Disconnect(p) /\ Alive
    BY <1>6 DEF MLoses
  <2> HIDE DEF p
  <2>3. pvt'.terminate = p.terminate
    BY <2>1, <2>2, DisconnectLeaves
  <2>. QED BY <2>1, <2>3
<1>7. CASE MKicks
  <2>1. pvt' = pvt \/ pvt' = Disconnected(pvt)
    BY <1>7 DEF MKicks
  <2>. QED BY <1>1, <2>1 DEF Disconnected, Device
<1>8. CASE Use
  <2>1. ASSUME NEW use \in Uses, UseBegins(use) PROVE FALSE
    <3>1. pvt' = [pvt EXCEPT !.uses = @ \cup {use}]
      BY <2>1 DEF UseBegins
    <3>. QED BY <1>1, <3>1 DEF Device
  <2>2. ASSUME NEW use \in Uses, UseEnds(use) PROVE FALSE
    <3> DEFINE p == [pvt EXCEPT !.uses = @ \ {use}]
    <3>1. pvt' = Restated(p)
      BY <2>2 DEF UseEnds
    <3>2. p \in Device /\ p.terminate = pvt.terminate
      BY <1>1 DEF Device
    <3> HIDE DEF p
    <3>3. pvt'.terminate = p.terminate
      BY <3>1, <3>2, RestatedLeaves
    <3>. QED BY <3>2, <3>3
  <2>. QED BY <1>8, <2>1, <2>2 DEF Use
<1>9. CASE CStep
  <2>1. CASE CSchedules
    <3> DEFINE p == [pvt EXCEPT !.desired = op.C.event, !.when = op.C.when]
    <3>1. pvt' = Restated(p) /\ pc["C"] = "find"
      BY <1>2, <2>1 DEF CSchedules, At
    <3>2. op.C \in Request
      BY <1>1, <3>1 DEF Typed
    <3>3. p \in Device /\ p.terminate = pvt.terminate
      BY <1>1, <3>2 DEF Device, Request
    <3> HIDE DEF p
    <3>4. pvt'.terminate = p.terminate
      BY <3>1, <3>3, RestatedLeaves
    <3>. QED BY <3>3, <3>4
  <2>2. CASE CKicks
    BY <1>2, <2>2 DEF CKicks
  <2>3. CASE CMarks \/ CReadsAgain \/ CConfigures \/ CCreates \/ CRemoves
    BY <1>3, <2>3 DEF CMarks, CReadsAgain, CConfigures, CCreates, CRemoves, At
  <2>. QED BY <1>9, <2>1, <2>2, <2>3 DEF CStep
<1>10. CASE CBegins
  BY <1>2, <1>10 DEF CBegins, CAsks, CReloads, CReads
<1>11. CASE UUnloads \/ UStep \/ ULoads
  BY <1>2, <1>3, <1>11
     DEF UUnloads, UStep, ULoads, UStops, UJoinsDiscovery, UDestroys, UJoinsMonitor, UFrees, At
<1> QED BY <1>4, <1>5, <1>6, <1>7, <1>8, <1>9, <1>10, <1>11 DEF Next, Monitor

(* Without reloads no call is cut off by a change asked for later than     *)
(* now: the monitor is told to end (DLook) with a call up only if the last *)
(* request was for now, however often pvt_try_restate, the calls and the   *)
(* requests come in between. *)
THEOREM CallsSpared == ASSUME Configs = {} PROVE Spec => GracefulSparesCalls
<1>1. IInv /\ [Next]_vars =>
        [~pvt.terminate /\ pvt'.terminate /\ ~unloading /\ "call" \in pvt.uses
           => asked.when = "now"]_vars
  BY Configs = {}, ToldToEnd DEF vars
<1> QED BY <1>1, Invariance, PTL DEF Spec, GracefulSparesCalls
=============================================================================
