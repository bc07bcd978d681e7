-------------------------------- MODULE Sdk --------------------------------
(***************************************************************************)
(* An instance of the SDK (simbox_api.c): its registry of devices, the     *)
(* bridge by which the monitor thread of the driver reaches it, and its    *)
(* end, with a real device whose commands are those of SdkCommand and      *)
(* whose calls are those of SdkCalls.  One monitor thread does what both   *)
(* say of the driver.                                                      *)
(***************************************************************************)
EXTENDS SdkCommand, SdkCalls, FiniteSets

CONSTANTS
  Registrars, (* the threads that call simbox_device_register               *)
  Real,       (* the serial number of the real device                       *)
  Serials,    (* serial numbers                                             *)
  MaxDevices, (* SIMBOX_MAX_DEVICES                                         *)
  MaxTries,   (* bound: calls of simbox_device_register                     *)
  Parts       (* bound: how much of the three bounds there is to use        *)

ASSUME DevicesAssumption == MaxDevices \in Nat \ {0} /\ MaxTries \in Nat
ASSUME SerialsAssumption == Real \in Serials
ASSUME RegistrarsAssumption == IsFiniteSet(Registrars)
ASSUME PartsAssumption == Parts \subseteq [asked : 0..MaxAsked, ops : 0..MaxOps, tries : 0..MaxTries]

VARIABLES
  inst,      (* starting, up (it is g_active_linux_instance), closing, gone *)
  bridge,    (* whether the monitor has read g_active_linux_instance        *)
  devices,   (* the serial number of every entry                            *)
  registrar, (* where every thread is, and the serial number it adds        *)
  told,      (* history: the CONNECTED events                               *)
  tries      (* calls of simbox_device_register so far                      *)

registryVars == <<devices, registrar, told, tries>>
vars == <<commandVars, callVars, registryVars, inst, bridge>>

Init ==
  /\ \E p \in Parts : /\ CommandInit(MaxAsked - p.asked)
                       /\ CallsInit(MaxOps - p.ops)
                       /\ tries = MaxTries - p.tries
  /\ inst = "starting"
  /\ bridge = FALSE
  /\ devices = <<Real>>
  /\ registrar = [r \in Registrars |-> [pc |-> "out", sn |-> Real]]
  /\ told = <<>>

-----------------------------------------------------------------------------
(* simbox_device_register                                                  *)

RegCheck(r) ==
  /\ inst = "up" /\ registrar[r].pc = "out" /\ tries < MaxTries
  /\ tries' = tries + 1
  /\ \E sn \in Serials :
       IF sn \in Range(devices) THEN UNCHANGED registrar
       ELSE registrar' = [registrar EXCEPT ![r] = [pc |-> "insert", sn |-> sn]]
  /\ UNCHANGED <<devices, told>>

BadRegInsert(r) == (* fires before it looks whether there is room *)
  /\ registrar[r].pc = "insert"
  /\ registrar' = [registrar EXCEPT ![r].pc = "tell"]
  /\ devices' = IF Len(devices) < MaxDevices THEN Append(devices, registrar[r].sn) ELSE devices
  /\ UNCHANGED <<told, tries>>

RegInsert(r) ==
  /\ registrar[r].pc = "insert" /\ Len(devices) < MaxDevices
  /\ registrar' = [registrar EXCEPT ![r].pc = "tell"]
  /\ devices' = Append(devices, registrar[r].sn)
  /\ UNCHANGED <<told, tries>>

(* no room, or no memory                                                   *)
RegFails(r) ==
  /\ registrar[r].pc = "insert"
  /\ registrar' = [registrar EXCEPT ![r].pc = "out"]
  /\ UNCHANGED <<devices, told, tries>>

(* the event is sent after the lock is released                            *)
RegTell(r) ==
  /\ registrar[r].pc = "tell"
  /\ registrar' = [registrar EXCEPT ![r].pc = "out"]
  /\ told' = Append(told, registrar[r].sn)
  /\ UNCHANGED <<devices, tries>>

Register(r) == RegCheck(r) \/ RegInsert(r) \/ RegFails(r) \/ RegTell(r)

-----------------------------------------------------------------------------
(* simbox_init has populated the registry: the driver runs already         *)
Active ==
  /\ inst = "starting" /\ inst' = "up"
  /\ UNCHANGED <<commandVars, callVars, registryVars, bridge>>

(* simbox_shutdown, called when no other function of the SDK is being      *)
(* called: the bridge is taken away,                                       *)
Close ==
  /\ inst = "up"
  /\ \A c \in Callers : ~Inside(c)
  /\ \A u \in Users : user[u].pc = "out"
  /\ \A r \in Registrars : registrar[r].pc = "out"
  /\ inst' = "closing"
  /\ UNCHANGED <<commandVars, callVars, registryVars, bridge>>

(* then the devices are destroyed, with the call that the SDK has made     *)
Destroy ==
  /\ inst = "closing" /\ inst' = "gone"
  /\ devices' = <<>>
  /\ dev' = NoCall
  /\ IF dev.owned /\ dev.cpvt \in Live
     THEN calls' = [calls EXCEPT ![dev.cpvt] = "free"] /\ UNCHANGED misused
     ELSE /\ UNCHANGED calls
          /\ misused' = IF dev.owned THEN misused \cup {"call"} ELSE misused
  /\ UNCHANGED <<commandVars, user, monitor, ops, registrar, told, tries, bridge>>

-----------------------------------------------------------------------------
(* The monitor thread                                                      *)

Reports == line # NULL \/ monitor # Quiet

Drive ==
  /\ inst # "gone" /\ ~Reports /\ MonitorFree
  /\ \/ (Line \/ Result \/ Flush) /\ UNCHANGED callVars
     \/ (Incoming \/ \E i \in Ids : Change(i) \/ Release(i)) /\ UNCHANGED commandVars
  /\ UNCHANGED <<registryVars, inst, bridge>>

(* g_active_linux_instance is read without a lock; if there is none, the   *)
(* report is lost                                                          *)
Enter ==
  /\ Reports /\ ~bridge
  /\ IF inst = "up" THEN bridge' = TRUE /\ UNCHANGED <<line, monitor>>
     ELSE line' = NULL /\ monitor' = Quiet /\ UNCHANGED bridge
  /\ UNCHANGED <<resp, caller, queue, asked, given_up, calls, dev, user, misused, ops,
                 registryVars, inst>>

(* with the lock of the instance, and of the device                        *)
Deliver ==
  /\ bridge /\ bridge' = FALSE
  /\ IF inst = "gone"
     THEN /\ line' = NULL /\ monitor' = Quiet
          /\ misused' = misused \cup {"instance"}
          /\ UNCHANGED <<resp, caller, queue, asked, given_up, calls, dev, user, ops>>
     ELSE \/ Capture /\ UNCHANGED callVars
          \/ (Attach \/ Fire) /\ UNCHANGED commandVars
  /\ UNCHANGED <<registryVars, inst>>

-----------------------------------------------------------------------------
(* an event callback runs between two reports                              *)
Ask(c) == inst = "up" /\ (c = Listener => ~Reports) /\ AtBegin(c)
Call(u) == inst = "up" /\ (Originate(u) \/ AnswerOrHangup(u))

Command ==
  /\ \E c \in Callers : Ask(c) \/ CommandStep(c)
  /\ UNCHANGED <<callVars, registryVars, inst, bridge>>
Calling ==
  /\ \E u \in Users : Call(u) \/ Alloc(u) \/ AllocFails(u) \/ Use(u)
  /\ UNCHANGED <<commandVars, registryVars, inst, bridge>>
Registering ==
  /\ \E r \in Registrars : Register(r)
  /\ UNCHANGED <<commandVars, callVars, inst, bridge>>

Next == \/ Command \/ Calling \/ Registering
        \/ Active \/ Close \/ Destroy
        \/ Drive \/ Enter \/ Deliver

(* a caller that waits is woken by the answer or by the clock              *)
Spec == Init /\ [][Next]_vars /\ \A c \in Callers : WF_vars(CommandStep(c) /\ UNCHANGED <<callVars, registryVars, inst, bridge>>)

-----------------------------------------------------------------------------
Entries(sn) == {i \in DOMAIN devices : devices[i] = sn}
Events(sn) == {i \in DOMAIN told : told[i] = sn}
Telling(sn) == {r \in Registrars : registrar[r].pc = "tell" /\ registrar[r].sn = sn}

TypeOK ==
  /\ CommandTypeOK /\ CallsTypeOK
  /\ inst \in {"starting", "up", "closing", "gone"}
  /\ Range(devices) \subseteq Serials

(* While there is an instance the pointer to a call dangles only from the  *)
(* freeing of the call to its report, whoever sets the pointer meanwhile.  *)
NoLastingDangle == inst = "up" => DanglesBriefly

(* However many threads register devices at once, the table never gets     *)
(* more entries than it has room for.                                      *)
RegistryFits == Len(devices) <= MaxDevices

(* Every entry is reported connected once, by the thread that made it,     *)
(* whatever the others find and add meanwhile.                             *)
ConnectedOnce ==
  inst # "gone" =>
    \A sn \in Serials \ {Real} :
      Cardinality(Entries(sn)) = Cardinality(Events(sn)) + Cardinality(Telling(sn))

(* A serial number is entered twice only by threads that register it at    *)
(* the same time, so no more often than there are threads, whatever was    *)
(* registered before; the real device has one entry (simbox_api.c:374).    *)
DuplicateOnlyByRace ==
  /\ \A sn \in Serials \ {Real} : Cardinality(Entries(sn)) <= Cardinality(Registrars)
  /\ Cardinality(Entries(Real)) <= 1

(* What does not hold: a serial number has one entry,                      *)
OnePerSerial == \A sn \in Serials : Cardinality(Entries(sn)) <= 1

(* and the instance is not used after simbox_shutdown has freed it.        *)
InstanceAlive == "instance" \notin misused
=============================================================================
