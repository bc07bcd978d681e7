----------------------------- MODULE Discovery -----------------------------
(***************************************************************************)
(* Looking for the modem of a configured device (pdiscovery.c, pvt_start   *)
(* and pvt_discovery of chan_dongle.c): every USB device of a known model  *)
(* is asked for its IMEI and IMSI, the answers are kept for the discovery  *)
(* interval, and the port of the one that matches is opened.  The thread   *)
(* do_discovery, "dongle discovery" of the CLI and the monitors of the     *)
(* devices all do this on the same ports, lock files and cache.            *)
(* A step ends where another thread may come between.                      *)
(***************************************************************************)
EXTENDS Ports, Sequences, SequencesExt

CONSTANTS
  Devs,      (* the configured devices, in their order                      *)
  Want,      (* the imei and imsi each is configured with, or None          *)
  Modems,    (* records of imei, imsi, product and interfaces               *)
  Listers,   (* the CLI threads: {"cli"}, or none                           *)
  None,      (* no imei, no imsi, no modem                                  *)
  Faults,    (* whether an open, a command or a thread may fail by itself   *)
  Budgets    (* bound: how often a modem is plugged in or out, another      *)
             (* program takes a port, and the CLI asks for the list; and in *)
             (* how many slots there may be a modem at the start            *)

ASSUME DevsAssumption == Devs \in Seq(Range(Devs)) /\ Devs # <<>>
ASSUME WantAssumption ==
  \A d \in Range(Devs) : DOMAIN Want[d] = {"imei", "imsi"}
ASSUME ModemsAssumption ==
  /\ None \notin Modems /\ "ANY" # None
  /\ \A m \in Modems : "ANY" \notin {m.imei, m.imsi}
ASSUME ListersAssumption == "discovery" \notin Listers /\ IsFiniteSet(Listers)
ASSUME FaultsAssumption == Faults \in BOOLEAN
ASSUME BudgetsAssumption == Budgets \subseteq 
  [plugs : Nat, others : Nat, lists : Nat, start : Nat]

VARIABLES
  usb,    (* the modem in every slot, or None                               *)
  cache,  (* the items: slot, imei, imsi, status, valid and a number        *)
  th,     (* where every thread is                                          *)
  conn,   (* the slot and descriptor of every device that is connected      *)
  fault,  (* an item was used after it was freed                            *)
  seen,   (* history: the modems that were in every slot                    *)
  left    (* how often the bounded events may still happen                  *)

vars == <<fds, lock, usb, cache, th, conn, fault, seen, left>>
disk == <<fds, lock>>
world == <<usb, seen, left>>

Threads == {"discovery"} \cup Listers
N == Len(Devs)
ANY == [imei |-> "ANY", imsi |-> "ANY"]
NoInfo == [imei |-> None, imsi |-> None]
Idle == [pc |-> "idle", dev |-> 1, slot |-> 0, res |-> NoInfo, fd |-> -1,
         fail |-> TRUE, item |-> 0]
Off == [slot |-> 0, fd |-> -1, pc |-> "off"]

req(t) == IF t = "discovery" THEN Want[Devs[th[t].dev]] ELSE ANY

At(t, pc) == th[t].pc = pc /\ ~fault
Goto(t, pc) == th' = [th EXCEPT ![t].pc = pc]

-----------------------------------------------------------------------------
Init ==
  /\ fds = [f \in Fds |-> Closed]
  /\ lock = [s \in Slots |-> NoLock]
  /\ usb \in [Slots -> Modems \cup {None}]
  /\ \A s, u \in Slots : usb[s] = usb[u] /\ usb[s] # None => s = u
  /\ seen = [s \in Slots |-> {usb[s]} \ {None}]
  /\ cache = <<>>
  /\ th = [t \in Threads |-> Idle]
  /\ conn = [d \in Range(Devs) |-> Off]
  /\ fault = FALSE
  /\ left \in Budgets
  /\ Cardinality({s \in Slots : usb[s] # None}) <= left.start

-----------------------------------------------------------------------------
(* The cache                                                               *)

Walking == \E t \in Listers : th[t].pc = "list" (* holds the read lock      *)

Numbers == {cache[i].n : i \in DOMAIN cache}
Alive(n) == n \in Numbers
NewNumber == LET used == Numbers \cup {th[t].item : t \in Threads}
             IN  Min((1..(Cardinality(used) + 1)) \ used)

(* cache_search walks up to the first valid item of the port and frees the *)
(* expired ones on the way; it gives that item out after it has unlocked   *)
Hits(s) == {i \in DOMAIN cache : cache[i].slot = s /\ cache[i].valid}
Found(s) == IF Hits(s) = {} THEN 0 ELSE Min(Hits(s))
Stays(s, i) == cache[i].valid \/ (Found(s) # 0 /\ i > Found(s))
Kept(s) ==
  LET upto[n \in 0 .. Len(cache)] ==
        CASE n = 0 -> <<>>
          [] n # 0 /\ Stays(s, n) -> Append(upto[n - 1], cache[n])
          [] OTHER -> upto[n - 1]
  IN  upto[Len(cache)]

cache_search(t, pc) ==
  /\ ~Walking
  /\ cache' = Kept(th[t].slot)
  /\ th' = [th EXCEPT ![t].pc = pc,
                      ![t].item = IF Found(th[t].slot) = 0 THEN 0
                                  ELSE cache[Found(th[t].slot)].n]
  /\ UNCHANGED <<disk, world, conn, fault>>

Item(t) == cache[CHOOSE i \in DOMAIN cache : cache[i].n = th[t].item]

UseFreed(t) ==
  /\ th[t].item # 0 /\ ~Alive(th[t].item)
  /\ fault' = TRUE
  /\ UNCHANGED <<disk, world, cache, th, conn>>

Enough(r, c) ==
  c.status \/ ((r.imei # None \/ c.imei # None) /\ (r.imsi # None \/ c.imsi # None))

Lookup(t) == At(t, "lookup") /\ cache_search(t, "copy")

cache_lookup(t) ==
  /\ At(t, "copy")
  /\ \/ UseFreed(t)
     \/ /\ th[t].item = 0
        /\ Goto(t, "opentty") /\ UNCHANGED <<disk, world, cache, conn, fault>>
     \/ /\ th[t].item # 0 /\ Alive(th[t].item)
        /\ LET c == Item(t)
               found == Enough(req(t), c)
           IN  th' = [th EXCEPT ![t].res = [imei |-> c.imei, imsi |-> c.imsi],
                                ![t].fail = IF found THEN c.status ELSE @,
                                ![t].item = 0,
                                ![t].pc = IF found THEN "release" ELSE "opentty"]
        /\ UNCHANGED <<disk, world, cache, conn, fault>>

Update(t) == At(t, "update") /\ cache_search(t, "store")

(* the insertion at the tail and the update of an item take no lock        *)
cache_update(t) ==
  /\ At(t, "store")
  /\ \/ UseFreed(t)
     \/ /\ th[t].item = 0 \/ Alive(th[t].item)
        /\ LET new(n) == [slot |-> th[t].slot, imei |-> th[t].res.imei,
                          imsi |-> th[t].res.imsi, status |-> th[t].fail,
                          valid |-> TRUE, n |-> n]
           IN  cache' = IF th[t].item = 0 THEN Append(cache, new(NewNumber))
                        ELSE [i \in DOMAIN cache |->
                                IF cache[i].n = th[t].item THEN new(th[t].item)
                                ELSE cache[i]]
        /\ th' = [th EXCEPT ![t].pc = "release", ![t].item = 0]
        /\ UNCHANGED <<disk, world, conn, fault>>

(* the discovery interval passes for an item                               *)
Expire ==
  /\ ~fault
  /\ \E i \in DOMAIN cache :
       cache[i].valid /\ cache' = [cache EXCEPT ![i].valid = FALSE]
  /\ UNCHANGED <<disk, world, th, conn, fault>>

-----------------------------------------------------------------------------
(* One request                                                             *)

(* do_discovery takes the next device; "dongle discovery" asks for any     *)
Begin(t) ==
  /\ At(t, "idle")
  /\ IF t = "discovery" /\ conn[Devs[th[t].dev]].pc # "off"
     THEN th' = [th EXCEPT ![t].dev = (@ % N) + 1]
     ELSE th' = [th EXCEPT ![t].pc = "device", ![t].slot = 1]
  /\ t \in Listers => left.lists > 0
  /\ left' = IF t \in Listers THEN [left EXCEPT !.lists = @ - 1] ELSE left
  /\ UNCHANGED <<disk, usb, seen, cache, conn, fault>>

BadNextSlot(t) == (* result_free is forgotten *)
  th' = [th EXCEPT ![t].pc = "device", ![t].slot = @ + 1,
                   ![t].fail = TRUE, ![t].item = 0, ![t].fd = -1]

NextSlot(t) ==
  th' = [th EXCEPT ![t].pc = "device", ![t].slot = @ + 1,
                   ![t].res = NoInfo, ![t].fail = TRUE, ![t].item = 0, ![t].fd = -1]

Again(t) == [Idle EXCEPT !.dev = IF t = "discovery" THEN (th[t].dev % N) + 1 ELSE 1]

(* the interface numbers of the data and the voice port                    *)
device_ids == [E1550 |-> <<2, 1>>, E17xx |-> <<3, 2>>, E1750 |-> <<4, 3>>, E171 |-> <<1, 2>>]

Usable(m) ==
  /\ m # None /\ m.product \in DOMAIN device_ids
  /\ Range(device_ids[m.product]) \subseteq m.interfaces

(* pdiscovery_check_device, or the end of the directory; then lock_try of  *)
(* pdiscovery_read_info                                                    *)
Device(t) ==
  /\ At(t, "device")
  /\ LET s == th[t].slot
     IN  CASE s \notin Slots ->
                th' = [th EXCEPT ![t] = IF t = "discovery" THEN Again(t)
                                        ELSE [Idle EXCEPT !.pc = "list"]]
           [] s \in Slots /\ Usable(usb[s]) /\ ~Busy(s) -> Goto(t, "claim")
           [] OTHER -> NextSlot(t)
  /\ UNCHANGED <<disk, world, cache, conn, fault>>

Claim(t) ==
  /\ At(t, "claim")
  /\ lock_create(th[t].slot)
  /\ Goto(t, "lookup")
  /\ UNCHANGED <<fds, world, cache, conn, fault>>

(* opentty in three steps, for a probe and (the names with a 2) for the    *)
(* start of a device                                                       *)
Opentty(t) ==
  /\ At(t, "opentty") \/ At(t, "opentty2")
  /\ LET next == IF th[t].pc = "opentty" THEN "lock" ELSE "lock2"
     IN  th' = [th EXCEPT ![t] =
           IF ~Busy(@.slot)         THEN [@ EXCEPT !.pc = next]
           ELSE IF @.pc = "opentty" THEN [@ EXCEPT !.pc = "update", !.fail = TRUE]
           ELSE Again(t)]
  /\ UNCHANGED <<disk, world, cache, conn, fault>>

Lock(t) ==
  /\ At(t, "lock") \/ At(t, "lock2")
  /\ lock_create(th[t].slot)
  /\ Goto(t, IF th[t].pc = "lock" THEN "open" ELSE "open2")
  /\ UNCHANGED <<fds, world, cache, conn, fault>>

Open(t) ==
  /\ At(t, "open") \/ At(t, "open2")
  /\ usb[th[t].slot] # None /\ Free # {}
  /\ open(NewFd, th[t].slot)
  /\ th' = [th EXCEPT ![t].pc = IF @ = "open" THEN "command" ELSE "monitor",
                      ![t].fd = NewFd]
  /\ UNCHANGED <<lock, world, cache, conn, fault>>

BadOpenFails(t) == (* the lock file is left *)
  /\ At(t, "open") \/ At(t, "open2")
  /\ th' = [th EXCEPT ![t] = IF @.pc = "open" THEN [@ EXCEPT !.pc = "update", !.fail = TRUE]
                             ELSE Again(t)]
  /\ UNCHANGED <<disk, world, cache, conn, fault>>

OpenFails(t) ==
  /\ At(t, "open") \/ At(t, "open2")
  /\ Faults \/ usb[th[t].slot] = None \/ Free = {}
  /\ unlink(th[t].slot)
  /\ th' = [th EXCEPT ![t] = IF @.pc = "open" THEN [@ EXCEPT !.pc = "update", !.fail = TRUE]
                             ELSE Again(t)]
  /\ UNCHANGED <<fds, world, cache, conn, fault>>

(* pdiscovery_do_cmd: what is wanted and not known from the cache is asked *)
(* and taken from the answer; ERROR ends the answer as well as OK.  Then   *)
(* closetty: the descriptor first, the lock file later                     *)
Merge(r, known, m) ==
  [f \in {"imei", "imsi"} |-> IF r[f] # None /\ known[f] = None THEN m[f] ELSE known[f]]

Command(t) ==
  /\ At(t, "command")
  /\ close(th[t].fd)
  /\ \/ /\ fds[th[t].fd] \in Slots
        /\ th' = [th EXCEPT ![t].pc = "unlink", ![t].fd = -1, ![t].fail = FALSE,
                            ![t].res = Merge(req(t), @, usb[th[t].slot])]
     \/ /\ Faults \/ fds[th[t].fd] = Hung
        /\ th' = [th EXCEPT ![t].pc = "unlink", ![t].fd = -1, ![t].fail = TRUE]
  /\ UNCHANGED <<lock, world, cache, conn, fault>>

Unlink(t) ==
  /\ At(t, "unlink") \/ At(t, "unlink2")
  /\ unlink(th[t].slot)
  /\ th' = [th EXCEPT ![t] = IF @.pc = "unlink" THEN [@ EXCEPT !.pc = "update"]
                             ELSE Again(t)]
  /\ UNCHANGED <<fds, world, cache, conn, fault>>

Matched(r, res) ==
  \A f \in {"imei", "imsi"} : r[f] # None => res[f] = r[f]

(* the second closetty of pdiscovery_read_info, and pdiscovery_check_req   *)
Release(t) ==
  /\ At(t, "release")
  /\ unlink(th[t].slot)
  /\ IF ~th[t].fail /\ Matched(req(t), th[t].res) THEN Goto(t, "opentty2") ELSE NextSlot(t)
  /\ UNCHANGED <<fds, world, cache, conn, fault>>

(* start_monitor makes the monitor thread, or the port is closed again     *)
Monitor(t) ==
  /\ At(t, "monitor")
  /\ \/ /\ conn' = [conn EXCEPT ![Devs[th[t].dev]] =
                      [slot |-> th[t].slot, fd |-> th[t].fd, pc |-> "on"]]
        /\ th' = [th EXCEPT ![t] = Again(t)]
        /\ UNCHANGED fds
     \/ /\ Faults
        /\ close(th[t].fd)
        /\ th' = [th EXCEPT ![t].pc = "unlink2", ![t].fd = -1]
        /\ UNCHANGED conn
  /\ UNCHANGED <<lock, world, cache, fault>>

-----------------------------------------------------------------------------
(* disconnect_dongle in the monitor thread, after an unplug or any failure *)

Disconnect(d) ==
  /\ ~fault /\ conn[d].pc = "on"
  /\ close(conn[d].fd)
  /\ conn' = [conn EXCEPT ![d].pc = "unlink"]
  /\ UNCHANGED <<lock, world, cache, th, fault>>

Disconnected(d) ==
  /\ ~fault /\ conn[d].pc = "unlink"
  /\ unlink(conn[d].slot)
  /\ conn' = [conn EXCEPT ![d] = Off]
  /\ UNCHANGED <<fds, world, cache, th, fault>>

-----------------------------------------------------------------------------
(* cli_discovery walks the items from pdiscovery_list_begin to _end        *)
BadListEnd(t) == (* the list is left without pdiscovery_list_end *)
  /\ At(t, "list")
  /\ UNCHANGED vars

pdiscovery_list_end(t) ==
  /\ At(t, "list")
  /\ Goto(t, "idle")
  /\ UNCHANGED <<disk, world, cache, conn, fault>>

-----------------------------------------------------------------------------
(* modems come and go, other programs use the ports                        *)
Unplug(s) ==
  /\ ~fault /\ usb[s] # None /\ left.plugs > 0
  /\ usb' = [usb EXCEPT ![s] = None]
  /\ hangup(s)
  /\ left' = [left EXCEPT !.plugs = @ - 1]
  /\ UNCHANGED <<lock, cache, th, conn, fault, seen>>

Plug(s, m) ==
  /\ ~fault /\ usb[s] = None /\ left.plugs > 0
  /\ \A u \in Slots : usb[u] # m
  /\ usb' = [usb EXCEPT ![s] = m]
  /\ seen' = [seen EXCEPT ![s] = @ \cup {m}]
  /\ left' = [left EXCEPT !.plugs = @ - 1]
  /\ UNCHANGED <<disk, cache, th, conn, fault>>

ForeignLock(s) ==
  /\ ~fault /\ lock[s] = NoLock /\ left.others > 0
  /\ lock' = [lock EXCEPT ![s] = Foreign]
  /\ left' = [left EXCEPT !.others = @ - 1]
  /\ UNCHANGED <<fds, usb, seen, cache, th, conn, fault>>

ForeignUnlock(s) ==
  /\ ~fault /\ lock[s] = Foreign
  /\ unlink(s)
  /\ UNCHANGED <<fds, world, cache, th, conn, fault>>

Step(t) ==
  \/ Begin(t) \/ Device(t) \/ Claim(t) \/ Lookup(t) \/ cache_lookup(t)
  \/ Opentty(t) \/ Lock(t) \/ Open(t) \/ OpenFails(t) \/ Command(t)
  \/ Unlink(t) \/ Update(t) \/ cache_update(t) \/ Release(t) \/ Monitor(t)
  \/ pdiscovery_list_end(t)

Next ==
  \/ \E t \in Threads : Step(t)
  \/ \E d \in Range(Devs) : Disconnect(d) \/ Disconnected(d)
  \/ Expire
  \/ \E s \in Slots : Unplug(s) \/ ForeignLock(s) \/ ForeignUnlock(s)
  \/ \E s \in Slots, m \in Modems : Plug(s, m)

(* a thread goes on with what it began, and gets a lock that is free again *)
(* and again; nobody has to ask for the list                               *)
Fairness ==
  /\ SF_vars(Step("discovery"))
  /\ \A t \in Listers : SF_vars(th[t].pc # "idle" /\ Step(t))
  /\ \A d \in Range(Devs) : WF_vars(Disconnected(d))

Spec == Init /\ [][Next]_vars /\ Fairness

-----------------------------------------------------------------------------
Owners(s) == {t \in Threads : th[t].slot = s /\ th[t].pc \notin {"device", "idle"}}
               \cup {d \in Range(Devs) : conn[d].slot = s}

TypeOK ==
  /\ fds \in [Fds -> Slots \cup {Closed, Hung}]
  /\ lock \in [Slots -> Fds \cup {NoLock, Foreign}]
  /\ usb \in [Slots -> Modems \cup {None}]
  /\ \A i \in DOMAIN cache : cache[i].slot \in Slots
  /\ \A t \in Threads : th[t].slot \in 0..(Cardinality(Slots) + 1) /\ th[t].dev \in 1..N
  /\ fault \in BOOLEAN

(* On every way out of lock_try, opentty and pvt_start the file is removed *)
(* again, so that one of this process means that a thread works on the     *)
(* port or a device is connected on it.                                    *)
NoLockLeft == \A s \in Slots : lock[s] \in Fds => Owners(s) # {}

(* No descriptor stays open that nobody will close.                        *)
NoFdLeft ==
  \A f \in Fds : fds[f] # Closed =>
    \/ \E t \in Threads : th[t].fd = f
    \/ \E d \in Range(Devs) : conn[d].fd = f

(* Whatever fails, and whoever acts between two steps, a thread gives back *)
(* what it took: no lock file keeps a port from being looked at again, and *)
(* no descriptor is lost.                                                  *)
GivenBack == NoLockLeft /\ NoFdLeft

Says(s, f, v) == v = None \/ \E m \in seen[s] : m[f] = v

(* What the cache tells of a port, and what a device is started on, was    *)
(* answered by a modem in that port: never by one in another port, nor by  *)
(* the one looked at before it.                                            *)
Answered ==
  \A f \in {"imei", "imsi"} :
    /\ \A i \in DOMAIN cache : Says(cache[i].slot, f, cache[i][f])
    /\ \A d \in Range(Devs) : conn[d].pc = "on" =>
         Want[d][f] = None \/ \E m \in seen[conn[d].slot] : m[f] = Want[d][f]

(* While "dongle discovery" walks the items none is freed: it holds the    *)
(* read lock, and they are only freed under the write lock.                *)
ListStable == [][Walking => IsPrefix([i \in DOMAIN cache |-> cache[i].n],
                                     [i \in DOMAIN cache' |-> cache'[i].n])]_vars

(* The discovery thread gets through every device, whatever the ports, the *)
(* other programs and the CLI do: the next round begins.                   *)
RoundEnds == []<>(th["discovery"].pc = "idle" \/ fault)

-----------------------------------------------------------------------------
(* What does not hold.                                                     *)

(* A port is open once: not so when a descriptor is freed or taken between *)
(* the writing of the lock file and the opening of the port.               *)
OpenOnce == \A s \in Slots : Cardinality({f \in Fds : fds[f] = s}) <= 1

(* The lock file of another program is left alone.                         *)
ForeignSpared == [][\A s \in Slots : lock[s] = Foreign => lock'[s] \in {Foreign, NoLock}]_vars

(* An item is not used after it was freed.                                 *)
ItemsUsedAlive == ~fault

(* A device is started on a modem that has the imei and the imsi it wants. *)
ExactMatch ==
  \A d \in Range(Devs), s \in Slots :
    conn[d].pc = "on" /\ conn[d].slot = s /\ usb[s] # None =>
      \A f \in {"imei", "imsi"} : Want[d][f] # None => usb[s][f] = Want[d][f]

(* A device whose modem is there, and stays there, is found: not so when   *)
(* the cache was filled for one that wants less.                           *)
ModemFound == \A d \in Range(Devs) :
  (\E s \in Slots : usb[s] # None /\ Matched(Want[d], usb[s])) => <>(conn[d].pc = "on")
=============================================================================
