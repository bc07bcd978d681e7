----------------------------- MODULE FindDevice -----------------------------
(***************************************************************************)
(* Choosing the device for a call (find_device_by_resource_ex of           *)
(* chan_dongle.c, called by channel_request): the first one of a group or  *)
(* with an IMEI or a name that can dial ("g1", "i:...", the name), or the  *)
(* next one in turn of a group, a provider or an IMSI prefix ("r1",        *)
(* "p:...", "s:...").  Whose turn it is, is marked in the devices.         *)
(* The list of devices stays locked for reading during a search, but every *)
(* device is locked by itself: searches of several channels interleave     *)
(* between two devices.                                                    *)
(***************************************************************************)
EXTENDS Integers, Sequences, FiniteSets, SequencesExt

CONSTANTS
  Devices,   (* state->devices, in its order                                *)
  Threads,   (* threads that request a channel                              *)
  Kinds,     (* what a resource names: "group", "provider", "imsi", ...     *)
  Values,    (* the values a device may have for it                         *)
  Attrs,     (* what the devices may have at the start                      *)
  Resources, (* what is dialled, see ResourcesAssumption                    *)
  MAXDONGLEDEVICES,
  MaxMoves,  (* bound: how often a device gets another group, provider, ... *)
  None       (* no thread                                                   *)

Devs == ToSet(Devices)

ASSUME DevicesAssumption == Devices \in Seq(Devs) /\ IsInjective(Devices)

(* a prefix matches several values; in turn, or the first that can dial *)
ASSUME ResourcesAssumption ==
  Resources \subseteq [kind : Kinds, values : SUBSET Values, turn : BOOLEAN]
ASSUME AttrsAssumption == Attrs \subseteq [Devs -> [Kinds -> Values]]
ASSUME NumbersAssumption ==
  MAXDONGLEDEVICES \in Nat \ {0} /\ MaxMoves \in Nat
ASSUME ThreadsAssumption == None \notin Threads

VARIABLES
  attr,      (* the group, provider, IMSI of every device                   *)
  free,      (* the devices that can dial                                   *)
  last_used, (* group_last_used, prov_last_used, sim_last_used: for every   *)
             (* kind the devices that have the mark                         *)
  lock,      (* who has pvt->lock of every device between two steps         *)
  th,        (* where every thread is in its search                         *)
  able,      (* history: the devices each search could have found since it  *)
             (* began                                                       *)
  passed,    (* history: for every kind how often each device was passed    *)
             (* over for each other, in turn, although it could dial all    *)
             (* the time, since a search that was not alone found one       *)
  moves      (* how often devices have moved                                *)

vars == <<attr, free, last_used, lock, th, able, passed, moves>>

Matches(r, d) == attr[d][r.kind] \in r.values

NoPass == [d \in Devs |-> [o \in Devs |-> 0]]
Idle == [pc |-> "idle"]

Init ==
  /\ attr \in Attrs
  /\ free = Devs
  /\ last_used = [k \in Kinds |-> {}]
  /\ lock = [d \in Devs |-> None]
  /\ th = [t \in Threads |-> Idle]
  /\ able = [t \in Threads |-> {}]
  /\ passed = [k \in Kinds |-> NoPass]
  /\ moves = 0

At(t, pc) == th[t].pc = pc
Goto(t, rec) == th' = [th EXCEPT ![t] = rec]

-----------------------------------------------------------------------------
(* history: a search in turn is alone if no other one of its kind overlaps *)
(* with it and no device gets another group, ... while it goes on          *)
SearchesOf(k) == {u \in Threads : (At(u, "list") \/ At(u, "search")) /\ th[u].res.kind = k}
Disturbed(us) == [u \in Threads |-> IF u \in us THEN [th[u] EXCEPT !.alone = FALSE] ELSE th[u]]

Begin(t) ==
  /\ At(t, "idle")
  /\ \E r \in Resources :
       /\ LET others == IF r.turn THEN SearchesOf(r.kind) ELSE {}
              begun == [pc |-> CASE Devices = <<>> -> "none"
                                 [] Devices # <<>> /\ r.turn -> "list"
                                 [] OTHER -> "walk",
                        res |-> r, i |-> 1, list |-> <<>>, last |-> 0, tries |-> 0,
                        dev |-> None, alone |-> others = {}]
          IN  th' = [Disturbed(others) EXCEPT ![t] = begun]
       /\ able' = [able EXCEPT ![t] = {d \in free : Matches(r, d)}]
  /\ UNCHANGED <<attr, free, last_used, lock, passed, moves>>

(* the device that is found stays locked *)
Take(t, d) ==
  /\ lock' = [lock EXCEPT ![d] = t]
  /\ Goto(t, [th[t] EXCEPT !.pc = "found", !.dev = d])

Step(t) ==
  Goto(t, [th[t] EXCEPT !.i = @ + 1,
                        !.pc = IF th[t].i = Len(Devices) THEN "none" ELSE @])

(* "g1", "i:..." and a name: the first one that matches and can dial *)
Walk(t) ==
  /\ At(t, "walk")
  /\ LET d == Devices[th[t].i]
     IN  /\ lock[d] = None
         /\ IF Matches(th[t].res, d) /\ d \in free
            THEN Take(t, d) ELSE Step(t) /\ UNCHANGED lock
  /\ UNCHANGED <<attr, free, last_used, able, passed, moves>>

(* Mutant: the marks stay. *)
KeepMark(kind, d) == last_used
Unmark(kind, d) == [last_used EXCEPT ![kind] = @ \ {d}]

(* the devices that match are listed, the mark is taken off, and the place *)
(* of the last one that had it is kept                                     *)
List(t) ==
  /\ At(t, "list")
  /\ LET d    == Devices[th[t].i]
         r    == th[t].res
         ours == Matches(r, d)
         list == IF ours THEN Append(th[t].list, d) ELSE th[t].list
         mark == ours /\ d \in last_used[r.kind]
         full == ours /\ Len(list) = MAXDONGLEDEVICES
     IN  /\ lock[d] = None
         /\ Goto(t, [th[t] EXCEPT
                       !.list = list, !.i = @ + 1,
                       !.last = IF mark THEN Len(th[t].list) ELSE @,
                       !.pc = IF full \/ th[t].i = Len(Devices) THEN "search" ELSE @])
         /\ last_used' = IF ours THEN Unmark(r.kind, d) ELSE last_used
  /\ UNCHANGED <<attr, free, lock, able, passed, moves>>

(* those passed over when d is taken in its turn *)
PassOver(t, d) ==
  LET r      == th[t].res
      counts == passed[r.kind]
      more   == [e \in Devs |->
                  CASE e = d -> NoPass[e]
                    [] e # d /\ e \in free /\ Matches(r, e)
                         -> [counts[e] EXCEPT ![d] = IF @ = 2 THEN 2 ELSE @ + 1]
                    [] OTHER -> counts[e]]
  IN  passed' = [passed EXCEPT ![r.kind] = IF th[t].alone THEN more ELSE NoPass]

(* Mutants: the search begins with the device that was used last, and does *)
(* not try the last one.                                                   *)
StartAtLast(t) == th[t].last
TriesOthers(t) == Len(th[t].list) - 1

(* "starting at the last used device": behind it, and round *)
Start(t) == th[t].last + 1
Tries(t) == Len(th[t].list)

Search(t) ==
  /\ At(t, "search") /\ th[t].tries < Tries(t)
  /\ LET d == th[t].list[((Start(t) + th[t].tries) % Len(th[t].list)) + 1]
     IN  /\ lock[d] = None
         /\ IF d \in free
            THEN /\ Take(t, d) /\ PassOver(t, d)
                 /\ last_used' = [last_used EXCEPT ![th[t].res.kind] = @ \cup {d}]
            ELSE /\ Goto(t, [th[t] EXCEPT !.tries = @ + 1])
                 /\ UNCHANGED <<lock, last_used, passed>>
  /\ UNCHANGED <<attr, free, able, moves>>

SearchedAll(t) ==
  /\ At(t, "search") /\ th[t].tries >= Tries(t)
  /\ Goto(t, [th[t] EXCEPT !.pc = "none"])
  /\ UNCHANGED <<attr, free, last_used, lock, able, passed, moves>>

(* no channel can be had; the list is unlocked *)
Refuse(t) ==
  /\ At(t, "none")
  /\ Goto(t, Idle) /\ able' = [able EXCEPT ![t] = {}]
  /\ UNCHANGED <<attr, free, last_used, lock, passed, moves>>

(* what is no longer free is not waiting for its turn either *)
Forget(ds) ==
  passed' = [k \in Kinds |-> [e \in Devs |-> IF e \in ds THEN NoPass[e] ELSE passed[k][e]]]

Busy(ds) ==
  /\ free' = free \ ds
  /\ able' = [t \in Threads |-> able[t] \ ds]
  /\ Forget(ds)

(* channel_request makes a call, or fails to; an application that only     *)
(* asks for the status (app_status_exec) leaves the device as it was       *)
channel_request(t) ==
  /\ At(t, "found")
  /\ lock' = [lock EXCEPT ![th[t].dev] = None]
  /\ Goto(t, Idle)
  /\ \E ds \in SUBSET {th[t].dev} :
       /\ free' = free \ ds
       /\ Forget(ds)
       /\ able' = [u \in Threads |-> IF u = t THEN {} ELSE able[u] \ ds]
  /\ UNCHANGED <<attr, last_used, moves>>

(* calls come, go and change, the device is lost, stopped or registered *)
Changes(d) ==
  /\ lock[d] = None
  /\ IF d \in free THEN Busy({d})
                   ELSE free' = free \cup {d} /\ UNCHANGED <<able, passed>>
  /\ UNCHANGED <<attr, last_used, lock, th, moves>>

(* a reload changes the group, the network the provider, another SIM the   *)
(* IMSI                                                                    *)
Moves(d, k) ==
  /\ moves < MaxMoves /\ lock[d] = None
  /\ \E v \in Values \ {attr[d][k]} : attr' = [attr EXCEPT ![d][k] = v]
  /\ moves' = moves + 1
  /\ able' = [t \in Threads |-> IF ~At(t, "idle") /\ th[t].res.kind = k
                                 THEN able[t] \ {d} ELSE able[t]]
  /\ passed' = [passed EXCEPT ![k] = NoPass]
  /\ th' = Disturbed(SearchesOf(k))
  /\ UNCHANGED <<free, last_used, lock>>

-----------------------------------------------------------------------------
Next ==
  \/ \E t \in Threads : \/ Begin(t) \/ Walk(t) \/ List(t) \/ Search(t)
                        \/ SearchedAll(t) \/ Refuse(t) \/ channel_request(t)
  \/ \E d \in Devs : Changes(d) \/ \E k \in Kinds : Moves(d, k)

Spec == Init /\ [][Next]_vars

(* A search that has begun goes on. *)
GoesOn(t) == Walk(t) \/ List(t) \/ Search(t) \/ SearchedAll(t) \/ Refuse(t)
FairSpec ==
  Spec /\ \A t \in Threads : WF_vars(GoesOn(t)) /\ WF_vars(channel_request(t))

-----------------------------------------------------------------------------
Searching ==
  [pc : {"walk", "list", "search", "found", "none"}, res : Resources,
   i : 1 .. Len(Devices) + 1, list : Seq(Devs), last : Nat, tries : Nat,
   dev : Devs \cup {None}, alone : BOOLEAN]

TypeOK ==
  /\ attr \in [Devs -> [Kinds -> Values]] /\ free \subseteq Devs
  /\ last_used \in [Kinds -> SUBSET Devs] /\ lock \in [Devs -> Threads \cup {None}]
  /\ able \in [Threads -> SUBSET Devs] /\ passed \in [Kinds -> [Devs -> [Devs -> 0 .. 2]]]
  /\ moves \in 0 .. MaxMoves
  /\ th \in [Threads -> {Idle} \cup Searching]
  /\ \A t \in Threads : At(t, "found") => th[t].dev \in Devs /\ lock[th[t].dev] = t

(* A search finds nothing only if no device that matched could dial all    *)
(* the time it went on, however the devices looked at came and went, and   *)
(* wherever in the list the turn began.                                    *)
Complete == \A t \in Threads : At(t, "none") => able[t] = {}

(* As long as searches in turn for one kind of resource do not overlap,    *)
(* no device is taken twice while another one that matches can dial all    *)
(* the time and is not taken: through searches that find nothing, devices  *)
(* that come and go, and whatever marks earlier overlapping searches and   *)
(* moved devices have left.                                                *)
InTurn == \A k \in Kinds, e, d \in Devs : passed[k][e][d] <= 1

Rotation == Complete /\ InTurn

(* A device that can dial all the time gets its turn, as long as calls are *)
(* placed in turn; also when searches overlap and clear and set each       *)
(* other's marks, which may let others be taken before it any number of    *)
(* times.                                                                  *)
FoundInTurn(d) == \E t \in Threads : At(t, "found") /\ th[t].res.turn /\ th[t].dev = d
Waits(d) == d \in free /\ \A r \in Resources : Matches(r, d)
NoStarvation ==
  \A e \in Devs : <>[]Waits(e) /\ ([]<>\E d \in Devs : FoundInTurn(d)) => []<>FoundInTurn(e)

(* A promise that the code does not keep: the device found is of the group *)
(* that was asked for.                                                     *)
FoundMatches == \A t \in Threads : At(t, "found") => Matches(th[t].res, th[t].dev)
=============================================================================
