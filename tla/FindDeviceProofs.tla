--------------------------- MODULE FindDeviceProofs ---------------------------
(***************************************************************************)
(* That the choice of a device is complete and goes in turn, for every     *)
(* list of devices, every set of threads and of resources, and any number  *)
(* of moves: safety of FindDevice.                                         *)
(***************************************************************************)
EXTENDS FindDevice, TLAPS

(* What the properties need besides the specification.  The array of a     *)
(* search in turn has room for all devices (chan_dongle.c:934).            *)
FewEnough == Len(Devices) <= MAXDONGLEDEVICES

(* Two resources that share the marks of a kind share all of their values  *)
(* or none: groups and providers always, IMSI prefixes unless one extends  *)
(* another.                                                                *)
TurnsApart ==
  \A r, s \in Resources : r.turn /\ s.turn /\ r.kind = s.kind =>
    r.values = s.values \/ r.values \cap s.values = {}

Turning(t) == At(t, "list") \/ At(t, "search")
SearchesFor(r) == {t \in Threads : Turning(t) /\ th[t].res = r}
Marked(r) == {d \in Devs : Matches(r, d)} \cap last_used[r.kind]
Place(d) == CHOOSE j \in 1 .. Len(Devices) : Devices[j] = d

(* in a round that begins behind m, x comes before y; m comes last *)
Before(m, x, y) == (m < x /\ x < y) \/ (x < y /\ y <= m) \/ (y <= m /\ m < x)

-----------------------------------------------------------------------------
(* The devices that a search has still to look at.                         *)
Unseen(t) == {Devices[j] : j \in th[t].i .. Len(Devices)}
Turn(t, q) == th[t].list[((Start(t) + q) % Len(th[t].list)) + 1]
Untried(t) == {Turn(t, q) : q \in th[t].tries .. Len(th[t].list) - 1}

(* What a search could find since it began can dial, matches, and is still *)
(* to be looked at.                                                        *)
FindableBy(t) ==
  /\ At(t, "idle") \/ At(t, "none") => able[t] = {}
  /\ ~At(t, "idle") => \A d \in able[t] : d \in free /\ Matches(th[t].res, d)
  /\ At(t, "walk") => able[t] \subseteq Unseen(t)
  /\ At(t, "list") => able[t] \subseteq Unseen(t) \cup ToSet(th[t].list)
  /\ At(t, "search") => able[t] \subseteq Untried(t)

Findable == \A t \in Threads : FindableBy(t)

(* The list of a search in turn has the devices in their order.            *)
InOrder(t) ==
  Turning(t) =>
    /\ th[t].res.turn /\ (At(t, "list") => th[t].tries = 0)
    /\ Len(th[t].list) < th[t].i /\ (th[t].last = 0 \/ th[t].last < Len(th[t].list))
    /\ \A a \in DOMAIN th[t].list : Place(th[t].list[a]) < th[t].i
    /\ \A a, b \in DOMAIN th[t].list : a < b => Place(th[t].list[a]) < Place(th[t].list[b])

Listed == \A t \in Threads : InOrder(t)

Started ==
  \A t \in Threads : At(t, "walk") \/ At(t, "list") => th[t].i <= Len(Devices)

(* A search that is alone has listed all that match so far, and the marks  *)
(* of these are off.                                                       *)
Exact(t) ==
  Turning(t) /\ th[t].alone =>
    /\ SearchesOf(th[t].res.kind) = {t}
    /\ At(t, "search") => th[t].i = Len(Devices) + 1
    /\ \A j \in 1 .. th[t].i - 1 :
         /\ Matches(th[t].res, Devices[j]) <=> Devices[j] \in ToSet(th[t].list)
         /\ Matches(th[t].res, Devices[j]) => Devices[j] \notin last_used[th[t].res.kind]

AloneExact == \A t \in Threads : Exact(t)

(* Who was passed over can dial, and waits in one place; and every search  *)
(* there could have found it since it began.                               *)
Passed(r, e, d) == Matches(r, e) /\ passed[r.kind][e][d] >= 1
Turns == {r \in Resources : r.turn}

Waiters ==
  \A k \in Kinds, e, d \in Devs : passed[k][e][d] >= 1 =>
    e \in free /\ \E r \in Turns : r.kind = k /\ Matches(r, e)
Held(r) == \A e, d \in Devs : Passed(r, e, d) => \A t \in SearchesFor(r) : e \in able[t]

(* The round behind m: the only mark is at m, or is where the one search   *)
(* has noted it; and who was passed over comes before those who were taken *)
(* instead.                                                                *)
MarkAt(r, m) == Marked(r) = {Devices[m]}
Noted(t, r, m) ==
  IF m >= th[t].i THEN MarkAt(r, m) /\ th[t].last = 0
  ELSE /\ Marked(r) = {}
       /\ th[t].last < Len(th[t].list) /\ th[t].list[th[t].last + 1] = Devices[m]
Round(r, m) ==
  /\ Matches(r, Devices[m])
  /\ \A e, d \in Devs : Passed(r, e, d) => Matches(r, d) /\ Before(m, Place(e), Place(d))
  /\ SearchesFor(r) = {} => MarkAt(r, m)
  /\ \A t \in SearchesFor(r) : th[t].alone => Noted(t, r, m)
InRound(r) ==
  (\E e, d \in Devs : Passed(r, e, d)) => \E m \in 1 .. Len(Devices) : Round(r, m)

Rounds == \A r \in Turns : Held(r) /\ InRound(r)

(* The inductive invariant. *)
IInv ==
  /\ TypeOK /\ Started /\ Findable /\ Listed
  /\ AloneExact /\ Waiters /\ Rounds /\ InTurn

-----------------------------------------------------------------------------
(* Devices and their places correspond. *)
LEMMA Places ==
  /\ Len(Devices) \in Nat /\ DOMAIN Devices = 1 .. Len(Devices)
  /\ \A j \in 1 .. Len(Devices) : Devices[j] \in Devs /\ Place(Devices[j]) = j
  /\ \A d \in Devs : Place(d) \in 1 .. Len(Devices) /\ Devices[Place(d)] = d
<1>1. Devices \in Seq(Devs) /\ \A i, j \in DOMAIN Devices : Devices[i] = Devices[j] => i = j
  BY DevicesAssumption DEF IsInjective
<1>2. Len(Devices) \in Nat /\ DOMAIN Devices = 1 .. Len(Devices)
  BY <1>1
<1>3. \A d \in Devs : \E j \in 1 .. Len(Devices) : Devices[j] = d
  BY <1>2 DEF Devs, ToSet
<1>4. \A d \in Devs : Place(d) \in 1 .. Len(Devices) /\ Devices[Place(d)] = d
  BY <1>3 DEF Place
<1>5. \A j \in 1 .. Len(Devices) : Devices[j] \in Devs
  BY <1>2 DEF Devs, ToSet
<1> QED BY <1>1, <1>2, <1>4, <1>5

(* The fields of a search. *)
LEMMA Fields ==
  ASSUME TypeOK, NEW t \in Threads, ~At(t, "idle")
  PROVE  /\ th[t] \in Searching
         /\ th[t].pc \in {"walk", "list", "search", "found", "none"}
         /\ th[t].res \in Resources /\ th[t].res.kind \in Kinds
         /\ th[t].res.values \subseteq Values /\ th[t].res.turn \in BOOLEAN
         /\ th[t].i \in 1 .. Len(Devices) + 1 /\ th[t].list \in Seq(Devs)
         /\ th[t].last \in Nat /\ th[t].tries \in Nat
         /\ th[t].dev \in Devs \cup {None} /\ th[t].alone \in BOOLEAN
<1>1. th[t] \in {Idle} \cup Searching /\ th[t].pc # "idle"
  BY DEF TypeOK, At
<1>2. th[t] \in Searching
  BY <1>1 DEF Idle
<1> QED BY <1>2, ResourcesAssumption DEF Searching

States == [Threads -> {Idle} \cup Searching]

(* A thread goes on with other fields. *)
LEMMA Changed ==
  ASSUME TypeOK, NEW t \in Threads, NEW rec \in {Idle} \cup Searching, Goto(t, rec)
  PROVE  th'[t] = rec /\ (\A u \in Threads \ {t} : th'[u] = th[u]) /\ th' \in States
BY DEF TypeOK, Goto, States

LEMMA DisturbedFields ==
  ASSUME TypeOK, NEW us, us \subseteq Threads, \A u \in us : ~At(u, "idle"), NEW u \in Threads
  PROVE  LET rec == Disturbed(us)[u]
         IN  /\ th[u] = Idle => rec = Idle
             /\ th[u] \in Searching => rec \in Searching
             /\ u \notin us => rec = th[u]
             /\ u \in us => /\ rec.pc = th[u].pc /\ rec.res = th[u].res /\ rec.i = th[u].i
                            /\ rec.list = th[u].list /\ rec.last = th[u].last
                            /\ rec.tries = th[u].tries /\ rec.dev = th[u].dev
                            /\ rec.alone = FALSE
<1>1. CASE u \notin us
  BY <1>1 DEF Disturbed
<1>2. CASE u \in us
  <2>1. th[u] \in Searching
    BY <1>2, Fields
  <2>2. Disturbed(us)[u] = [th[u] EXCEPT !.alone = FALSE]
    BY <1>2 DEF Disturbed
  <2>3. th[u] # Idle
    BY <1>2 DEF At, Idle
  <2>. QED BY <1>2, <2>1, <2>2, <2>3 DEF Searching
<1> QED BY <1>1, <1>2

-----------------------------------------------------------------------------
(* What the steps do to the thread that takes them, and to the others.     *)

Others(r) == IF r.turn THEN SearchesOf(r.kind) ELSE {}
FirstPc(r) == IF Devices = <<>> THEN "none" ELSE IF r.turn THEN "list" ELSE "walk"

LEMMA SearchesAre ==
  ASSUME TypeOK, NEW k
  PROVE  /\ SearchesOf(k) \subseteq Threads
         /\ \A u \in SearchesOf(k) : ~At(u, "idle") /\ Turning(u) /\ th[u].res.kind = k
         /\ \A u \in Threads : Turning(u) /\ th[u].res.kind = k => u \in SearchesOf(k)
BY DEF SearchesOf, At, Turning

Begun(t, r) ==
  /\ r \in Resources /\ At(t, "idle")
  /\ th'[t] \in Searching
  /\ th'[t].pc = FirstPc(r) /\ th'[t].res = r /\ th'[t].i = 1 /\ th'[t].list = <<>>
  /\ th'[t].last = 0 /\ th'[t].tries = 0 /\ th'[t].alone = (Others(r) = {})
  /\ \A u \in Threads \ {t} : th'[u] = Disturbed(Others(r))[u]
  /\ th' \in States
  /\ able' = [able EXCEPT ![t] = {d \in free : Matches(r, d)}]
  /\ UNCHANGED <<attr, free, last_used, lock, passed, moves>>

LEMMA Begins ==
  ASSUME TypeOK, NEW t \in Threads, Begin(t)
  PROVE  \E r \in Resources : Begun(t, r)
<1> DEFINE Rec(r) == [pc |-> FirstPc(r), res |-> r, i |-> 1, list |-> <<>>, last |-> 0,
                      tries |-> 0, dev |-> None, alone |-> Others(r) = {}]
<1>1. PICK r \in Resources : /\ th' = [Disturbed(Others(r)) EXCEPT ![t] = Rec(r)]
                             /\ able' = [able EXCEPT ![t] = {d \in free : Matches(r, d)}]
  <2>1. \A r \in Resources :
          (CASE Devices = <<>> -> "none"
             [] Devices # <<>> /\ r.turn -> "list"
             [] OTHER -> "walk") = FirstPc(r)
    BY DEF FirstPc
  <2>2. PICK r \in Resources :
           /\ th' = [Disturbed(Others(r)) EXCEPT ![t] =
                       [pc |-> CASE Devices = <<>> -> "none"
                                 [] Devices # <<>> /\ r.turn -> "list"
                                 [] OTHER -> "walk",
                        res |-> r, i |-> 1, list |-> <<>>, last |-> 0, tries |-> 0,
                        dev |-> None, alone |-> Others(r) = {}]]
           /\ able' = [able EXCEPT ![t] = {d \in free : Matches(r, d)}]
    BY DEF Begin, Others
  <2>. QED BY <2>1, <2>2
<1>2. Disturbed(Others(r)) \in States
  <2>1. Others(r) \subseteq Threads /\ \A u \in Others(r) : ~At(u, "idle")
    BY SearchesAre DEF Others
  <2>2. \A u \in Threads : th[u] \in {Idle} \cup Searching
    BY DEF TypeOK
  <2>3. \A u \in Threads : Disturbed(Others(r))[u] \in {Idle} \cup Searching
    BY <2>1, <2>2, DisturbedFields
  <2>4. Disturbed(Others(r)) = [u \in Threads |-> Disturbed(Others(r))[u]]
    BY DEF Disturbed
  <2>. QED BY <2>3, <2>4 DEF States
<1>3. Rec(r) \in Searching
  <2>1. 1 \in 1 .. Len(Devices) + 1 /\ <<>> \in Seq(Devs) /\ 0 \in Nat
    BY Places
  <2>2. FirstPc(r) \in {"walk", "list", "search", "found", "none"}
    BY DEF FirstPc
  <2>. QED BY <2>1, <2>2 DEF Searching
<1> HIDE DEF Rec
<1>4. th'[t] = Rec(r) /\ th' \in States
      /\ \A u \in Threads \ {t} : th'[u] = Disturbed(Others(r))[u]
  BY <1>1, <1>2, <1>3 DEF States
<1>5. At(t, "idle") /\ UNCHANGED <<attr, free, last_used, lock, passed, moves>>
  BY DEF Begin
<1>6. /\ Rec(r).pc = FirstPc(r) /\ Rec(r).res = r /\ Rec(r).i = 1 /\ Rec(r).list = <<>>
      /\ Rec(r).last = 0 /\ Rec(r).tries = 0 /\ Rec(r).alone = (Others(r) = {})
  BY DEF Rec
<1> QED BY <1>1, <1>3, <1>4, <1>5, <1>6 DEF Begun

(* the fields that a search goes on with, from the list on *)
Goes(t, pc) ==
  /\ th'[t] \in Searching /\ th'[t].pc = pc
  /\ th'[t].res = th[t].res /\ th'[t].alone = th[t].alone
  /\ \A u \in Threads \ {t} : th'[u] = th[u]
  /\ th' \in States

TakenBy(t, d) ==
  /\ Goes(t, "found") /\ th'[t].dev = d
  /\ lock' = [lock EXCEPT ![d] = t]

LEMMA Takes ==
  ASSUME TypeOK, NEW t \in Threads, ~At(t, "idle"), NEW d \in Devs, Take(t, d)
  PROVE  TakenBy(t, d)
<1> DEFINE rec == [th[t] EXCEPT !.pc = "found", !.dev = d]
<1>1. th[t] \in Searching
  BY Fields
<1>2. /\ rec \in Searching /\ rec.pc = "found" /\ rec.dev = d
      /\ rec.res = th[t].res /\ rec.alone = th[t].alone
  BY <1>1 DEF Searching
<1>3. Goto(t, rec) /\ lock' = [lock EXCEPT ![d] = t]
  BY DEF Take
<1> HIDE DEF rec
<1> QED BY <1>2, <1>3, Changed DEF TakenBy, Goes

Walked(t, d) ==
  /\ At(t, "walk") /\ d = Devices[th[t].i] /\ d \in Devs /\ lock[d] = None
  /\ \/ Matches(th[t].res, d) /\ d \in free /\ TakenBy(t, d)
     \/ /\ ~(Matches(th[t].res, d) /\ d \in free)
        /\ Goes(t, IF th[t].i = Len(Devices) THEN "none" ELSE "walk")
        /\ th'[t].i = th[t].i + 1 /\ lock' = lock
  /\ UNCHANGED <<attr, free, last_used, able, passed, moves>>

LEMMA Walks ==
  ASSUME TypeOK, Started, NEW t \in Threads, Walk(t)
  PROVE  \E d \in Devs : Walked(t, d)
<1> DEFINE d == Devices[th[t].i]
           rec == [th[t] EXCEPT !.i = @ + 1, !.pc = IF th[t].i = Len(Devices) THEN "none" ELSE @]
<1>1. /\ At(t, "walk") /\ lock[d] = None
      /\ IF Matches(th[t].res, d) /\ d \in free THEN Take(t, d) ELSE Step(t) /\ lock' = lock
      /\ UNCHANGED <<attr, free, last_used, able, passed, moves>>
  BY DEF Walk
<1>2. ~At(t, "idle") /\ th[t] \in Searching /\ th[t].i \in 1 .. Len(Devices)
  BY <1>1, Fields, Places DEF Started, At
<1>3. d \in Devs
  BY <1>2, Places
<1>4. CASE Matches(th[t].res, d) /\ d \in free
  BY <1>1, <1>2, <1>3, <1>4, Takes DEF Walked
<1>5. CASE ~(Matches(th[t].res, d) /\ d \in free)
  <2>1. Goto(t, rec) /\ lock' = lock
    BY <1>1, <1>5 DEF Step
  <2>2. /\ rec \in Searching /\ rec.i = th[t].i + 1
        /\ rec.pc = IF th[t].i = Len(Devices) THEN "none" ELSE "walk"
        /\ rec.res = th[t].res /\ rec.alone = th[t].alone
    <3>1. th[t].pc = "walk" /\ th[t].i + 1 \in 1 .. Len(Devices) + 1 /\ th[t].i \in Int
      BY <1>1, <1>2, Places DEF At
    <3> DEFINE pc == IF th[t].i = Len(Devices) THEN "none" ELSE "walk"
    <3>2. rec = [th[t] EXCEPT !.i = th[t].i + 1, !.pc = pc]
      BY <3>1
    <3>3. pc \in {"walk", "list", "search", "found", "none"}
      OBVIOUS
    <3> HIDE DEF pc, rec
    <3>4. /\ rec \in Searching /\ rec.i = th[t].i + 1 /\ rec.pc = pc
          /\ rec.res = th[t].res /\ rec.alone = th[t].alone
      BY <1>2, <3>1, <3>2, <3>3 DEF Searching
    <3>. QED BY <3>4 DEF pc
  <2> HIDE DEF rec
  <2>3. Goes(t, IF th[t].i = Len(Devices) THEN "none" ELSE "walk") /\ th'[t].i = th[t].i + 1
    BY <2>1, <2>2, Changed DEF Goes
  <2>. QED BY <1>1, <1>3, <1>5, <2>1, <2>3 DEF Walked
<1> QED BY <1>4, <1>5

ListedBy(t, d) ==
  LET r    == th[t].res
      mark == Matches(r, d) /\ d \in last_used[r.kind]
      full == Matches(r, d) /\ Len(th[t].list) + 1 = MAXDONGLEDEVICES
  IN  /\ At(t, "list") /\ d = Devices[th[t].i] /\ d \in Devs /\ lock[d] = None
      /\ Goes(t, IF full \/ th[t].i = Len(Devices) THEN "search" ELSE "list")
      /\ th'[t].i = th[t].i + 1 /\ th'[t].tries = th[t].tries
      /\ th'[t].list = IF Matches(r, d) THEN Append(th[t].list, d) ELSE th[t].list
      /\ th'[t].last = IF mark THEN Len(th[t].list) ELSE th[t].last
      /\ last_used' = IF Matches(r, d) THEN [last_used EXCEPT ![r.kind] = @ \ {d}] ELSE last_used
      /\ UNCHANGED <<attr, free, lock, able, passed, moves>>

LEMMA Lists ==
  ASSUME TypeOK, Started, NEW t \in Threads, List(t)
  PROVE  \E d \in Devs : ListedBy(t, d)
<1> DEFINE d == Devices[th[t].i]
           r == th[t].res
           ours == Matches(r, d)
           list == IF ours THEN Append(th[t].list, d) ELSE th[t].list
           last == IF ours /\ d \in last_used[r.kind] THEN Len(th[t].list) ELSE th[t].last
           full == ours /\ Len(list) = MAXDONGLEDEVICES
           pc == IF full \/ th[t].i = Len(Devices) THEN "search" ELSE th[t].pc
           rec == [th[t] EXCEPT !.list = list, !.i = @ + 1, !.last = last, !.pc = pc]
<1>1. /\ At(t, "list") /\ lock[d] = None
      /\ Goto(t, rec)
      /\ last_used' = IF ours THEN [last_used EXCEPT ![r.kind] = @ \ {d}] ELSE last_used
      /\ UNCHANGED <<attr, free, lock, able, passed, moves>>
  BY DEF List, Unmark
<1>2. /\ ~At(t, "idle") /\ th[t] \in Searching /\ th[t].i \in 1 .. Len(Devices)
      /\ th[t].list \in Seq(Devs) /\ th[t].last \in Nat /\ th[t].pc = "list"
  BY <1>1, Fields, Places DEF Started, At
<1>3. d \in Devs /\ th[t].i + 1 \in 1 .. Len(Devices) + 1
  BY <1>2, Places
<1>4. /\ list \in Seq(Devs) /\ last \in Nat /\ Len(Append(th[t].list, d)) = Len(th[t].list) + 1
      /\ pc \in {"walk", "list", "search", "found", "none"}
  BY <1>2, <1>3
<1>5. rec = [th[t] EXCEPT !.list = list, !.i = th[t].i + 1, !.last = last, !.pc = pc]
  OBVIOUS
<1>6. pc = IF (ours /\ Len(th[t].list) + 1 = MAXDONGLEDEVICES) \/ th[t].i = Len(Devices)
           THEN "search" ELSE "list"
  BY <1>2, <1>4
<1> HIDE DEF list, last, pc, rec
<1>7. /\ rec \in Searching /\ rec.pc = pc /\ rec.res = th[t].res /\ rec.alone = th[t].alone
      /\ rec.i = th[t].i + 1 /\ rec.list = list /\ rec.last = last /\ rec.tries = th[t].tries
  BY <1>2, <1>3, <1>4, <1>5 DEF Searching
<1>8. th'[t] = rec
  BY <1>1, <1>7, Changed
<1>9. Goes(t, pc)
  BY <1>7, <1>8, Changed, <1>1 DEF Goes
<1>10. ListedBy(t, d)
  BY <1>1, <1>3, <1>6, <1>7, <1>8, <1>9 DEF ListedBy, list, last
<1> QED BY <1>3, <1>10

Searched(t, d) ==
  LET k == th[t].res.kind
  IN  /\ At(t, "search") /\ th[t].tries < Len(th[t].list) /\ d = Turn(t, th[t].tries)
      /\ d \in Devs /\ lock[d] = None
      /\ \/ /\ d \in free
            /\ TakenBy(t, d) /\ PassOver(t, d)
            /\ last_used' = [last_used EXCEPT ![k] = @ \cup {d}]
         \/ /\ d \notin free
            /\ Goes(t, "search") /\ th'[t].tries = th[t].tries + 1
            /\ th'[t].list = th[t].list /\ th'[t].last = th[t].last /\ th'[t].i = th[t].i
            /\ UNCHANGED <<lock, last_used, passed>>
      /\ UNCHANGED <<attr, free, able, moves>>

LEMMA TurnsAreDevs ==
  ASSUME TypeOK, NEW t \in Threads, ~At(t, "idle"), NEW q \in Nat, th[t].list # <<>>
  PROVE  Turn(t, q) \in Devs
<1> DEFINE list == th[t].list
<1>1. list \in Seq(Devs) /\ th[t].last \in Nat
  BY Fields
<1>2. Len(list) \in Nat /\ Len(list) # 0 /\ \A j \in 1 .. Len(list) : list[j] \in Devs
  BY <1>1
<1>3. \A N, x \in Nat : N # 0 => (x % N) + 1 \in 1 .. N
  OBVIOUS
<1>4. Start(t) + q \in Nat
  BY <1>1 DEF Start
<1>5. ((Start(t) + q) % Len(list)) + 1 \in 1 .. Len(list)
  BY <1>2, <1>3, <1>4
<1> QED BY <1>2, <1>5 DEF Turn

LEMMA Searches ==
  ASSUME TypeOK, NEW t \in Threads, Search(t)
  PROVE  \E d \in Devs : Searched(t, d)
<1> DEFINE d == Turn(t, th[t].tries)
           k == th[t].res.kind
           rec == [th[t] EXCEPT !.tries = @ + 1]
<1>1. /\ At(t, "search") /\ th[t].tries < Len(th[t].list) /\ lock[d] = None
      /\ IF d \in free
         THEN /\ Take(t, d) /\ PassOver(t, d)
              /\ last_used' = [last_used EXCEPT ![k] = @ \cup {d}]
         ELSE /\ Goto(t, rec)
              /\ UNCHANGED <<lock, last_used, passed>>
      /\ UNCHANGED <<attr, free, able, moves>>
  BY DEF Search, Turn, Tries
<1>2. /\ ~At(t, "idle") /\ th[t] \in Searching /\ th[t].list \in Seq(Devs)
      /\ th[t].tries \in Nat
  BY <1>1, Fields DEF At
<1>3. d \in Devs
  BY <1>1, <1>2, TurnsAreDevs
<1>4. CASE d \in free
  BY <1>1, <1>2, <1>3, <1>4, Takes DEF Searched
<1>5. CASE d \notin free
  <2>1. /\ rec \in Searching /\ rec.tries = th[t].tries + 1 /\ rec.pc = "search"
        /\ rec.res = th[t].res /\ rec.alone = th[t].alone
        /\ rec.list = th[t].list /\ rec.last = th[t].last /\ rec.i = th[t].i
    BY <1>1, <1>2 DEF Searching, At
  <2> HIDE DEF rec
  <2>2. Goto(t, rec)
    BY <1>1, <1>5
  <2>3. Goes(t, "search") /\ th'[t].tries = th[t].tries + 1
        /\ th'[t].list = th[t].list /\ th'[t].last = th[t].last /\ th'[t].i = th[t].i
    BY <2>1, <2>2, Changed DEF Goes
  <2>. QED BY <1>1, <1>3, <1>5, <2>3 DEF Searched
<1> QED BY <1>4, <1>5

Exhausted(t) ==
  /\ At(t, "search") /\ th[t].tries >= Len(th[t].list)
  /\ Goes(t, "none")
  /\ UNCHANGED <<attr, free, last_used, lock, able, passed, moves>>

LEMMA Exhausts ==
  ASSUME TypeOK, NEW t \in Threads, SearchedAll(t)
  PROVE  Exhausted(t)
<1> DEFINE rec == [th[t] EXCEPT !.pc = "none"]
<1>1. /\ At(t, "search") /\ th[t].tries >= Len(th[t].list) /\ Goto(t, rec)
      /\ UNCHANGED <<attr, free, last_used, lock, able, passed, moves>>
  BY DEF SearchedAll, Tries
<1>2. th[t] \in Searching
  BY <1>1, Fields DEF At
<1>3. rec \in Searching /\ rec.pc = "none" /\ rec.res = th[t].res /\ rec.alone = th[t].alone
  BY <1>2 DEF Searching
<1> HIDE DEF rec
<1> QED BY <1>1, <1>3, Changed DEF Exhausted, Goes

Stops(t) == th'[t] = Idle /\ (\A u \in Threads \ {t} : th'[u] = th[u]) /\ th' \in States

Forgotten(ds) ==
  /\ \A k \in Kinds, e \in ds, d \in Devs : passed'[k][e][d] = 0
  /\ \A k \in Kinds, e \in Devs \ ds, d \in Devs : passed'[k][e][d] = passed[k][e][d]

LEMMA Forgets ==
  ASSUME TypeOK, NEW ds, ds \subseteq Devs, Forget(ds)
  PROVE  Forgotten(ds) /\ passed' \in [Kinds -> [Devs -> [Devs -> 0 .. 2]]]
<1>1. NoPass \in [Devs -> [Devs -> 0 .. 2]] /\ \A e, d \in Devs : NoPass[e][d] = 0
  BY DEF NoPass
<1>2. \A k \in Kinds, e \in Devs :
        passed'[k][e] = IF e \in ds THEN NoPass[e] ELSE passed[k][e]
  BY DEF Forget
<1>3. passed' \in [Kinds -> [Devs -> [Devs -> 0 .. 2]]]
  BY <1>1 DEF Forget, TypeOK
<1> QED BY <1>1, <1>2, <1>3 DEF Forgotten

Requested(t, ds) ==
  /\ At(t, "found") /\ Stops(t) /\ ds \subseteq {th[t].dev} \cap Devs
  /\ lock' = [lock EXCEPT ![th[t].dev] = None]
  /\ free' = free \ ds /\ Forget(ds)
  /\ able' = [u \in Threads |-> IF u = t THEN {} ELSE able[u] \ ds]
  /\ UNCHANGED <<attr, last_used, moves>>

LEMMA Requests ==
  ASSUME TypeOK, NEW t \in Threads, channel_request(t)
  PROVE  \E ds \in SUBSET Devs : Requested(t, ds)
<1>1. At(t, "found") /\ Goto(t, Idle) /\ lock' = [lock EXCEPT ![th[t].dev] = None]
      /\ UNCHANGED <<attr, last_used, moves>>
  BY DEF channel_request
<1>2. PICK ds \in SUBSET {th[t].dev} :
         /\ free' = free \ ds /\ Forget(ds)
         /\ able' = [u \in Threads |-> IF u = t THEN {} ELSE able[u] \ ds]
  BY DEF channel_request
<1>3. th[t].dev \in Devs
  BY <1>1 DEF TypeOK
<1>4. Stops(t)
  BY <1>1, Changed DEF Stops
<1>5. Requested(t, ds) /\ ds \in SUBSET Devs
  BY <1>1, <1>2, <1>3, <1>4 DEF Requested
<1> QED BY <1>5

(* A device gets another group, provider or IMSI. *)
Moved(d, k) ==
  /\ lock[d] = None /\ moves < MaxMoves /\ moves' = moves + 1
  /\ \E v \in Values : attr' = [attr EXCEPT ![d][k] = v]
  /\ able' = [t \in Threads |-> IF ~At(t, "idle") /\ th[t].res.kind = k
                                THEN able[t] \ {d} ELSE able[t]]
  /\ passed' = [passed EXCEPT ![k] = NoPass]
  /\ th' = Disturbed(SearchesOf(k))
  /\ UNCHANGED <<free, last_used, lock>>

LEMMA MovesDo == ASSUME NEW d \in Devs, NEW k \in Kinds, Moves(d, k) PROVE Moved(d, k)
BY DEF Moves, Moved

-----------------------------------------------------------------------------
(* The types. *)

LEMMA InitTyped == Init => TypeOK
BY AttrsAssumption, NumbersAssumption DEF Init, TypeOK, NoPass, Idle, At

LEMMA GoesTyped ==
  ASSUME TypeOK, NEW t \in Threads, NEW pc, pc # "found", Goes(t, pc), lock' = lock
  PROVE  /\ th' \in [Threads -> {Idle} \cup Searching]
         /\ \A u \in Threads : At(u, "found")' => th'[u].dev \in Devs /\ lock'[th'[u].dev] = u
BY DEF TypeOK, Goes, At, States

Counts == [Devs -> [Devs -> 0 .. 2]]

LEMMA NoPasses == NoPass \in Counts /\ \A e, d \in Devs : NoPass[e][d] = 0
BY DEF NoPass, Counts

(* What is counted when t finds d. *)
PassedOver(t, d) ==
  LET r == th[t].res
      k == r.kind
  IN  /\ \A j \in Kinds \ {k} : passed'[j] = passed[j]
      /\ ~th[t].alone => passed'[k] = NoPass
      /\ th[t].alone => \A e, x \in Devs : passed'[k][e][x] =
           IF e = d THEN 0
           ELSE IF x = d /\ e \in free /\ Matches(r, e)
                THEN IF passed[k][e][x] = 2 THEN 2 ELSE passed[k][e][x] + 1
                ELSE passed[k][e][x]

LEMMA PassesOver ==
  ASSUME TypeOK, NEW t \in Threads, ~At(t, "idle"), NEW d \in Devs, PassOver(t, d)
  PROVE  PassedOver(t, d) /\ passed' \in [Kinds -> Counts]
<1> DEFINE k == th[t].res.kind
           r == th[t].res
           More(e) == CASE e = d -> NoPass[e]
                        [] e # d /\ e \in free /\ Matches(r, e)
                             -> [passed[k][e] EXCEPT ![d] = IF passed[k][e][d] = 2 THEN 2
                                                            ELSE passed[k][e][d] + 1]
                        [] OTHER -> passed[k][e]
           Alone == [e \in Devs |-> More(e)]
<1>1. k \in Kinds /\ th[t].alone \in BOOLEAN /\ passed \in [Kinds -> Counts]
  BY Fields DEF TypeOK, Counts
<1>2. passed' = [passed EXCEPT ![k] = IF th[t].alone THEN Alone ELSE NoPass]
  BY DEF PassOver
<1>3. \A e \in Devs : passed[k][e] \in [Devs -> 0 .. 2]
  BY <1>1 DEF Counts
<1>4. ASSUME NEW e \in Devs
      PROVE  /\ More(e) \in [Devs -> 0 .. 2]
             /\ \A x \in Devs : More(e)[x] =
                  IF e = d THEN 0
                  ELSE IF x = d /\ e \in free /\ Matches(r, e)
                       THEN IF passed[k][e][x] = 2 THEN 2 ELSE passed[k][e][x] + 1
                       ELSE passed[k][e][x]
  <2>1. CASE e = d
    <3>1. More(e) = NoPass[e]
      BY <2>1
    <3>. QED BY <2>1, <3>1, NoPasses DEF Counts
  <2>2. CASE e # d /\ e \in free /\ Matches(r, e)
    <3>1. More(e) = [passed[k][e] EXCEPT ![d] = IF passed[k][e][d] = 2 THEN 2
                                                  ELSE passed[k][e][d] + 1]
      BY <2>2
    <3>2. passed[k][e][d] \in 0 .. 2
      BY <1>3
    <3> HIDE DEF More
    <3>. QED BY <1>3, <2>2, <3>1, <3>2
  <2>3. CASE e # d /\ ~(e \in free /\ Matches(r, e))
    <3>1. More(e) = passed[k][e]
      BY <2>3
    <3> HIDE DEF More
    <3>. QED BY <1>3, <2>3, <3>1
  <2> HIDE DEF More
  <2>. QED BY <2>1, <2>2, <2>3
<1> HIDE DEF More
<1>5. Alone \in Counts /\ \A e \in Devs : Alone[e] = More(e)
  BY <1>4 DEF Counts
<1> HIDE DEF Alone
<1>6. passed' \in [Kinds -> Counts]
  BY <1>1, <1>2, <1>5, NoPasses
<1>7. passed'[k] = IF th[t].alone THEN Alone ELSE NoPass
  BY <1>1, <1>2
<1>8. \A j \in Kinds \ {k} : passed'[j] = passed[j]
  BY <1>1, <1>2
<1> QED BY <1>1, <1>4, <1>5, <1>6, <1>7, <1>8 DEF PassedOver

LEMMA BeginTyped ==
  ASSUME TypeOK, Started, NEW t \in Threads, Begin(t) PROVE TypeOK' /\ Started'
<1>1. PICK r \in Resources : Begun(t, r)
  BY Begins
<1>2. /\ th' \in States /\ able' \in [Threads -> SUBSET Devs]
      /\ UNCHANGED <<attr, free, last_used, lock, passed, moves>>
  BY <1>1 DEF Begun, TypeOK
<1>3. Others(r) \subseteq Threads /\ \A u \in Others(r) : ~At(u, "idle")
  BY SearchesAre DEF Others
<1>4. \A u \in Threads \ {t} : th'[u].pc = th[u].pc
                                /\ (th[u].pc # "idle" => th'[u].i = th[u].i /\ th'[u].dev = th[u].dev)
  <2> SUFFICES ASSUME NEW u \in Threads \ {t}
               PROVE  th'[u].pc = th[u].pc
                      /\ (th[u].pc # "idle" => th'[u].i = th[u].i /\ th'[u].dev = th[u].dev)
    OBVIOUS
  <2>1. th'[u] = Disturbed(Others(r))[u]
    BY <1>1 DEF Begun
  <2> DEFINE rec == Disturbed(Others(r))[u]
  <2>2. /\ u \notin Others(r) => rec = th[u]
        /\ u \in Others(r) => rec.pc = th[u].pc /\ rec.i = th[u].i /\ rec.dev = th[u].dev
    BY <1>3, DisturbedFields
  <2> HIDE DEF rec
  <2>3. u \in Others(r) => th'[u].pc = th[u].pc /\ th'[u].i = th[u].i /\ th'[u].dev = th[u].dev
    BY <2>1, <2>2 DEF rec
  <2>4. u \notin Others(r) => th'[u] = th[u]
    BY <2>1, <2>2 DEF rec
  <2>. QED BY <2>3, <2>4
<1>5. th'[t].pc = FirstPc(r) /\ th'[t].i = 1 /\ At(t, "idle")
  BY <1>1 DEF Begun
<1>6. FirstPc(r) # "found" /\ (FirstPc(r) \in {"walk", "list"} => 1 <= Len(Devices))
  <2>1. Devices # <<>> => Len(Devices) # 0
    BY DevicesAssumption
  <2>. QED BY <2>1, Places DEF FirstPc
<1>7. \A u \in Threads : At(u, "found")' => th'[u].dev \in Devs /\ lock'[th'[u].dev] = u
  BY <1>2, <1>4, <1>5, <1>6 DEF TypeOK, At
<1>8. Started'
  BY <1>4, <1>5, <1>6 DEF Started, At
<1> QED BY <1>2, <1>7, <1>8 DEF TypeOK, States

LEMMA TakenTyped ==
  ASSUME TypeOK, Started, NEW t \in Threads, NEW d \in Devs, lock[d] = None, TakenBy(t, d)
  PROVE  /\ th' \in States /\ lock' \in [Devs -> Threads \cup {None}] /\ Started'
         /\ \A u \in Threads : At(u, "found")' => th'[u].dev \in Devs /\ lock'[th'[u].dev] = u
<1>1. /\ th' \in States /\ th'[t].pc = "found" /\ th'[t].dev = d
      /\ \A u \in Threads \ {t} : th'[u] = th[u]
  BY DEF TakenBy, Goes
<1>2. lock' = [lock EXCEPT ![d] = t] /\ lock \in [Devs -> Threads \cup {None}]
  BY DEF TakenBy, TypeOK
<1>3. \A u \in Threads \ {t} : At(u, "found") => th[u].dev # d
  BY ThreadsAssumption DEF TypeOK
<1>4. Started'
  BY <1>1 DEF Started, At
<1>5. \A u \in Threads : At(u, "found")' => th'[u].dev \in Devs /\ lock'[th'[u].dev] = u
  BY <1>1, <1>2, <1>3 DEF TypeOK, At
<1> QED BY <1>1, <1>2, <1>4, <1>5

LEMMA WalkTyped ==
  ASSUME TypeOK, Started, NEW t \in Threads, Walk(t) PROVE TypeOK' /\ Started'
<1>1. PICK d \in Devs : Walked(t, d)
  BY Walks
<1>2. CASE TakenBy(t, d)
  BY <1>1, <1>2, TakenTyped DEF Walked, TypeOK, States
<1>3. CASE lock' = lock /\ th'[t].i = th[t].i + 1
           /\ Goes(t, IF th[t].i = Len(Devices) THEN "none" ELSE "walk")
  <2>1. /\ th' \in States
        /\ \A u \in Threads : At(u, "found")' => th'[u].dev \in Devs /\ lock'[th'[u].dev] = u
    BY <1>3, GoesTyped DEF States
  <2>2. At(t, "walk") /\ th[t].i \in 1 .. Len(Devices)
    BY <1>1, Fields, Places DEF Walked, At, Started
  <2>3. Started'
    BY <1>3, <2>2, Places DEF Started, Goes, At
  <2>. QED BY <1>1, <1>3, <2>1, <2>3 DEF Walked, TypeOK, States
<1> QED BY <1>1, <1>2, <1>3 DEF Walked

LEMMA ListTyped ==
  ASSUME TypeOK, Started, NEW t \in Threads, List(t) PROVE TypeOK' /\ Started'
<1>1. PICK d \in Devs : ListedBy(t, d)
  BY Lists
<1> DEFINE full == Matches(th[t].res, d) /\ Len(th[t].list) + 1 = MAXDONGLEDEVICES
           pc == IF full \/ th[t].i = Len(Devices) THEN "search" ELSE "list"
<1>2. /\ At(t, "list") /\ Goes(t, pc) /\ th'[t].i = th[t].i + 1
      /\ UNCHANGED <<attr, free, lock, able, passed, moves>>
  BY <1>1 DEF ListedBy
<1>3. last_used' \in [Kinds -> SUBSET Devs]
  <2>1. last_used \in [Kinds -> SUBSET Devs] /\ th[t].res.kind \in Kinds
    BY <1>2, Fields DEF TypeOK, At
  <2>2. \/ last_used' = last_used
        \/ last_used' = [last_used EXCEPT ![th[t].res.kind] = @ \ {d}]
    BY <1>1 DEF ListedBy
  <2>. QED BY <2>1, <2>2
<1>4. /\ th' \in States
      /\ \A u \in Threads : At(u, "found")' => th'[u].dev \in Devs /\ lock'[th'[u].dev] = u
  BY <1>2, GoesTyped DEF States
<1>5. th[t].i \in 1 .. Len(Devices)
  BY <1>2, Fields, Places DEF At, Started
<1>6. Started'
  BY <1>2, <1>5, Places DEF Started, Goes, At
<1> QED BY <1>2, <1>3, <1>4, <1>6 DEF TypeOK, States

LEMMA SearchTyped ==
  ASSUME TypeOK, Started, NEW t \in Threads, Search(t) PROVE TypeOK' /\ Started'
<1>1. PICK d \in Devs : Searched(t, d)
  BY Searches
<1>2. ~At(t, "idle") /\ th[t].res.kind \in Kinds
  BY <1>1, Fields DEF Searched, At
<1>3. CASE TakenBy(t, d) /\ PassOver(t, d)
           /\ last_used' = [last_used EXCEPT ![th[t].res.kind] = @ \cup {d}]
  <2>1. passed' \in [Kinds -> Counts]
    BY <1>2, <1>3, PassesOver
  <2>2. last_used' \in [Kinds -> SUBSET Devs]
    BY <1>2, <1>3 DEF TypeOK
  <2>. QED BY <1>1, <1>3, <2>1, <2>2, TakenTyped DEF Searched, TypeOK, States, Counts
<1>4. CASE Goes(t, "search") /\ UNCHANGED <<lock, last_used, passed>>
  <2>1. /\ th' \in States
        /\ \A u \in Threads : At(u, "found")' => th'[u].dev \in Devs /\ lock'[th'[u].dev] = u
    BY <1>4, GoesTyped DEF States
  <2>2. Started'
    BY <1>4 DEF Started, Goes, At
  <2>. QED BY <1>1, <1>4, <2>1, <2>2 DEF Searched, TypeOK, States
<1> QED BY <1>1, <1>3, <1>4 DEF Searched

LEMMA ExhaustTyped ==
  ASSUME TypeOK, Started, NEW t \in Threads, SearchedAll(t) PROVE TypeOK' /\ Started'
<1>1. Goes(t, "none") /\ UNCHANGED <<attr, free, last_used, lock, able, passed, moves>>
  BY Exhausts DEF Exhausted
<1>2. /\ th' \in States
      /\ \A u \in Threads : At(u, "found")' => th'[u].dev \in Devs /\ lock'[th'[u].dev] = u
  BY <1>1, GoesTyped DEF States
<1>3. Started'
  BY <1>1 DEF Started, Goes, At
<1> QED BY <1>1, <1>2, <1>3 DEF TypeOK, States

LEMMA RefuseStops ==
  ASSUME TypeOK, NEW t \in Threads, Refuse(t)
  PROVE  /\ At(t, "none") /\ Stops(t) /\ able' = [able EXCEPT ![t] = {}]
         /\ UNCHANGED <<attr, free, last_used, lock, passed, moves>>
BY Changed DEF Refuse, Stops

LEMMA RefuseTyped ==
  ASSUME TypeOK, Started, NEW t \in Threads, Refuse(t) PROVE TypeOK' /\ Started'
<1>1. /\ Stops(t) /\ able' = [able EXCEPT ![t] = {}]
      /\ UNCHANGED <<attr, free, last_used, lock, passed, moves>>
  BY RefuseStops
<1>2. able' \in [Threads -> SUBSET Devs]
  BY <1>1 DEF TypeOK
<1>3. Started'
  BY <1>1 DEF Started, Stops, At, Idle
<1>4. \A u \in Threads : At(u, "found")' => th'[u].dev \in Devs /\ lock'[th'[u].dev] = u
  BY <1>1 DEF Stops, At, Idle, TypeOK
<1> QED BY <1>1, <1>2, <1>3, <1>4 DEF TypeOK, States, Stops

LEMMA RequestTyped ==
  ASSUME TypeOK, Started, NEW t \in Threads, channel_request(t) PROVE TypeOK' /\ Started'
<1>1. PICK ds \in SUBSET Devs : Requested(t, ds)
  BY Requests
<1>2. /\ At(t, "found") /\ Stops(t) /\ lock' = [lock EXCEPT ![th[t].dev] = None]
      /\ free' = free \ ds /\ Forget(ds)
      /\ able' = [u \in Threads |-> IF u = t THEN {} ELSE able[u] \ ds]
      /\ UNCHANGED <<attr, last_used, moves>>
  BY <1>1 DEF Requested
<1>3. able' \in [Threads -> SUBSET Devs] /\ free' \subseteq Devs
      /\ lock' \in [Devs -> Threads \cup {None}]
  BY <1>2 DEF TypeOK
<1>4. passed' \in [Kinds -> [Devs -> [Devs -> 0 .. 2]]]
  BY <1>2, Forgets
<1>5. Started'
  BY <1>2 DEF Started, Stops, At, Idle
<1>6. \A u \in Threads : At(u, "found")' => th'[u].dev \in Devs /\ lock'[th'[u].dev] = u
  <2> SUFFICES ASSUME NEW u \in Threads, At(u, "found")'
               PROVE  th'[u].dev \in Devs /\ lock'[th'[u].dev] = u
    OBVIOUS
  <2>1. u # t
    BY <1>2 DEF Stops, At, Idle
  <2>2. th'[u] = th[u] /\ At(u, "found")
    BY <1>2, <2>1 DEF Stops, At
  <2>3. /\ th[u].dev \in Devs /\ lock[th[u].dev] = u
        /\ th[t].dev \in Devs /\ lock[th[t].dev] = t
    BY <1>2, <2>2 DEF TypeOK
  <2>. QED BY <1>2, <2>1, <2>2, <2>3 DEF TypeOK
<1> QED BY <1>2, <1>3, <1>4, <1>5, <1>6 DEF TypeOK, States, Stops

LEMMA ChangeTyped ==
  ASSUME TypeOK, Started, NEW d \in Devs, Changes(d) PROVE TypeOK' /\ Started'
<1>1. UNCHANGED <<attr, last_used, lock, th, moves>>
  BY DEF Changes
<1>2. CASE Busy({d})
  <2>1. free' \subseteq Devs /\ able' \in [Threads -> SUBSET Devs]
    BY <1>2 DEF Busy, TypeOK
  <2>2. passed' \in [Kinds -> [Devs -> [Devs -> 0 .. 2]]]
    BY <1>2, Forgets DEF Busy
  <2>. QED BY <1>1, <2>1, <2>2 DEF TypeOK, Started, At
<1>3. CASE free' = free \cup {d} /\ UNCHANGED <<able, passed>>
  BY <1>1, <1>3 DEF TypeOK, Started, At
<1> QED BY <1>2, <1>3 DEF Changes

(* Threads whose search is disturbed go on otherwise as they were. *)
LEMMA DisturbedThreads ==
  ASSUME TypeOK, NEW k, th' = Disturbed(SearchesOf(k))
  PROVE  /\ th' \in States
         /\ \A u \in Threads : th'[u].pc = th[u].pc
         /\ \A u \in Threads : ~At(u, "idle") =>
              /\ th'[u].res = th[u].res /\ th'[u].i = th[u].i /\ th'[u].list = th[u].list
              /\ th'[u].last = th[u].last /\ th'[u].tries = th[u].tries /\ th'[u].dev = th[u].dev
         /\ \A u \in Threads : u \in SearchesOf(k) => th'[u].alone = FALSE
         /\ \A u \in Threads : u \notin SearchesOf(k) => th'[u] = th[u]
<1>1. SearchesOf(k) \subseteq Threads /\ \A u \in SearchesOf(k) : ~At(u, "idle")
  BY SearchesAre
<1>2. th' = [u \in Threads |-> th'[u]]
  BY DEF Disturbed
<1>3. \A u \in Threads : th[u] \in {Idle} \cup Searching
  BY DEF TypeOK
<1>4. ASSUME NEW u \in Threads
      PROVE  /\ th'[u] \in {Idle} \cup Searching
             /\ u \notin SearchesOf(k) => th'[u] = th[u]
             /\ u \in SearchesOf(k) =>
                  /\ th'[u].pc = th[u].pc /\ th'[u].alone = FALSE
                  /\ th'[u].res = th[u].res /\ th'[u].i = th[u].i /\ th'[u].list = th[u].list
                  /\ th'[u].last = th[u].last /\ th'[u].tries = th[u].tries
                  /\ th'[u].dev = th[u].dev
  <2> DEFINE rec == Disturbed(SearchesOf(k))[u]
  <2>1. /\ th[u] = Idle => rec = Idle
        /\ th[u] \in Searching => rec \in Searching
        /\ u \notin SearchesOf(k) => rec = th[u]
        /\ u \in SearchesOf(k) =>
             /\ rec.pc = th[u].pc /\ rec.res = th[u].res /\ rec.i = th[u].i
             /\ rec.list = th[u].list /\ rec.last = th[u].last
             /\ rec.tries = th[u].tries /\ rec.dev = th[u].dev /\ rec.alone = FALSE
    BY <1>1, DisturbedFields
  <2>2. th'[u] = rec
    OBVIOUS
  <2> HIDE DEF rec
  <2>. QED BY <1>3, <2>1, <2>2
<1>5. th' \in States
  BY <1>2, <1>4 DEF States
<1> QED BY <1>4, <1>5

LEMMA MoveTyped ==
  ASSUME TypeOK, Started, NEW d \in Devs, NEW k \in Kinds, Moves(d, k)
  PROVE  TypeOK' /\ Started'
<1>1. Moved(d, k)
  BY MovesDo
<1>2. attr' \in [Devs -> [Kinds -> Values]]
  BY <1>1 DEF Moved, TypeOK
<1>3. moves' \in 0 .. MaxMoves
  BY <1>1, NumbersAssumption DEF Moved, TypeOK
<1>4. able' \in [Threads -> SUBSET Devs] /\ passed' \in [Kinds -> Counts]
  BY <1>1, NoPasses DEF Moved, TypeOK, Counts
<1>5. /\ th' \in States /\ UNCHANGED <<free, last_used, lock>>
      /\ \A u \in Threads : th'[u].pc = th[u].pc
      /\ \A u \in Threads : ~At(u, "idle") => th'[u].i = th[u].i /\ th'[u].dev = th[u].dev
  BY <1>1, DisturbedThreads DEF Moved
<1>6. Started'
  BY <1>5 DEF Started, At
<1>7. \A u \in Threads : At(u, "found")' => th'[u].dev \in Devs /\ lock'[th'[u].dev] = u
  BY <1>5 DEF TypeOK, At
<1> QED BY <1>2, <1>3, <1>4, <1>5, <1>6, <1>7 DEF TypeOK, States, Counts

(* All values of the variables have their types, and a search finds a      *)
(* device it looks at.                                                     *)
THEOREM TypeCorrect == Spec => []TypeOK
<1>1. Init => TypeOK /\ Started
  BY InitTyped DEF Init, Started, At, Idle
<1>2. TypeOK /\ Started /\ [Next]_vars => (TypeOK /\ Started)'
  <2> SUFFICES ASSUME TypeOK, Started, [Next]_vars PROVE (TypeOK /\ Started)'
    OBVIOUS
  <2>1. CASE UNCHANGED vars
    BY <2>1 DEF vars, TypeOK, Started, At
  <2>2. ASSUME NEW t \in Threads,
               Begin(t) \/ Walk(t) \/ List(t) \/ Search(t) \/ SearchedAll(t) \/ Refuse(t)
               \/ channel_request(t)
        PROVE  (TypeOK /\ Started)'
    BY <2>2, BeginTyped, WalkTyped, ListTyped, SearchTyped, ExhaustTyped, RefuseTyped,
       RequestTyped
  <2>3. ASSUME NEW d \in Devs, Changes(d) \/ \E k \in Kinds : Moves(d, k)
        PROVE  (TypeOK /\ Started)'
    BY <2>3, ChangeTyped, MoveTyped
  <2>. QED BY <2>1, <2>2, <2>3 DEF Next
<1> QED BY <1>1, <1>2, PTL DEF Spec

-----------------------------------------------------------------------------
(* A search finds what can be found.                                       *)

SameSearch(u) ==
  /\ th'[u].pc = th[u].pc
  /\ ~At(u, "idle") => /\ th'[u].res = th[u].res /\ th'[u].i = th[u].i
                       /\ th'[u].list = th[u].list /\ th'[u].last = th[u].last
                       /\ th'[u].tries = th[u].tries

LEMMA SameAts ==
  ASSUME NEW u, SameSearch(u) PROVE \A pc : At(u, pc)' <=> At(u, pc)
BY DEF SameSearch, At

LEMMA SameInOrder ==
  ASSUME NEW u \in Threads, InOrder(u), SameSearch(u) PROVE InOrder(u)'
<1>1. \A pc : At(u, pc)' <=> At(u, pc)
  BY SameAts
<1>2. Turning(u)' <=> Turning(u)
  BY <1>1 DEF Turning
<1>3. Turning(u) => ~At(u, "idle")
  BY DEF Turning, At
<1> QED BY <1>1, <1>2, <1>3 DEF InOrder, SameSearch

LEMMA SameFindable ==
  ASSUME NEW u \in Threads, FindableBy(u), SameSearch(u), able'[u] \subseteq able[u],
         ~At(u, "idle") => \A d \in able'[u] : d \in free' /\ Matches(th[u].res, d)'
  PROVE  FindableBy(u)'
<1>1. \A pc : At(u, pc)' <=> At(u, pc)
  BY SameAts
<1>2. ~At(u, "idle") => Unseen(u)' = Unseen(u) /\ Untried(u)' = Untried(u)
  BY DEF Unseen, Untried, Turn, Start, SameSearch
<1>3. ~At(u, "idle") => th'[u].list = th[u].list
  BY DEF SameSearch
<1>4. At(u, "walk") \/ At(u, "list") \/ At(u, "search") => ~At(u, "idle")
  BY DEF At
<1>6. /\ At(u, "idle")' \/ At(u, "none")' => able'[u] = {}
      /\ ~At(u, "idle")' => \A d \in able'[u] : d \in free' /\ Matches(th[u].res, d)'
  BY <1>1 DEF FindableBy
<1>5. At(u, "walk")' => able'[u] \subseteq Unseen(u)'
  BY <1>1, <1>2, <1>4 DEF FindableBy
<1>7. At(u, "list")' => able'[u] \subseteq Unseen(u)' \cup ToSet(th'[u].list)
  BY <1>1, <1>2, <1>3, <1>4 DEF FindableBy
<1>8. At(u, "search")' => able'[u] \subseteq Untried(u)'
  BY <1>1, <1>2, <1>4 DEF FindableBy
<1> QED BY <1>5, <1>6, <1>7, <1>8 DEF FindableBy

LEMMA SameThread ==
  ASSUME NEW u, th'[u] = th[u] PROVE SameSearch(u)
BY DEF SameSearch

FInv == TypeOK /\ Started /\ Findable /\ Listed

LEMMA BegunOthers ==
  ASSUME TypeOK, NEW t \in Threads, NEW r \in Resources, Begun(t, r), NEW u \in Threads \ {t}
  PROVE  /\ SameSearch(u)
         /\ u \in Others(r) => th'[u].alone = FALSE
         /\ u \notin Others(r) => th'[u] = th[u]
<1> DEFINE rec == Disturbed(Others(r))[u]
<1>1. Others(r) \subseteq Threads /\ \A v \in Others(r) : ~At(v, "idle")
  BY SearchesAre DEF Others
<1>2. /\ u \notin Others(r) => rec = th[u]
      /\ u \in Others(r) =>
           /\ rec.pc = th[u].pc /\ rec.res = th[u].res /\ rec.i = th[u].i
           /\ rec.list = th[u].list /\ rec.last = th[u].last
           /\ rec.tries = th[u].tries /\ rec.alone = FALSE
  BY <1>1, DisturbedFields
<1>3. th'[u] = rec
  BY DEF Begun
<1> HIDE DEF rec
<1> QED BY <1>2, <1>3 DEF SameSearch

LEMMA BeginFinds ==
  ASSUME FInv, NEW t \in Threads, Begin(t) PROVE Findable' /\ Listed'
<1> USE DEF FInv
<1>1. PICK r \in Resources : Begun(t, r)
  BY Begins
<1>2. \A u \in Threads \ {t} : SameSearch(u) /\ able'[u] = able[u]
  BY <1>1, BegunOthers DEF Begun, TypeOK
<1>3. UNCHANGED <<attr, free>> /\ able'[t] = {d \in free : Matches(r, d)} /\ At(t, "idle")
  BY <1>1 DEF Begun, TypeOK
<1>4. /\ th'[t].pc = FirstPc(r) /\ th'[t].res = r /\ th'[t].i = 1 /\ th'[t].list = <<>>
      /\ th'[t].last = 0 /\ th'[t].tries = 0
  BY <1>1 DEF Begun
<1>5. ASSUME NEW u \in Threads \ {t} PROVE FindableBy(u)' /\ InOrder(u)'
  <2>1. FindableBy(u) /\ InOrder(u) /\ SameSearch(u) /\ able'[u] = able[u]
    BY <1>2 DEF Findable, Listed
  <2>2. ~At(u, "idle") => \A d \in able'[u] : d \in free' /\ Matches(th[u].res, d)'
    BY <1>3, <2>1 DEF FindableBy, SameSearch, Matches
  <2>. QED BY <2>1, <2>2, SameFindable, SameInOrder
<1>6. FindableBy(t)'
  <2>1. \A d \in able'[t] : d \in free' /\ Matches(th[t].res, d)'
    BY <1>3, <1>4 DEF Matches
  <2>2. Devs = Unseen(t)'
    BY <1>4, Places DEF Unseen
  <2>3. able'[t] \subseteq Devs
    BY <1>3 DEF TypeOK
  <2>4. FirstPc(r) \in {"none", "walk", "list"} /\ (FirstPc(r) = "none" => Devs = {})
    BY DEF FirstPc, Devs, ToSet
  <2>. QED BY <1>4, <2>1, <2>2, <2>3, <2>4 DEF FindableBy, At
<1>7. InOrder(t)'
  <2>1. Turning(t)' => FirstPc(r) = "list" /\ r.turn /\ At(t, "list")'
    BY <1>4 DEF Turning, At, FirstPc
  <2>2. Len(<<>>) = 0 /\ DOMAIN <<>> = {}
    OBVIOUS
  <2>. QED BY <1>4, <2>1, <2>2 DEF InOrder
<1> QED BY <1>5, <1>6, <1>7 DEF Findable, Listed

LEMMA OthersGoOn ==
  ASSUME FInv, NEW t \in Threads, \A u \in Threads \ {t} : th'[u] = th[u],
         UNCHANGED <<attr, free, able>>
  PROVE  \A u \in Threads \ {t} : FindableBy(u)' /\ InOrder(u)'
<1> SUFFICES ASSUME NEW u \in Threads \ {t} PROVE FindableBy(u)' /\ InOrder(u)'
  OBVIOUS
<1>1. FindableBy(u) /\ InOrder(u) /\ SameSearch(u) /\ able'[u] = able[u]
  BY SameThread DEF FInv, Findable, Listed
<1>2. ~At(u, "idle") => \A d \in able'[u] : d \in free' /\ Matches(th[u].res, d)'
  BY <1>1 DEF FindableBy, SameSearch, Matches
<1> QED BY <1>1, <1>2, SameFindable, SameInOrder

(* What a search could find stays so if it goes on for the same resource. *)
LEMMA StillMatches ==
  ASSUME FInv, NEW t \in Threads, ~At(t, "idle"), th'[t].res = th[t].res,
         UNCHANGED <<attr, free, able>>
  PROVE  \A d \in able'[t] : d \in free' /\ Matches(th[t].res, d)'
BY DEF FInv, Findable, FindableBy, Matches

LEMMA FoundFinds ==
  ASSUME FInv, NEW t \in Threads, ~At(t, "idle"), Goes(t, "found"), UNCHANGED <<attr, free, able>>
  PROVE  Findable' /\ Listed'
<1>1. \A u \in Threads \ {t} : FindableBy(u)' /\ InOrder(u)'
  BY OthersGoOn DEF Goes
<1>2. th'[t].res = th[t].res /\ th'[t].pc = "found"
  BY DEF Goes
<1>3. \A d \in able'[t] : d \in free' /\ Matches(th[t].res, d)'
  BY <1>2, StillMatches
<1>4. FindableBy(t)' /\ InOrder(t)'
  BY <1>2, <1>3 DEF FindableBy, InOrder, Turning, At
<1> QED BY <1>1, <1>4 DEF Findable, Listed

LEMMA WalkFinds ==
  ASSUME FInv, NEW t \in Threads, Walk(t) PROVE Findable' /\ Listed'
<1>1. PICK d \in Devs : Walked(t, d)
  BY Walks DEF FInv
<1>2. ~At(t, "idle") /\ UNCHANGED <<attr, free, able>> /\ th[t].pc = "walk"
  BY <1>1 DEF Walked, At
<1>3. CASE TakenBy(t, d)
  BY <1>2, <1>3, FoundFinds DEF TakenBy
<1>4. CASE /\ ~(Matches(th[t].res, d) /\ d \in free)
           /\ Goes(t, IF th[t].i = Len(Devices) THEN "none" ELSE "walk")
           /\ th'[t].i = th[t].i + 1
  <2>1. \A u \in Threads \ {t} : FindableBy(u)' /\ InOrder(u)'
    BY <1>2, <1>4, OthersGoOn DEF Goes
  <2>2. /\ th'[t].res = th[t].res /\ th'[t].i = th[t].i + 1
        /\ th'[t].pc = IF th[t].i = Len(Devices) THEN "none" ELSE "walk"
    BY <1>4 DEF Goes
  <2>3. \A e \in able'[t] : e \in free' /\ Matches(th[t].res, e)'
    BY <1>2, <2>2, StillMatches
  <2>4. th[t].i \in 1 .. Len(Devices) /\ d = Devices[th[t].i]
    BY <1>1, <1>2, Fields, Places DEF FInv, Started, Walked
  <2>5. able[t] \subseteq Unseen(t) /\ d \notin able[t]
    BY <1>1, <1>4 DEF FInv, Findable, FindableBy, Walked, At
  <2>6. able'[t] \subseteq Unseen(t)'
    BY <1>2, <2>2, <2>4, <2>5, Places DEF Unseen
  <2>7. th[t].i = Len(Devices) => able'[t] = {}
    BY <1>2, <2>4, <2>5, Places DEF Unseen
  <2>8. FindableBy(t)' /\ InOrder(t)'
    BY <2>2, <2>3, <2>6, <2>7 DEF FindableBy, InOrder, Turning, At
  <2>. QED BY <2>1, <2>8 DEF Findable, Listed
<1> QED BY <1>1, <1>3, <1>4 DEF Walked

(* Every place of the list has its turn. *)
LEMMA ModOnce ==
  ASSUME NEW N \in Nat, NEW x \in Nat, x < N + N
  PROVE  x % N = IF x < N THEN x ELSE x - N
<1>1. ASSUME x < N PROVE x % N = x
  BY <1>1
<1>2. ASSUME N <= x PROVE x % N = x - N
  BY <1>2
<1> QED BY <1>1, <1>2

LEMMA TurnOf ==
  ASSUME NEW N \in Nat, NEW last \in Nat, last = 0 \/ last < N, NEW p \in 1 .. N
  PROVE  \E q \in 0 .. N - 1 : ((last + 1 + q) % N) + 1 = p
<1>1. CASE p - 1 >= last + 1
  <2> DEFINE q == p - 1 - (last + 1)
  <2>1. q \in 0 .. N - 1 /\ last + 1 + q \in Nat /\ last + 1 + q < N
        /\ last + 1 + q + 1 = p
    BY <1>1
  <2> DEFINE x == last + 1 + q
  <2> HIDE DEF q, x
  <2>2. x \in Nat /\ x < N
    BY <2>1 DEF x
  <2>3. x % N = x
    BY <2>2, ModOnce
  <2>. QED BY <2>1, <2>3 DEF x
<1>2. CASE p - 1 < last + 1
  <2> DEFINE q == (p - 1 - (last + 1)) + N
  <2>1. q \in 0 .. N - 1 /\ last + 1 + q \in Nat /\ last + 1 + q < N + N /\ last + 1 + q >= N
        /\ last + 1 + q + 1 = p + N
    BY <1>2
  <2> DEFINE x == last + 1 + q
  <2> HIDE DEF q, x
  <2>2. x \in Nat /\ N <= x /\ x < N + N /\ ~(x < N)
    BY <2>1 DEF x
  <2>3. x % N = x - N
    BY <2>2, ModOnce
  <2>4. (x - N) + 1 = p
    BY <2>1 DEF x
  <2>5. (x % N) + 1 = p
    BY <2>3, <2>4
  <2>. QED BY <2>1, <2>5 DEF x
<1> QED BY <1>1, <1>2

LEMMA ListFinds ==
  ASSUME FInv, FewEnough, NEW t \in Threads, List(t) PROVE Findable' /\ Listed'
<1>1. PICK d \in Devs : ListedBy(t, d)
  BY Lists DEF FInv
<1> DEFINE list == th[t].list
           full == Matches(th[t].res, d) /\ Len(list) + 1 = MAXDONGLEDEVICES
           ours == Matches(th[t].res, d)
<1>2. /\ ~At(t, "idle") /\ UNCHANGED <<attr, free, able>> /\ th[t].pc = "list" /\ Turning(t)
      /\ d = Devices[th[t].i]
  BY <1>1 DEF ListedBy, At, Turning
<1>3. \A u \in Threads \ {t} : FindableBy(u)' /\ InOrder(u)'
  BY <1>1, <1>2, OthersGoOn DEF ListedBy, Goes
<1>4. /\ th'[t].res = th[t].res /\ th'[t].i = th[t].i + 1 /\ th'[t].tries = th[t].tries
      /\ th'[t].pc = IF full \/ th[t].i = Len(Devices) THEN "search" ELSE "list"
      /\ th'[t].list = IF ours THEN Append(list, d) ELSE list
      /\ th'[t].last = IF ours /\ d \in last_used[th[t].res.kind] THEN Len(list) ELSE th[t].last
  BY <1>1 DEF ListedBy, Goes
<1>5. /\ th[t].i \in 1 .. Len(Devices) /\ list \in Seq(Devs) /\ th[t].last \in Nat
      /\ Place(d) = th[t].i
  BY <1>2, Fields, Places DEF FInv, Started, At
<1>6. /\ th[t].res.turn /\ th[t].tries = 0
      /\ Len(list) < th[t].i /\ (th[t].last = 0 \/ th[t].last < Len(list))
      /\ \A a \in DOMAIN list : Place(list[a]) < th[t].i
      /\ \A a, b \in DOMAIN list : a < b => Place(list[a]) < Place(list[b])
  BY <1>2 DEF FInv, Listed, InOrder, At
<1>7. full => th[t].i = Len(Devices)
  BY <1>5, <1>6, NumbersAssumption DEF FewEnough
<1>8. th'[t].list \in Seq(Devs) /\ Len(th'[t].list) = IF ours THEN Len(list) + 1 ELSE Len(list)
  BY <1>4, <1>5
<1>9. ASSUME NEW a \in DOMAIN th'[t].list
      PROVE  \/ a \in DOMAIN list /\ th'[t].list[a] = list[a]
             \/ ours /\ a = Len(list) + 1 /\ th'[t].list[a] = d
  BY <1>4, <1>5, <1>8
<1>10. InOrder(t)'
  <2>1. ASSUME NEW a \in DOMAIN th'[t].list PROVE Place(th'[t].list[a]) < th[t].i + 1
    <3>1. CASE a \in DOMAIN list /\ th'[t].list[a] = list[a]
      <4>1. list[a] \in Devs
        BY <1>5, <3>1
      <4>2. Place(list[a]) \in Nat /\ Place(list[a]) < th[t].i
        BY <1>6, <3>1, <4>1, Places
      <4>. QED BY <1>5, <3>1, <4>2
    <3>2. CASE th'[t].list[a] = d
      BY <1>5, <3>2
    <3>. QED BY <1>9, <3>1, <3>2
  <2>2. ASSUME NEW a \in DOMAIN th'[t].list, NEW b \in DOMAIN th'[t].list, a < b
        PROVE  Place(th'[t].list[a]) < Place(th'[t].list[b])
    <3>1. a \in DOMAIN list /\ th'[t].list[a] = list[a]
      BY <1>5, <1>8, <1>9, <2>2
    <3>. QED BY <1>5, <1>6, <1>9, <2>2, <3>1
  <2>3. th'[t].last = 0 \/ th'[t].last < Len(th'[t].list)
    BY <1>4, <1>5, <1>6, <1>8
  <2>4. Len(th'[t].list) < th'[t].i
    BY <1>4, <1>5, <1>6, <1>8
  <2>. QED BY <1>4, <1>6, <2>1, <2>2, <2>3, <2>4 DEF InOrder
<1>11. FindableBy(t)'
  <2>1. \A e \in able'[t] : e \in free' /\ Matches(th[t].res, e)'
    BY <1>2, <1>4, StillMatches
  <2>2. able[t] \subseteq Unseen(t) \cup ToSet(list) /\ \A e \in able[t] : Matches(th[t].res, e)
    BY <1>1 DEF FInv, Findable, FindableBy, ListedBy, At
  <2>3. ToSet(list) \subseteq ToSet(th'[t].list) /\ (ours => d \in ToSet(th'[t].list))
    <3>1. \A a \in DOMAIN list : a \in DOMAIN th'[t].list /\ th'[t].list[a] = list[a]
      BY <1>4, <1>5, <1>8
    <3>2. ours => Len(list) + 1 \in DOMAIN th'[t].list /\ th'[t].list[Len(list) + 1] = d
      BY <1>4, <1>5, <1>8
    <3>. QED BY <3>1, <3>2 DEF ToSet
  <2>4. Unseen(t) \subseteq Unseen(t)' \cup {d}
    BY <1>2, <1>4, <1>5 DEF Unseen
  <2>5. able'[t] \subseteq Unseen(t)' \cup ToSet(th'[t].list)
    BY <1>2, <2>2, <2>3, <2>4
  <2>6. CASE At(t, "search")'
    <3>1. th[t].i = Len(Devices)
      BY <1>4, <1>7, <2>6 DEF At
    <3>2. Unseen(t)' = {}
      BY <1>4, <3>1, Places DEF Unseen
    <3>3. ASSUME NEW e \in ToSet(th'[t].list) PROVE e \in Untried(t)'
      <4> DEFINE N == Len(th'[t].list)
      <4>1. PICK p \in 1 .. N : th'[t].list[p] = e
        BY <1>8, <3>3 DEF ToSet
      <4>2. N \in Nat /\ th'[t].last \in Nat /\ (th'[t].last = 0 \/ th'[t].last < N)
        BY <1>4, <1>5, <1>6, <1>8
      <4>3. PICK q \in 0 .. N - 1 : ((th'[t].last + 1 + q) % N) + 1 = p
        BY <4>1, <4>2, TurnOf
      <4>. QED BY <1>4, <1>6, <4>1, <4>3 DEF Untried, Turn, Start
    <3>. QED BY <1>4, <2>1, <2>5, <2>6, <3>2, <3>3 DEF FindableBy, At
  <2>7. CASE At(t, "list")'
    BY <2>1, <2>5, <2>7 DEF FindableBy, At
  <2>. QED BY <1>4, <2>6, <2>7 DEF At
<1> QED BY <1>3, <1>10, <1>11 DEF Findable, Listed

LEMMA SearchFinds ==
  ASSUME FInv, NEW t \in Threads, Search(t) PROVE Findable' /\ Listed'
<1>1. PICK d \in Devs : Searched(t, d)
  BY Searches DEF FInv
<1>2. ~At(t, "idle") /\ UNCHANGED <<attr, free, able>> /\ At(t, "search") /\ Turning(t)
      /\ d = Turn(t, th[t].tries)
  BY <1>1 DEF Searched, At, Turning
<1>3. CASE TakenBy(t, d)
  BY <1>2, <1>3, FoundFinds DEF TakenBy
<1>4. CASE /\ d \notin free
           /\ Goes(t, "search") /\ th'[t].tries = th[t].tries + 1
           /\ th'[t].list = th[t].list /\ th'[t].last = th[t].last /\ th'[t].i = th[t].i
  <2>1. \A u \in Threads \ {t} : FindableBy(u)' /\ InOrder(u)'
    BY <1>2, <1>4, OthersGoOn DEF Goes
  <2>2. th'[t].res = th[t].res /\ th'[t].pc = "search"
    BY <1>4 DEF Goes
  <2>3. \A e \in able'[t] : e \in free' /\ Matches(th[t].res, e)'
    BY <1>2, <2>2, StillMatches
  <2>4. th[t].tries \in Nat /\ th[t].list \in Seq(Devs)
    BY <1>2, Fields DEF FInv
  <2>5. able[t] \subseteq Untried(t) /\ d \notin able[t]
    BY <1>2, <1>4 DEF FInv, Findable, FindableBy
  <2>6. \A q : Turn(t, q)' = Turn(t, q)
    BY <1>4 DEF Turn, Start
  <2>7. ASSUME NEW e \in able[t] PROVE e \in Untried(t)'
    <3>1. PICK q \in th[t].tries .. Len(th[t].list) - 1 : e = Turn(t, q)
      BY <2>5 DEF Untried
    <3>2. q # th[t].tries
      BY <1>2, <2>5, <3>1
    <3>3. q \in th'[t].tries .. Len(th'[t].list) - 1
      BY <1>4, <2>4, <3>2
    <3>. QED BY <2>6, <3>1, <3>3 DEF Untried
  <2>8. able'[t] \subseteq Untried(t)'
    BY <1>2, <2>7
  <2>9. FindableBy(t)'
    BY <2>2, <2>3, <2>8 DEF FindableBy, At
  <2>10. InOrder(t)'
    BY <1>2, <1>4, <2>2 DEF FInv, Listed, InOrder, Turning, At
  <2>. QED BY <2>1, <2>9, <2>10 DEF Findable, Listed
<1> QED BY <1>1, <1>3, <1>4 DEF Searched

LEMMA ExhaustFinds ==
  ASSUME FInv, NEW t \in Threads, SearchedAll(t) PROVE able[t] = {} /\ Findable' /\ Listed'
<1>1. /\ At(t, "search") /\ th[t].tries >= Len(th[t].list) /\ Goes(t, "none")
      /\ UNCHANGED <<attr, free, able>>
  BY Exhausts DEF Exhausted, FInv
<1>2. ~At(t, "idle")
  BY <1>1 DEF At
<1>3. th[t].tries \in Nat /\ th[t].list \in Seq(Devs)
  BY <1>2, Fields DEF FInv
<1>4. able[t] = {}
  BY <1>1, <1>3 DEF FInv, Findable, FindableBy, Untried
<1>5. \A u \in Threads \ {t} : FindableBy(u)' /\ InOrder(u)'
  BY <1>1, OthersGoOn DEF Goes
<1>6. FindableBy(t)' /\ InOrder(t)'
  BY <1>1, <1>4 DEF FindableBy, InOrder, Turning, At, Goes
<1> QED BY <1>4, <1>5, <1>6 DEF Findable, Listed

LEMMA StopFinds ==
  ASSUME FInv, NEW t \in Threads, NEW ds, Stops(t), free' = free \ ds, attr' = attr,
         able'[t] = {}, \A u \in Threads \ {t} : able'[u] = able[u] \ ds
  PROVE  Findable' /\ Listed'
<1>1. ASSUME NEW u \in Threads \ {t} PROVE FindableBy(u)' /\ InOrder(u)'
  <2>1. FindableBy(u) /\ InOrder(u) /\ SameSearch(u) /\ able'[u] \subseteq able[u]
    BY SameThread DEF FInv, Findable, Listed, Stops
  <2>2. ~At(u, "idle") => \A d \in able'[u] : d \in free' /\ Matches(th[u].res, d)'
    BY <2>1 DEF FindableBy, SameSearch, Matches
  <2>. QED BY <2>1, <2>2, SameFindable, SameInOrder
<1>2. FindableBy(t)' /\ InOrder(t)'
  BY DEF FindableBy, InOrder, Turning, At, Stops, Idle
<1> QED BY <1>1, <1>2 DEF Findable, Listed

LEMMA RefuseFinds ==
  ASSUME FInv, NEW t \in Threads, Refuse(t) PROVE Findable' /\ Listed'
<1>1. /\ Stops(t) /\ able' = [able EXCEPT ![t] = {}] /\ UNCHANGED <<attr, free>>
  BY RefuseStops DEF FInv
<1>2. able'[t] = {} /\ \A u \in Threads \ {t} : able'[u] = able[u] \ {}
  BY <1>1 DEF FInv, TypeOK
<1> QED BY <1>1, <1>2, StopFinds

LEMMA RequestFinds ==
  ASSUME FInv, NEW t \in Threads, channel_request(t) PROVE Findable' /\ Listed'
<1>1. PICK ds \in SUBSET Devs : Requested(t, ds)
  BY Requests DEF FInv
<1> QED BY <1>1, StopFinds DEF Requested

LEMMA ChangeFinds ==
  ASSUME FInv, NEW d \in Devs, Changes(d) PROVE Findable' /\ Listed'
<1> SUFFICES ASSUME NEW u \in Threads PROVE FindableBy(u)' /\ InOrder(u)'
  BY DEF Findable, Listed
<1>1. UNCHANGED <<attr, th>>
  BY DEF Changes
<1>2. able'[u] \subseteq able[u] /\ \A e \in able'[u] : e \in free => e \in free'
  BY DEF Changes, Busy, FInv, TypeOK
<1>3. FindableBy(u) /\ InOrder(u) /\ SameSearch(u)
  BY <1>1, SameThread DEF FInv, Findable, Listed
<1>4. ~At(u, "idle") => \A e \in able'[u] : e \in free' /\ Matches(th[u].res, e)'
  BY <1>1, <1>2, <1>3 DEF FindableBy, Matches
<1> QED BY <1>2, <1>3, <1>4, SameFindable, SameInOrder

LEMMA MoveFinds ==
  ASSUME FInv, NEW d \in Devs, NEW k \in Kinds, Moves(d, k) PROVE Findable' /\ Listed'
<1> SUFFICES ASSUME NEW u \in Threads PROVE FindableBy(u)' /\ InOrder(u)'
  BY DEF Findable, Listed
<1>1. Moved(d, k) /\ free' = free
  BY MovesDo DEF Moved
<1>2. SameSearch(u)
  BY <1>1, DisturbedThreads DEF Moved, FInv, SameSearch
<1>3. able'[u] = IF ~At(u, "idle") /\ th[u].res.kind = k THEN able[u] \ {d} ELSE able[u]
  BY <1>1 DEF Moved
<1>4. \A e \in Devs, j \in Kinds : e # d \/ j # k => attr'[e][j] = attr[e][j]
  BY <1>1 DEF Moved, FInv, TypeOK
<1>5. FindableBy(u) /\ InOrder(u)
  BY DEF FInv, Findable, Listed
<1>6. ASSUME ~At(u, "idle"), NEW e \in able'[u] PROVE e \in free' /\ Matches(th[u].res, e)'
  <2>1. e \in free /\ Matches(th[u].res, e) /\ th[u].res.kind \in Kinds
    BY <1>3, <1>5, <1>6, Fields DEF FindableBy, FInv
  <2>2. e # d \/ th[u].res.kind # k
    BY <1>3, <1>6
  <2>3. e \in Devs
    BY <2>1 DEF FInv, TypeOK
  <2>4. th'[u].res = th[u].res
    BY <1>2, <1>6 DEF SameSearch
  <2>. QED BY <1>1, <1>4, <2>1, <2>2, <2>3, <2>4 DEF Matches
<1>7. able'[u] \subseteq able[u]
  BY <1>3
<1> QED BY <1>2, <1>5, <1>6, <1>7, SameFindable, SameInOrder

LEMMA InitFinds == Init => FInv
BY InitTyped DEF Init, FInv, Started, Findable, FindableBy, Listed, InOrder, Turning, At, Idle

LEMMA NextFinds == ASSUME FewEnough, FInv, [Next]_vars PROVE FInv'
<1>1. CASE UNCHANGED vars
  BY <1>1 DEF vars, FInv, TypeOK, Started, Findable, FindableBy, Listed, InOrder, Turning, At,
              Unseen, Untried, Turn, Start, Matches
<1>2. ASSUME NEW t \in Threads, Begin(t) PROVE FInv'
  BY <1>2, BeginTyped, BeginFinds DEF FInv
<1>3. ASSUME NEW t \in Threads, Walk(t) PROVE FInv'
  BY <1>3, WalkTyped, WalkFinds DEF FInv
<1>4. ASSUME NEW t \in Threads, List(t) PROVE FInv'
  BY <1>4, ListTyped, ListFinds DEF FInv
<1>5. ASSUME NEW t \in Threads, Search(t) PROVE FInv'
  BY <1>5, SearchTyped, SearchFinds DEF FInv
<1>6. ASSUME NEW t \in Threads, SearchedAll(t) PROVE FInv'
  BY <1>6, ExhaustTyped, ExhaustFinds DEF FInv
<1>7. ASSUME NEW t \in Threads, Refuse(t) PROVE FInv'
  BY <1>7, RefuseTyped, RefuseFinds DEF FInv
<1>8. ASSUME NEW t \in Threads, channel_request(t) PROVE FInv'
  BY <1>8, RequestTyped, RequestFinds DEF FInv
<1>9. ASSUME NEW d \in Devs, Changes(d) PROVE FInv'
  BY <1>9, ChangeTyped, ChangeFinds DEF FInv
<1>10. ASSUME NEW d \in Devs, NEW k \in Kinds, Moves(d, k) PROVE FInv'
  BY <1>10, MoveTyped, MoveFinds DEF FInv
<1> QED BY <1>1, <1>2, <1>3, <1>4, <1>5, <1>6, <1>7, <1>8, <1>9, <1>10 DEF Next

(* A search is given up only if no device that matches could dial all the  *)
(* time it went on, if the devices fit in the array of a search.           *)
THEOREM SearchesComplete == ASSUME FewEnough PROVE Spec => []Complete
<1>1. FInv => Complete
  BY DEF FInv, Findable, FindableBy, Complete
<1> QED BY <1>1, FewEnough, InitFinds, NextFinds, PTL DEF Spec

-----------------------------------------------------------------------------
(* A search goes in turn.                                                  *)

TInv == AloneExact /\ Waiters /\ Rounds /\ InTurn

SameTurn(u) ==
  /\ th'[u].pc = th[u].pc /\ th'[u].res = th[u].res /\ th'[u].i = th[u].i
  /\ th'[u].list = th[u].list /\ th'[u].last = th[u].last /\ th'[u].alone = th[u].alone

(* the searches in turn are the same *)
SameTurning == \A u \in Threads : (Turning(u)' <=> Turning(u)) /\ (Turning(u) => SameTurn(u))

LEMMA SameSearches ==
  ASSUME SameTurning
  PROVE  /\ \A k : SearchesOf(k)' = SearchesOf(k)
         /\ \A r : SearchesFor(r)' = SearchesFor(r)
BY DEF SameTurning, SameTurn, SearchesOf, SearchesFor, Turning

LEMMA KeepExact ==
  ASSUME NEW u \in Threads, Exact(u), SameTurn(u),
         SearchesOf(th[u].res.kind)' \subseteq SearchesOf(th[u].res.kind),
         last_used'[th[u].res.kind] = last_used[th[u].res.kind],
         \A d \in Devs : attr'[d][th[u].res.kind] = attr[d][th[u].res.kind],
         th[u].i \in 1 .. Len(Devices) + 1
  PROVE  Exact(u)'
<1> SUFFICES ASSUME Turning(u)', th'[u].alone PROVE Exact(u)'
  BY DEF Exact
<1> DEFINE r == th[u].res
<1>1. Turning(u) /\ th[u].alone /\ th'[u].res = r /\ th'[u].i = th[u].i
      /\ th'[u].list = th[u].list /\ th'[u].pc = th[u].pc
  BY DEF SameTurn, Turning, At
<1>2. SearchesOf(r.kind) = {u}
  BY <1>1 DEF Exact
<1>3. u \in SearchesOf(r.kind)'
  BY <1>1 DEF SearchesOf, Turning, At
<1>4. SearchesOf(th[u].res.kind)' = {u}
  BY <1>2, <1>3
<1>5. \A j \in 1 .. th[u].i - 1 : Devices[j] \in Devs
  BY Places
<1>6. \A j \in 1 .. th[u].i - 1 :
        /\ Matches(r, Devices[j]) <=> Devices[j] \in ToSet(th[u].list)
        /\ Matches(r, Devices[j]) => Devices[j] \notin last_used[r.kind]
  BY <1>1 DEF Exact
<1>7. \A j \in 1 .. th[u].i - 1 : Matches(th[u].res, Devices[j])' <=> Matches(r, Devices[j])
  BY <1>1, <1>5 DEF Matches
<1>8. \A j \in 1 .. th'[u].i - 1 :
        /\ Matches(th[u].res, Devices[j])' <=> Devices[j] \in ToSet(th'[u].list)
        /\ Matches(th[u].res, Devices[j])' => Devices[j] \notin last_used'[th'[u].res.kind]
  BY <1>1, <1>6, <1>7
<1>9. At(u, "search")' => th'[u].i = Len(Devices) + 1
  BY <1>1 DEF Exact, At
<1> QED BY <1>4, <1>8, <1>9 DEF Exact

LEMMA KeepRound ==
  ASSUME NEW r, InRound(r),
         \A d \in Devs : Matches(r, d)' <=> Matches(r, d),
         \A e, d \in Devs : Passed(r, e, d)' => Passed(r, e, d),
         Marked(r)' = Marked(r), SearchesFor(r)' = SearchesFor(r),
         \A t \in SearchesFor(r) : th'[t].alone =>
           /\ th[t].alone /\ th'[t].i = th[t].i /\ th'[t].list = th[t].list
           /\ th'[t].last = th[t].last
  PROVE  InRound(r)'
<1> SUFFICES ASSUME \E e, d \in Devs : Passed(r, e, d)' PROVE \E m \in 1 .. Len(Devices) : Round(r, m)'
  BY DEF InRound
<1>1. PICK m \in 1 .. Len(Devices) : Round(r, m)
  BY DEF InRound
<1>2. Devices[m] \in Devs
  BY Places
<1>3. \A t \in SearchesFor(r) : th'[t].alone => Noted(t, r, m)'
  BY <1>1 DEF Round, Noted, MarkAt
<1>4. Round(r, m)'
  BY <1>1, <1>2, <1>3 DEF Round, MarkAt
<1> QED BY <1>4

(* A step that changes no search in turn and no mark, and lets fewer wait. *)
LEMMA QuietStep ==
  ASSUME FInv, TInv, SameTurning, UNCHANGED <<attr, last_used>>,
         \A k \in Kinds, e, d \in Devs :
           passed'[k][e][d] \in {0, passed[k][e][d]} /\ (passed'[k][e][d] >= 1 => e \in free'),
         \A u \in Threads, e \in Devs : Turning(u) /\ e \in able[u] =>
           e \in able'[u] \/ \A k \in Kinds, d \in Devs : passed'[k][e][d] = 0
  PROVE  TInv'
<1>1. /\ \A k : SearchesOf(k)' = SearchesOf(k)
      /\ \A r : SearchesFor(r)' = SearchesFor(r)
  BY SameSearches
<1>2. \A u \in Threads : Turning(u) => ~At(u, "idle")
  BY DEF Turning, At
<1>3. AloneExact'
  <2> SUFFICES ASSUME NEW u \in Threads, Turning(u)' PROVE Exact(u)'
    BY DEF AloneExact, Exact
  <2>1. Turning(u) /\ SameTurn(u) /\ Exact(u)
    BY DEF SameTurning, TInv, AloneExact
  <2>2. th[u].i \in 1 .. Len(Devices) + 1
    BY <1>2, <2>1, Fields, Places DEF FInv
  <2>3. /\ last_used'[th[u].res.kind] = last_used[th[u].res.kind]
        /\ \A d \in Devs : attr'[d][th[u].res.kind] = attr[d][th[u].res.kind]
    OBVIOUS
  <2>4. th'[u].res = th[u].res
    BY <2>1 DEF SameTurn
  <2>5. SearchesOf(th[u].res.kind)' \subseteq SearchesOf(th[u].res.kind)
    BY <1>1, <2>4
  <2>. QED BY <2>1, <2>2, <2>3, <2>5, KeepExact
<1>4. \A r, d : Matches(r, d)' <=> Matches(r, d)
  BY DEF Matches
<1>5. \A k \in Kinds, e, d \in Devs :
        /\ passed[k][e][d] \in 0 .. 2
        /\ passed'[k][e][d] >= 1 => passed'[k][e][d] = passed[k][e][d]
  BY DEF FInv, TypeOK
<1>6. Waiters'
  BY <1>4, <1>5 DEF TInv, Waiters
<1>7. ASSUME NEW r \in Turns PROVE Held(r)' /\ InRound(r)'
  <2>1. r.kind \in Kinds
    BY ResourcesAssumption DEF Turns
  <2>2. \A e, d \in Devs : Passed(r, e, d)' => Passed(r, e, d)
    BY <1>4, <1>5, <2>1 DEF Passed
  <2>3. Held(r) /\ InRound(r)
    BY DEF TInv, Rounds
  <2>4. Held(r)'
    <3> SUFFICES ASSUME NEW e \in Devs, NEW d \in Devs, Passed(r, e, d)',
                        NEW u \in SearchesFor(r)
                 PROVE  e \in able'[u]
      BY <1>1 DEF Held
    <3>1. e \in able[u] /\ u \in Threads /\ Turning(u)
      BY <2>2, <2>3 DEF Held, SearchesFor
    <3>2. passed'[r.kind][e][d] # 0
      BY <1>5, <2>1 DEF Passed
    <3>. QED BY <2>1, <3>1, <3>2
  <2>5. Marked(r)' = Marked(r)
    BY <1>4 DEF Marked
  <2>6. \A t \in SearchesFor(r) : th'[t].alone =>
          /\ th[t].alone /\ th'[t].i = th[t].i /\ th'[t].list = th[t].list
          /\ th'[t].last = th[t].last
    BY DEF SearchesFor, SameTurning, SameTurn
  <2>7. InRound(r)'
    BY <1>1, <1>4, <2>2, <2>3, <2>5, <2>6, KeepRound
  <2>. QED BY <2>4, <2>7
<1>8. InTurn'
  BY <1>5 DEF TInv, InTurn
<1>9. Turns' = Turns
  BY DEF Turns
<1> QED BY <1>3, <1>6, <1>7, <1>8, <1>9 DEF TInv, Rounds

(* Only threads that are not searching in turn go on. *)
LEMMA OutOfTurn ==
  ASSUME NEW t \in Threads, ~Turning(t), ~Turning(t)', \A u \in Threads \ {t} : th'[u] = th[u]
  PROVE  SameTurning
<1> SUFFICES ASSUME NEW u \in Threads
             PROVE  (Turning(u)' <=> Turning(u)) /\ (Turning(u) => SameTurn(u))
  BY DEF SameTurning
<1>1. u # t => th'[u] = th[u]
  OBVIOUS
<1> QED BY <1>1 DEF Turning, At, SameTurn

LEMMA StillWaits ==
  ASSUME FInv, TInv, passed' = passed, free' = free
  PROVE  \A k \in Kinds, e, d \in Devs :
           passed'[k][e][d] \in {0, passed[k][e][d]} /\ (passed'[k][e][d] >= 1 => e \in free')
BY DEF TInv, Waiters

LEMMA FewerWait ==
  ASSUME FInv, TInv, NEW ds, ds \subseteq Devs, Forgotten(ds), free' = free \ ds
  PROVE  \A k \in Kinds, e, d \in Devs :
           /\ passed'[k][e][d] \in {0, passed[k][e][d]} /\ (passed'[k][e][d] >= 1 => e \in free')
           /\ e \in ds => passed'[k][e][d] = 0
<1> SUFFICES ASSUME NEW k \in Kinds, NEW e \in Devs, NEW d \in Devs
             PROVE  /\ passed'[k][e][d] \in {0, passed[k][e][d]}
                    /\ passed'[k][e][d] >= 1 => e \in free'
                    /\ e \in ds => passed'[k][e][d] = 0
  OBVIOUS
<1>1. CASE e \in ds
  <2>1. passed'[k][e][d] = 0
    BY <1>1 DEF Forgotten
  <2>. QED BY <1>1, <2>1
<1>2. CASE e \notin ds
  <2>1. passed'[k][e][d] = passed[k][e][d]
    BY <1>2 DEF Forgotten
  <2>. QED BY <1>2, <2>1 DEF TInv, Waiters
<1> QED BY <1>1, <1>2

LEMMA WalkTurns == ASSUME FInv, TInv, NEW t \in Threads, Walk(t) PROVE TInv'
<1>1. PICK d \in Devs : Walked(t, d)
  BY Walks DEF FInv
<1>2. UNCHANGED <<attr, free, last_used, able, passed>> /\ ~Turning(t)
  BY <1>1 DEF Walked, Turning, At
<1>3. ~Turning(t)' /\ \A u \in Threads \ {t} : th'[u] = th[u]
  BY <1>1 DEF Walked, TakenBy, Goes, Turning, At
<1> QED BY <1>2, <1>3, OutOfTurn, StillWaits, QuietStep

LEMMA RefuseTurns == ASSUME FInv, TInv, NEW t \in Threads, Refuse(t) PROVE TInv'
<1>1. /\ At(t, "none") /\ Stops(t) /\ able' = [able EXCEPT ![t] = {}]
      /\ UNCHANGED <<attr, free, last_used, passed>>
  BY RefuseStops DEF FInv
<1>2. ~Turning(t) /\ ~Turning(t)' /\ \A u \in Threads \ {t} : th'[u] = th[u]
  BY <1>1 DEF Turning, At, Stops, Idle
<1>3. \A u \in Threads : Turning(u) => able'[u] = able[u]
  BY <1>1, <1>2 DEF FInv, TypeOK
<1> QED BY <1>1, <1>2, <1>3, OutOfTurn, StillWaits, QuietStep

LEMMA RequestTurns == ASSUME FInv, TInv, NEW t \in Threads, channel_request(t) PROVE TInv'
<1>1. PICK ds \in SUBSET Devs : Requested(t, ds)
  BY Requests DEF FInv
<1>2. /\ At(t, "found") /\ Stops(t) /\ free' = free \ ds /\ Forget(ds)
      /\ able' = [u \in Threads |-> IF u = t THEN {} ELSE able[u] \ ds]
      /\ UNCHANGED <<attr, last_used>>
  BY <1>1 DEF Requested
<1>3. ~Turning(t) /\ ~Turning(t)' /\ \A u \in Threads \ {t} : th'[u] = th[u]
  BY <1>2 DEF Turning, At, Stops, Idle
<1>4. Forgotten(ds)
  BY <1>2, Forgets DEF FInv
<1>5. \A k \in Kinds, e, d \in Devs :
        /\ passed'[k][e][d] \in {0, passed[k][e][d]} /\ (passed'[k][e][d] >= 1 => e \in free')
        /\ e \in ds => passed'[k][e][d] = 0
  BY <1>2, <1>4, FewerWait
<1>6. \A u \in Threads, e \in Devs : Turning(u) /\ e \in able[u] =>
        e \in able'[u] \/ \A k \in Kinds, d \in Devs : passed'[k][e][d] = 0
  BY <1>2, <1>3, <1>5
<1> QED BY <1>2, <1>3, <1>5, <1>6, OutOfTurn, QuietStep

LEMMA ChangeTurns == ASSUME FInv, TInv, NEW d \in Devs, Changes(d) PROVE TInv'
<1>1. UNCHANGED <<attr, last_used, th>>
  BY DEF Changes
<1>2. SameTurning
  BY <1>1 DEF SameTurning, SameTurn, Turning, At
<1>3. CASE Busy({d})
  <2>1. Forgotten({d}) /\ free' = free \ {d} /\ able' = [t \in Threads |-> able[t] \ {d}]
    BY <1>3, Forgets DEF Busy, FInv
  <2>2. \A k \in Kinds, e, x \in Devs :
          /\ passed'[k][e][x] \in {0, passed[k][e][x]} /\ (passed'[k][e][x] >= 1 => e \in free')
          /\ e \in {d} => passed'[k][e][x] = 0
    BY <2>1, FewerWait
  <2>3. \A u \in Threads, e \in Devs : Turning(u) /\ e \in able[u] =>
          e \in able'[u] \/ \A k \in Kinds, x \in Devs : passed'[k][e][x] = 0
    BY <2>1, <2>2
  <2>. QED BY <1>1, <1>2, <2>2, <2>3, QuietStep
<1>4. CASE free' = free \cup {d} /\ UNCHANGED <<able, passed>>
  <2>1. \A k \in Kinds, e, x \in Devs :
          passed'[k][e][x] \in {0, passed[k][e][x]} /\ (passed'[k][e][x] >= 1 => e \in free')
    BY <1>4 DEF TInv, Waiters
  <2>. QED BY <1>1, <1>2, <1>4, <2>1, QuietStep
<1> QED BY <1>3, <1>4 DEF Changes

LEMMA StutterTurns == ASSUME FInv, TInv, UNCHANGED vars PROVE TInv'
<1>1. UNCHANGED <<attr, free, last_used, th, able, passed>>
  BY DEF vars
<1>2. SameTurning
  BY <1>1 DEF SameTurning, SameTurn, Turning, At
<1> QED BY <1>1, <1>2, StillWaits, QuietStep

(* The device tried cannot dial. *)
LEMMA TryTurns ==
  ASSUME FInv, TInv, NEW t \in Threads, NEW d \in Devs, Searched(t, d), d \notin free
  PROVE  TInv'
<1>1. /\ At(t, "search") /\ Goes(t, "search") /\ th'[t].list = th[t].list
      /\ th'[t].last = th[t].last /\ th'[t].i = th[t].i
      /\ UNCHANGED <<attr, free, able, last_used, passed>>
  BY DEF Searched
<1>2. SameTurning
  <2> SUFFICES ASSUME NEW u \in Threads
               PROVE  (Turning(u)' <=> Turning(u)) /\ (Turning(u) => SameTurn(u))
    BY DEF SameTurning
  <2>1. CASE u = t
    BY <1>1, <2>1 DEF Goes, Turning, At, SameTurn
  <2>2. CASE u # t
    BY <1>1, <2>2 DEF Goes, Turning, At, SameTurn
  <2>. QED BY <2>1, <2>2
<1> QED BY <1>1, <1>2, StillWaits, QuietStep

(* The other steps concern one kind of resources. *)
TurnsOf(k) == {r \in Turns : r.kind = k}
KindInv(k) ==
  /\ \A u \in SearchesOf(k) : Exact(u)
  /\ \A e, d \in Devs : passed[k][e][d] >= 1 =>
       e \in free /\ \E r \in TurnsOf(k) : Matches(r, e)
  /\ \A r \in TurnsOf(k) : Held(r) /\ InRound(r)
  /\ \A e, d \in Devs : passed[k][e][d] <= 1

LEMMA KindsHold == ASSUME TInv, NEW k \in Kinds PROVE KindInv(k)
<1>1. \A u \in SearchesOf(k) : Exact(u)
  BY DEF TInv, AloneExact, SearchesOf
<1>2. \A e, d \in Devs : passed[k][e][d] >= 1 =>
        e \in free /\ \E r \in TurnsOf(k) : Matches(r, e)
  BY DEF TInv, Waiters, TurnsOf
<1>3. \A r \in TurnsOf(k) : Held(r) /\ InRound(r)
  BY DEF TInv, Rounds, TurnsOf
<1>4. \A e, d \in Devs : passed[k][e][d] <= 1
  BY DEF TInv, InTurn
<1> QED BY <1>1, <1>2, <1>3, <1>4 DEF KindInv

KindInvs == \A k \in Kinds : KindInv(k)

LEMMA AllKinds == TypeOK /\ KindInvs => TInv
<1> SUFFICES ASSUME TypeOK, KindInvs PROVE TInv
  OBVIOUS
<1>1. AloneExact
  <2> SUFFICES ASSUME NEW u \in Threads, Turning(u) PROVE Exact(u)
    BY DEF AloneExact, Exact
  <2>1. ~At(u, "idle")
    BY DEF Turning, At
  <2>2. th[u].res.kind \in Kinds
    BY <2>1, Fields
  <2>3. u \in SearchesOf(th[u].res.kind)
    BY SearchesAre
  <2>. QED BY <2>2, <2>3 DEF KindInvs, KindInv
<1>2. Waiters
  <2> SUFFICES ASSUME NEW k \in Kinds, NEW e \in Devs, NEW d \in Devs, passed[k][e][d] >= 1
               PROVE  e \in free /\ \E r \in Turns : r.kind = k /\ Matches(r, e)
    BY DEF Waiters
  <2>. QED BY DEF KindInvs, KindInv, TurnsOf
<1>3. \A r \in Turns : r.kind \in Kinds
  BY ResourcesAssumption DEF Turns
<1>4. Rounds
  BY <1>3 DEF KindInvs, KindInv, TurnsOf, Rounds
<1>5. InTurn
  BY DEF KindInvs, KindInv, InTurn
<1> QED BY <1>1, <1>2, <1>4, <1>5 DEF TInv

LEMMA NextKinds == ASSUME TypeOK', \A k \in Kinds : KindInv(k)' PROVE TInv'
<1>1. KindInvs'
  BY DEF KindInvs
<1> QED BY <1>1, AllKinds, PTL

LEMMA TurnKinds ==
  ASSUME NEW k, NEW r \in TurnsOf(k)
  PROVE  /\ r \in Resources /\ r.turn /\ r.kind = k
         /\ SearchesFor(r) \subseteq SearchesOf(k)
         /\ SearchesFor(r)' \subseteq SearchesOf(k)'
         /\ TurnsOf(k)' = TurnsOf(k)
BY DEF TurnsOf, Turns, SearchesFor, SearchesOf, Turning

KindSame(k) ==
  /\ last_used'[k] = last_used[k] /\ passed'[k] = passed[k]
  /\ \A e \in Devs : attr'[e][k] = attr[e][k]
  /\ SearchesOf(k)' = SearchesOf(k)
  /\ \A u \in SearchesOf(k) : SameTurn(u) /\ able'[u] = able[u]

LEMMA OtherKind ==
  ASSUME TypeOK, free' = free, NEW k \in Kinds, KindInv(k), KindSame(k)
  PROVE  KindInv(k)'
<1>1. \A u \in SearchesOf(k) : u \in Threads /\ ~At(u, "idle") /\ Turning(u) /\ th[u].res.kind = k
  BY SearchesAre
<1>2. \A r, d : r.kind = k /\ d \in Devs => (Matches(r, d)' <=> Matches(r, d))
  BY DEF Matches, KindSame
<1>3. ASSUME NEW u \in SearchesOf(k)' PROVE Exact(u)'
  <2>1. u \in SearchesOf(k) /\ SameTurn(u) /\ Exact(u)
    BY <1>3 DEF KindSame, KindInv
  <2>2. u \in Threads /\ th[u].i \in 1 .. Len(Devices) + 1 /\ th[u].res.kind = k
    BY <1>1, <2>1, Fields
  <2>3. th'[u].res = th[u].res
    BY <2>1 DEF SameTurn
  <2>4. /\ last_used'[th[u].res.kind] = last_used[th[u].res.kind]
        /\ \A d \in Devs : attr'[d][th[u].res.kind] = attr[d][th[u].res.kind]
        /\ SearchesOf(th[u].res.kind)' \subseteq SearchesOf(th[u].res.kind)
    BY <2>2, <2>3 DEF KindSame
  <2>. QED BY <2>1, <2>2, <2>4, KeepExact
<1>4. \A e, d \in Devs : passed'[k][e][d] >= 1 =>
        e \in free' /\ \E r \in TurnsOf(k)' : Matches(r, e)'
  <2> SUFFICES ASSUME NEW e \in Devs, NEW d \in Devs, passed'[k][e][d] >= 1
               PROVE  e \in free' /\ \E r \in TurnsOf(k)' : Matches(r, e)'
    OBVIOUS
  <2>1. e \in free /\ \E r \in TurnsOf(k) : Matches(r, e)
    BY DEF KindSame, KindInv
  <2>. QED BY <1>2, <2>1, TurnKinds
<1>5. ASSUME NEW r \in TurnsOf(k) PROVE Held(r)' /\ InRound(r)'
  <2>1. r.kind = k /\ SearchesFor(r) \subseteq SearchesOf(k) /\ Held(r) /\ InRound(r)
    BY <1>5, TurnKinds DEF KindInv
  <2>2. \A u \in SearchesFor(r) : SameTurn(u) /\ able'[u] = able[u]
    BY <2>1 DEF KindSame
  <2>3. SearchesFor(r)' = SearchesFor(r)
    BY <1>1, <2>1 DEF SearchesFor, KindSame, SameTurn, SearchesOf, Turning, At
  <2>4. \A e, d \in Devs : Passed(r, e, d)' <=> Passed(r, e, d)
    BY <1>2, <2>1 DEF Passed, KindSame
  <2>5. Marked(r)' = Marked(r)
    BY <1>2, <2>1 DEF Marked, KindSame
  <2>6. Held(r)'
    BY <2>1, <2>2, <2>3, <2>4 DEF Held
  <2>7. \A t \in SearchesFor(r) : th'[t].alone =>
          /\ th[t].alone /\ th'[t].i = th[t].i /\ th'[t].list = th[t].list
          /\ th'[t].last = th[t].last
    BY <2>2 DEF SameTurn
  <2>8. InRound(r)'
    BY <1>2, <2>1, <2>3, <2>4, <2>5, <2>7, KeepRound
  <2>. QED BY <2>6, <2>8
<1>6. \A e, d \in Devs : passed'[k][e][d] <= 1
  BY DEF KindSame, KindInv
<1>7. \A r \in TurnsOf(k)' : Held(r)' /\ InRound(r)'
  BY <1>5, TurnKinds DEF TurnsOf, Turns
<1> QED BY <1>3, <1>4, <1>6, <1>7 DEF KindInv

(* Nobody waits, and no search is alone. *)
LEMMA NobodyWaits ==
  ASSUME NEW k \in Kinds,
         \A u \in SearchesOf(k)' : th'[u].alone = FALSE,
         \A e, d \in Devs : passed'[k][e][d] = 0
  PROVE  KindInv(k)'
<1>1. \A r \in TurnsOf(k)', e, d \in Devs : ~Passed(r, e, d)'
  BY DEF Passed, TurnsOf
<1>2. \A u \in SearchesOf(k)' : Exact(u)'
  BY DEF Exact
<1>3. \A r \in TurnsOf(k)' : Held(r)' /\ InRound(r)'
  BY <1>1 DEF Held, InRound
<1>4. \A e, d \in Devs : ~(passed'[k][e][d] >= 1) /\ passed'[k][e][d] <= 1
  OBVIOUS
<1> QED BY <1>2, <1>3, <1>4 DEF KindInv

(* A step that leaves the other kinds alone. *)
OnlyKind(k) ==
  /\ free' = free
  /\ \A j \in Kinds \ {k} :
       /\ last_used'[j] = last_used[j] /\ passed'[j] = passed[j]
       /\ \A e \in Devs : attr'[e][j] = attr[e][j]
  /\ \A u \in Threads :
       \/ th'[u] = th[u] /\ able'[u] = able[u]
       \/ (Turning(u) => th[u].res.kind = k) /\ (Turning(u)' => th'[u].res.kind = k)

LEMMA OneKind ==
  ASSUME FInv, TInv, TypeOK', NEW k \in Kinds, OnlyKind(k), KindInv(k)'
  PROVE  TInv'
<1> SUFFICES ASSUME NEW j \in Kinds \ {k} PROVE KindInv(j)'
  BY NextKinds
<1>1. \A u \in Threads : u \in SearchesOf(j)' <=> u \in SearchesOf(j)
  BY DEF OnlyKind, SearchesOf, Turning, At
<1>2. SearchesOf(j)' = SearchesOf(j)
  BY <1>1 DEF SearchesOf
<1>3. ASSUME NEW u \in SearchesOf(j) PROVE SameTurn(u) /\ able'[u] = able[u]
  <2>1. th'[u] = th[u] /\ able'[u] = able[u]
    BY <1>3 DEF OnlyKind, SearchesOf, Turning, At
  <2>. QED BY <2>1 DEF SameTurn
<1>4. KindSame(j)
  BY <1>2, <1>3 DEF KindSame, OnlyKind
<1>5. TypeOK /\ free' = free /\ KindInv(j)
  BY KindsHold DEF FInv, OnlyKind
<1> QED BY <1>4, <1>5, OtherKind

LEMMA MoveTurns ==
  ASSUME FInv, FInv', TInv, NEW d \in Devs, NEW k \in Kinds, Moves(d, k) PROVE TInv'
<1>1. /\ Moved(d, k) /\ free' = free /\ last_used' = last_used
      /\ passed' = [passed EXCEPT ![k] = NoPass]
      /\ able' = [t \in Threads |-> IF ~At(t, "idle") /\ th[t].res.kind = k
                                    THEN able[t] \ {d} ELSE able[t]]
  BY MovesDo DEF Moved
<1>2. /\ \A u \in Threads : th'[u].pc = th[u].pc
      /\ \A u \in Threads : ~At(u, "idle") => th'[u].res = th[u].res
      /\ \A u \in Threads : u \in SearchesOf(k) => th'[u].alone = FALSE
      /\ \A u \in Threads : u \notin SearchesOf(k) => th'[u] = th[u]
  BY <1>1, DisturbedThreads DEF Moved, FInv
<1>3. \A u \in Threads : (Turning(u)' <=> Turning(u)) /\ (Turning(u) => ~At(u, "idle"))
  BY <1>2 DEF Turning, At
<1>4. \A u \in SearchesOf(k)' : th'[u].alone = FALSE
  BY <1>2, <1>3 DEF SearchesOf, Turning
<1>5. \A e, x \in Devs : passed'[k][e][x] = 0
  BY <1>1, NoPasses DEF FInv, TypeOK
<1>6. \A e \in Devs, j \in Kinds \ {k} : attr'[e][j] = attr[e][j]
  BY <1>1 DEF Moved, FInv, TypeOK
<1>7. \A u \in Threads :
        \/ th'[u] = th[u] /\ able'[u] = able[u]
        \/ (Turning(u) => th[u].res.kind = k) /\ (Turning(u)' => th'[u].res.kind = k)
  <2> SUFFICES ASSUME NEW u \in Threads
               PROVE \/ th'[u] = th[u] /\ able'[u] = able[u]
                     \/ (Turning(u) => th[u].res.kind = k) /\ (Turning(u)' => th'[u].res.kind = k)
    OBVIOUS
  <2>1. CASE ~At(u, "idle") /\ th[u].res.kind = k
    BY <1>2, <2>1
  <2>2. CASE ~(~At(u, "idle") /\ th[u].res.kind = k)
    <3>1. u \notin SearchesOf(k)
      BY <2>2, SearchesAre DEF FInv
    <3>. QED BY <1>1, <1>2, <2>2, <3>1
  <2>. QED BY <2>1, <2>2
<1>8. \A j \in Kinds \ {k} : last_used'[j] = last_used[j] /\ passed'[j] = passed[j]
  BY <1>1 DEF FInv, TypeOK
<1>9. OnlyKind(k)
  BY <1>1, <1>6, <1>7, <1>8 DEF OnlyKind
<1>10. KindInv(k)'
  BY <1>4, <1>5, NobodyWaits
<1> QED BY <1>9, <1>10, OneKind DEF FInv

LEMMA ExhaustTurns ==
  ASSUME FInv, FInv', TInv, NEW t \in Threads, SearchedAll(t),
         NEW k \in Kinds, k = th[t].res.kind
  PROVE  TInv'
<1>1. /\ At(t, "search") /\ Goes(t, "none")
      /\ UNCHANGED <<attr, free, last_used, able, passed>>
  BY Exhausts DEF Exhausted, FInv
<1>2. able[t] = {}
  BY ExhaustFinds
<1>3. ~At(t, "idle") /\ Turning(t) /\ ~Turning(t)' /\ \A u \in Threads \ {t} : th'[u] = th[u]
  BY <1>1 DEF Turning, At, Goes
<1>5. OnlyKind(k)
  BY <1>1, <1>3 DEF OnlyKind
<1>6. \A j : SearchesOf(j)' \subseteq SearchesOf(j)
  BY <1>3 DEF SearchesOf, Turning, At
<1>7. KindInv(k)
  BY KindsHold
<1>8. \A r, e : Matches(r, e)' <=> Matches(r, e)
  BY <1>1 DEF Matches
<1>9. ASSUME NEW u \in SearchesOf(k)' PROVE Exact(u)'
  <2>1. u \in SearchesOf(k) /\ u \in Threads /\ u # t
    BY <1>3, <1>6, <1>9 DEF SearchesOf, Turning, At
  <2>2. Exact(u) /\ SameTurn(u)
    BY <1>3, <1>7, <2>1 DEF KindInv, SameTurn
  <2>3. th[u].i \in 1 .. Len(Devices) + 1 /\ th'[u].res = th[u].res
    BY <1>3, <2>1, SearchesAre, Fields DEF FInv
  <2>4. /\ SearchesOf(th[u].res.kind)' \subseteq SearchesOf(th[u].res.kind)
        /\ last_used'[th[u].res.kind] = last_used[th[u].res.kind]
        /\ \A e \in Devs : attr'[e][th[u].res.kind] = attr[e][th[u].res.kind]
    BY <1>1, <1>6, <2>3
  <2>. QED BY <2>1, <2>2, <2>3, <2>4, KeepExact
<1>10. \A e, d \in Devs : passed'[k][e][d] >= 1 =>
         e \in free' /\ \E r \in TurnsOf(k)' : Matches(r, e)'
  BY <1>1, <1>7, <1>8 DEF KindInv, TurnsOf, Turns
<1>11. ASSUME NEW r \in TurnsOf(k) PROVE Held(r)' /\ InRound(r)'
  <2>1. Held(r) /\ InRound(r)
    BY <1>7 DEF KindInv
  <2>2. \A e, d \in Devs : Passed(r, e, d)' <=> Passed(r, e, d)
    BY <1>1, <1>8 DEF Passed
  <2>3. CASE th[t].res = r
    <3>1. t \in SearchesFor(r)
      BY <1>3, <2>3 DEF SearchesFor
    <3>2. \A e, d \in Devs : ~Passed(r, e, d)
      BY <1>2, <2>1, <3>1 DEF Held
    <3>. QED BY <2>2, <3>2 DEF Held, InRound
  <2>4. CASE th[t].res # r
    <3>1. SearchesFor(r)' = SearchesFor(r) /\ \A u \in SearchesFor(r) : th'[u] = th[u]
      BY <1>3, <2>4 DEF SearchesFor, Turning, At
    <3>2. Held(r)'
      BY <1>1, <2>1, <2>2, <3>1 DEF Held
    <3>3. Marked(r)' = Marked(r)
      BY <1>1, <1>8 DEF Marked
    <3>4. InRound(r)'
      BY <1>8, <2>1, <2>2, <3>1, <3>3, KeepRound
    <3>. QED BY <3>2, <3>4
  <2>. QED BY <2>3, <2>4
<1>12. \A r \in TurnsOf(k)' : Held(r)' /\ InRound(r)'
  BY <1>11, TurnKinds DEF TurnsOf, Turns
<1>13. \A e, d \in Devs : passed'[k][e][d] <= 1
  BY <1>1, <1>7 DEF KindInv
<1> QED BY <1>5, <1>9, <1>10, <1>12, <1>13, OneKind DEF KindInv, FInv

(* A search begins: it can find all who wait, and if it is alone the mark   *)
(* is still on.                                                            *)
LEMMA BeginInTurn ==
  ASSUME FInv, FInv', TInv, NEW t \in Threads, NEW r0 \in Resources, Begun(t, r0), r0.turn,
         NEW k \in Kinds, k = r0.kind, Devices # <<>>
  PROVE  KindInv(k)'
<1>1. /\ At(t, "idle") /\ th'[t].pc = "list" /\ th'[t].res = r0 /\ th'[t].i = 1
      /\ th'[t].last = 0 /\ th'[t].alone = (SearchesOf(k) = {})
      /\ able' = [able EXCEPT ![t] = {d \in free : Matches(r0, d)}]
      /\ UNCHANGED <<attr, free, last_used, passed>>
  BY DEF Begun, Others, FirstPc
<1>2. /\ able'[t] = {d \in free : Matches(r0, d)}
      /\ \A u \in Threads \ {t} : able'[u] = able[u]
  BY <1>1 DEF FInv, TypeOK
<1>3. \A u \in Threads \ {t} :
        /\ SameSearch(u) /\ (u \in SearchesOf(k) => th'[u].alone = FALSE)
        /\ u \notin SearchesOf(k) => th'[u] = th[u]
  BY BegunOthers DEF FInv, Others
<1>4. Turning(t)' /\ ~Turning(t) /\ (\A u \in Threads \ {t} : Turning(u)' <=> Turning(u))
      /\ \A u \in Threads : Turning(u) => ~At(u, "idle")
  BY <1>1, <1>3 DEF Turning, At, SameSearch
<1>5. SearchesOf(k)' = SearchesOf(k) \cup {t}
  BY <1>1, <1>3, <1>4 DEF SearchesOf, Turning, SameSearch
<1>6. \A r : SearchesFor(r)' = IF r = r0 THEN SearchesFor(r) \cup {t} ELSE SearchesFor(r)
  BY <1>1, <1>3, <1>4 DEF SearchesFor, SameSearch
<1>7. KindInv(k)
  BY KindsHold
<1>8. \A r, e : Matches(r, e)' <=> Matches(r, e)
  BY <1>1 DEF Matches
<1>9. ASSUME NEW u \in SearchesOf(k)' PROVE Exact(u)'
  <2>1. CASE u # t
    <3>1. th'[u].alone = FALSE
      BY <1>3, <1>5, <1>9, <2>1 DEF SearchesOf
    <3>. QED BY <3>1 DEF Exact
  <2>2. CASE u = t
    <3>1. th'[t].alone => SearchesOf(th[t].res.kind)' = {t}
      BY <1>1, <1>5
    <3>2. \A j \in 1 .. th'[t].i - 1 : FALSE
      BY <1>1
    <3>. QED BY <1>1, <2>2, <3>1, <3>2 DEF Exact, At
  <2>. QED BY <2>1, <2>2
<1>10. \A e, d \in Devs : passed'[k][e][d] >= 1 =>
         e \in free' /\ \E r \in TurnsOf(k)' : Matches(r, e)'
  BY <1>1, <1>7, <1>8 DEF KindInv, TurnsOf, Turns
<1>11. ASSUME NEW r \in TurnsOf(k) PROVE Held(r)' /\ InRound(r)'
  <2>1. Held(r) /\ InRound(r) /\ r.kind = k /\ SearchesFor(r) \subseteq SearchesOf(k)
    BY <1>7, <1>11, TurnKinds DEF KindInv
  <2>2. \A e, d \in Devs : Passed(r, e, d)' <=> Passed(r, e, d)
    BY <1>1, <1>8 DEF Passed
  <2>3. Held(r)'
    <3> SUFFICES ASSUME NEW e \in Devs, NEW d \in Devs, Passed(r, e, d)', NEW u \in SearchesFor(r)'
                 PROVE  e \in able'[u]
      BY DEF Held
    <3>1. CASE u = t
      <4>1. r = r0
        BY <1>1, <3>1 DEF SearchesFor
      <4>2. e \in free /\ Matches(r0, e)
        BY <1>7, <2>1, <2>2, <4>1 DEF KindInv, Passed
      <4>. QED BY <1>2, <3>1, <4>2
    <3>2. CASE u # t
      <4>1. u \in SearchesFor(r) /\ u \in Threads
        BY <1>6, <3>2 DEF SearchesFor
      <4>. QED BY <1>2, <2>1, <2>2, <3>2, <4>1 DEF Held
    <3>. QED BY <3>1, <3>2
  <2>4. Marked(r)' = Marked(r)
    BY <1>1, <1>8 DEF Marked
  <2>5. \A u \in SearchesFor(r) : u # t /\ u \in Threads /\ th'[u].alone = FALSE
    BY <1>3, <1>4, <2>1 DEF SearchesFor
  <2>6. CASE r # r0
    <3>1. SearchesFor(r)' = SearchesFor(r)
      BY <1>6, <2>6
    <3>2. InRound(r)'
      BY <1>8, <2>1, <2>2, <2>4, <2>5, <3>1, KeepRound
    <3>. QED BY <2>3, <3>2
  <2>7. CASE r = r0
    <3> SUFFICES ASSUME \E e, d \in Devs : Passed(r, e, d)'
                 PROVE  \E m \in 1 .. Len(Devices) : Round(r, m)'
      BY <2>3 DEF InRound
    <3>1. PICK m \in 1 .. Len(Devices) : Round(r, m)
      BY <2>1, <2>2 DEF InRound
    <3>2. ASSUME NEW u \in SearchesFor(r)', th'[u].alone PROVE Noted(u, r, m)'
      <4>1. u = t
        BY <1>6, <2>5, <3>2
      <4>2. SearchesOf(k) = {}
        BY <1>1, <3>2, <4>1
      <4>3. MarkAt(r, m)
        BY <2>1, <3>1, <4>2 DEF Round
      <4>4. MarkAt(r, m)' /\ m >= th'[t].i
        BY <1>1, <2>4, <4>3 DEF MarkAt
      <4>. QED BY <1>1, <4>1, <4>4 DEF Noted
    <3>3. SearchesFor(r)' # {}
      BY <1>6, <2>7
    <3>4. Round(r, m)'
      BY <1>8, <2>2, <3>1, <3>2, <3>3 DEF Round
    <3>. QED BY <3>4
  <2>. QED BY <2>3, <2>6, <2>7
<1>12. \A r \in TurnsOf(k)' : Held(r)' /\ InRound(r)'
  BY <1>11, TurnKinds DEF TurnsOf, Turns
<1>13. \A e, d \in Devs : passed'[k][e][d] <= 1
  BY <1>1, <1>7 DEF KindInv
<1> QED BY <1>9, <1>10, <1>12, <1>13 DEF KindInv

LEMMA BeginTurns ==
  ASSUME FInv, FInv', TInv, NEW t \in Threads, Begin(t) PROVE TInv'
<1>1. PICK r0 \in Resources : Begun(t, r0)
  BY Begins DEF FInv
<1>2. /\ At(t, "idle") /\ ~Turning(t) /\ UNCHANGED <<attr, free, last_used, passed>>
      /\ th'[t].res = r0 /\ th'[t].pc = FirstPc(r0)
  BY <1>1 DEF Begun, Turning, At
<1>3. \A u \in Threads \ {t} :
        /\ SameSearch(u) /\ able'[u] = able[u]
        /\ u \in Others(r0) => th'[u].alone = FALSE
        /\ u \notin Others(r0) => th'[u] = th[u]
  <2>1. \A u \in Threads \ {t} : able'[u] = able[u]
    BY <1>1 DEF FInv, TypeOK, Begun
  <2>. QED BY <1>1, <2>1, BegunOthers DEF FInv
<1>4. CASE ~r0.turn
  <2>1. ~Turning(t)' /\ \A u \in Threads \ {t} : th'[u] = th[u]
    BY <1>2, <1>3, <1>4 DEF Others, FirstPc, Turning, At
  <2>2. \A u \in Threads, e \in Devs : Turning(u) /\ e \in able[u] => e \in able'[u]
    BY <1>2, <1>3
  <2>. QED BY <1>2, <2>1, <2>2, OutOfTurn, StillWaits, QuietStep
<1>5. CASE r0.turn
  <2>1. PICK k \in Kinds : k = r0.kind
    BY ResourcesAssumption
  <2>2. Others(r0) = SearchesOf(k)
    BY <1>5, <2>1 DEF Others
  <2>3. \A u \in SearchesOf(k) : ~At(u, "idle") /\ u \in Threads /\ th[u].res.kind = k
    BY SearchesAre DEF FInv
  <2>4. OnlyKind(k)
    <3> SUFFICES ASSUME NEW u \in Threads
                 PROVE \/ th'[u] = th[u] /\ able'[u] = able[u]
                       \/ (Turning(u) => th[u].res.kind = k) /\ (Turning(u)' => th'[u].res.kind = k)
      BY <1>2 DEF OnlyKind
    <3>. QED BY <1>2, <1>3, <2>1, <2>2, <2>3 DEF SameSearch
  <2>5. CASE Devices = <<>>
    <3>1. Devs = {}
      BY <2>5 DEF Devs, ToSet
    <3>2. \A u \in SearchesOf(k)' : u # t /\ u \in Others(r0)
      <4>1. ~Turning(t)'
        BY <1>2, <2>5 DEF FirstPc, Turning, At
      <4>2. SearchesOf(k)' \subseteq Threads \ {t}
        BY <4>1 DEF SearchesOf, Turning
      <4>. QED BY <1>3, <2>2, <4>2 DEF SearchesOf, SameSearch, At
    <3>3. \A u \in SearchesOf(k)' : th'[u].alone = FALSE
      BY <1>3, <2>2, <2>3, <3>2
    <3>4. KindInv(k)'
      BY <3>1, <3>3, NobodyWaits
    <3>. QED BY <2>4, <3>4, OneKind DEF FInv
  <2>6. CASE Devices # <<>>
    BY <1>1, <1>5, <2>1, <2>4, <2>6, BeginInTurn, OneKind DEF FInv
  <2>. QED BY <2>5, <2>6
<1>6. r0.turn \in BOOLEAN
  BY ResourcesAssumption
<1> QED BY <1>4, <1>5

(* What matches one resource in turn matches no other one of its kind. *)
LEMMA Apart ==
  ASSUME TurnsApart, NEW k, NEW r \in TurnsOf(k), NEW s \in TurnsOf(k), r # s,
         NEW d, Matches(r, d)
  PROVE  ~Matches(s, d)
<1>1. /\ r \in Resources /\ r.turn /\ r.kind = k
      /\ s \in Resources /\ s.turn /\ s.kind = k
  BY TurnKinds
<1>2. r \in [kind : Kinds, values : SUBSET Values, turn : BOOLEAN]
      /\ s \in [kind : Kinds, values : SUBSET Values, turn : BOOLEAN]
  BY <1>1, ResourcesAssumption
<1>3. r.values # s.values
  BY <1>1, <1>2
<1>4. r.values \cap s.values = {}
  BY <1>1, <1>3 DEF TurnsApart
<1> QED BY <1>1, <1>4 DEF Matches

(* A device is listed: a mark that is taken off is noted. *)
LEMMA ListInTurn ==
  ASSUME FInv, FewEnough, TurnsApart, TInv, NEW t \in Threads, NEW d \in Devs, ListedBy(t, d),
         NEW r0 \in Resources, r0 = th[t].res, NEW k \in Kinds, k = r0.kind
  PROVE  KindInv(k)'
<1> DEFINE list == th[t].list
           ours == Matches(r0, d)
           full == ours /\ Len(list) + 1 = MAXDONGLEDEVICES
<1>1. /\ At(t, "list") /\ d = Devices[th[t].i]
      /\ Goes(t, IF full \/ th[t].i = Len(Devices) THEN "search" ELSE "list")
      /\ th'[t].res = r0 /\ th'[t].alone = th[t].alone
      /\ th'[t].i = th[t].i + 1
      /\ th'[t].list = IF ours THEN Append(list, d) ELSE list
      /\ th'[t].last = IF ours /\ d \in last_used[k] THEN Len(list) ELSE th[t].last
      /\ last_used' = IF ours THEN [last_used EXCEPT ![k] = @ \ {d}] ELSE last_used
      /\ UNCHANGED <<attr, free, able, passed>>
  BY DEF ListedBy, Goes
<1>2. /\ ~At(t, "idle") /\ Turning(t) /\ Turning(t)' /\ t \in SearchesOf(k)
      /\ \A u \in Threads \ {t} : th'[u] = th[u]
  BY <1>1 DEF Goes, Turning, At, SearchesOf
<1>3. /\ th[t].i \in 1 .. Len(Devices) /\ list \in Seq(Devs) /\ th[t].last \in Nat
      /\ Place(d) = th[t].i /\ th[t].alone \in BOOLEAN
  BY <1>1, <1>2, Fields, Places DEF FInv, Started
<1>4. /\ r0.turn /\ Len(list) < th[t].i /\ (th[t].last = 0 \/ th[t].last < Len(list))
      /\ \A a \in DOMAIN list : Place(list[a]) < th[t].i
  BY <1>2 DEF FInv, Listed, InOrder
<1>5. /\ th'[t].list \in Seq(Devs)
      /\ Len(th'[t].list) = IF ours THEN Len(list) + 1 ELSE Len(list)
      /\ \A a \in 1 .. Len(list) : th'[t].list[a] = list[a]
      /\ ours => th'[t].list[Len(list) + 1] = d
      /\ ToSet(th'[t].list) = IF ours THEN ToSet(list) \cup {d} ELSE ToSet(list)
  <2>1. CASE ours
    <3> DEFINE new == Append(list, d)
    <3>1. /\ new \in Seq(Devs) /\ Len(new) = Len(list) + 1 /\ new[Len(list) + 1] = d
          /\ \A a \in 1 .. Len(list) : new[a] = list[a]
          /\ DOMAIN new = 1 .. Len(list) + 1 /\ DOMAIN list = 1 .. Len(list)
          /\ Len(list) \in Nat
      BY <1>3
    <3> HIDE DEF new
    <3>2. ToSet(new) = ToSet(list) \cup {d}
      BY <3>1 DEF ToSet
    <3>3. th'[t].list = new
      BY <1>1, <2>1 DEF new
    <3>. QED BY <2>1, <3>1, <3>2, <3>3
  <2>2. CASE ~ours
    BY <1>1, <1>3, <2>2
  <2>. QED BY <2>1, <2>2
<1>6. last_used'[k] = IF ours THEN last_used[k] \ {d} ELSE last_used[k]
  BY <1>1 DEF FInv, TypeOK
<1>7. /\ SearchesOf(k)' = SearchesOf(k)
      /\ \A r : SearchesFor(r)' = SearchesFor(r)
  BY <1>1, <1>2 DEF SearchesOf, SearchesFor, Turning, At
<1>8. KindInv(k) /\ r0 \in TurnsOf(k)
  BY <1>4, KindsHold DEF TurnsOf, Turns
<1>9. \A r, e : Matches(r, e)' <=> Matches(r, e)
  BY <1>1 DEF Matches
<1>10. \A u \in SearchesOf(k) : u # t => ~th[u].alone \/ ~Turning(u)
  BY <1>2, <1>8, SearchesAre DEF KindInv, Exact, FInv
<1>11. ASSUME NEW u \in SearchesOf(k)' PROVE Exact(u)'
  <2>1. CASE u # t
    <3>1. u \in SearchesOf(k) /\ u \in Threads /\ Turning(u) /\ th'[u] = th[u]
      BY <1>2, <1>7, <1>11, <2>1, SearchesAre DEF FInv
    <3>. QED BY <1>10, <2>1, <3>1 DEF Exact
  <2>2. CASE u = t
    <3> SUFFICES ASSUME th'[t].alone PROVE Exact(t)'
      BY <2>2 DEF Exact
    <3>1. /\ SearchesOf(k) = {t}
          /\ \A j \in 1 .. th[t].i - 1 :
               /\ Matches(r0, Devices[j]) <=> Devices[j] \in ToSet(list)
               /\ Matches(r0, Devices[j]) => Devices[j] \notin last_used[k]
      BY <1>1, <1>2, <1>8 DEF KindInv, Exact
    <3>2. SearchesOf(th[t].res.kind)' = {t}
      BY <1>1, <1>7, <3>1
    <3>3. At(t, "search")' => th'[t].i = Len(Devices) + 1
      <4>1. full => th[t].i = Len(Devices)
        BY <1>3, <1>4, NumbersAssumption DEF FewEnough
      <4>. QED BY <1>1, <4>1 DEF Goes, At
    <3>4. ASSUME NEW j \in 1 .. th'[t].i - 1
          PROVE  /\ Matches(r0, Devices[j]) <=> Devices[j] \in ToSet(th'[t].list)
                 /\ Matches(r0, Devices[j]) => Devices[j] \notin last_used'[k]
      <4>1. CASE j = th[t].i
        <5>1. d \notin ToSet(list)
          BY <1>3, <1>4 DEF ToSet
        <5>. QED BY <1>1, <1>5, <1>6, <4>1, <5>1
      <4>2. CASE j # th[t].i
        <5>1. j \in 1 .. th[t].i - 1 /\ j \in 1 .. Len(Devices)
          BY <1>1, <1>3, <4>2, Places
        <5>2. Devices[j] # d
          BY <1>3, <4>2, <5>1, Places
        <5>. QED BY <1>5, <1>6, <3>1, <5>1, <5>2
      <4>. QED BY <4>1, <4>2
    <3>. QED BY <1>1, <1>9, <3>2, <3>3, <3>4 DEF Exact
  <2>. QED BY <2>1, <2>2
<1>12. \A e, x \in Devs : passed'[k][e][x] >= 1 =>
         e \in free' /\ \E r \in TurnsOf(k)' : Matches(r, e)'
  BY <1>1, <1>8, <1>9 DEF KindInv, TurnsOf, Turns
<1>13. ASSUME NEW r \in TurnsOf(k) PROVE Held(r)' /\ InRound(r)'
  <2>1. Held(r) /\ InRound(r) /\ r.kind = k
    BY <1>8, <1>13, TurnKinds DEF KindInv
  <2>2. \A e, x \in Devs : Passed(r, e, x)' <=> Passed(r, e, x)
    BY <1>1, <1>9 DEF Passed
  <2>3. Held(r)'
    BY <1>1, <1>7, <2>1, <2>2 DEF Held
  <2>4. CASE r # r0
    <3>1. ours => ~Matches(r, d)
      BY <1>8, <2>4, Apart
    <3>2. Marked(r)' = Marked(r)
      BY <1>6, <1>9, <2>1, <3>1 DEF Marked
    <3>3. t \notin SearchesFor(r)
      BY <1>1, <2>4 DEF SearchesFor
    <3>4. \A u \in SearchesFor(r) : th'[u] = th[u]
      BY <1>2, <3>3 DEF SearchesFor
    <3>5. InRound(r)'
      BY <1>7, <1>9, <2>1, <2>2, <3>2, <3>4, KeepRound
    <3>. QED BY <2>3, <3>5
  <2>5. CASE r = r0
    <3> SUFFICES ASSUME \E e, x \in Devs : Passed(r, e, x)'
                 PROVE  \E m \in 1 .. Len(Devices) : Round(r, m)'
      BY <2>3 DEF InRound
    <3>1. PICK m \in 1 .. Len(Devices) : Round(r, m)
      BY <2>1, <2>2 DEF InRound
    <3>2. t \in SearchesFor(r)
      BY <1>2, <2>5 DEF SearchesFor
    <3>3. ASSUME NEW u \in SearchesFor(r)', th'[u].alone PROVE Noted(u, r, m)'
      <4>1. u \in SearchesFor(r) /\ u \in SearchesOf(k) /\ Turning(u)
        BY <1>7, <2>1 DEF SearchesFor, SearchesOf, Turning
      <4>2. u = t
        BY <1>2, <1>10, <3>3, <4>1 DEF SearchesFor
      <4>3. Noted(t, r, m)
        BY <1>1, <3>1, <3>2, <3>3, <4>2 DEF Round
      <4>4. /\ Devices[m] \in Devs /\ Place(Devices[m]) = m /\ Matches(r, Devices[m])
            /\ m \in Nat
        BY <3>1, Places DEF Round
      <4>5. Marked(r)' = IF ours THEN Marked(r) \ {d} ELSE Marked(r)
        BY <1>6, <1>9, <2>1 DEF Marked
      <4>6. d \in Marked(r) <=> ours /\ d \in last_used[k]
        BY <2>1, <2>5 DEF Marked
      <4>7. CASE m > th[t].i
        <5>1. Devices[m] # d /\ Marked(r) = {Devices[m]} /\ th[t].last = 0
          BY <1>3, <4>3, <4>4, <4>7 DEF Noted, MarkAt
        <5>2. Marked(r)' = {Devices[m]} /\ th'[t].last = 0 /\ m >= th'[t].i
          BY <1>1, <1>3, <4>4, <4>5, <4>6, <4>7, <5>1
        <5>. QED BY <4>2, <5>2 DEF Noted, MarkAt
      <4>8. CASE m = th[t].i
        <5>1. d = Devices[m] /\ Marked(r) = {d} /\ ours
          BY <1>1, <1>3, <2>5, <4>3, <4>4, <4>8 DEF Noted, MarkAt
        <5>2. /\ Marked(r)' = {} /\ th'[t].last = Len(list)
              /\ ~(m >= th'[t].i)
          BY <1>1, <1>3, <4>5, <4>6, <4>8, <5>1
        <5>3. th'[t].last < Len(th'[t].list) /\ th'[t].list[th'[t].last + 1] = Devices[m]
          BY <1>3, <1>5, <5>1, <5>2
        <5>. QED BY <4>2, <5>2, <5>3 DEF Noted
      <4>9. CASE m < th[t].i
        <5>1. /\ Marked(r) = {} /\ th[t].last < Len(list) /\ list[th[t].last + 1] = Devices[m]
          BY <1>3, <4>3, <4>4, <4>9 DEF Noted
        <5>2. Marked(r)' = {} /\ th'[t].last = th[t].last /\ ~(m >= th'[t].i)
          BY <1>1, <1>3, <4>4, <4>5, <4>6, <4>9, <5>1
        <5>3. th[t].last + 1 \in 1 .. Len(list) /\ Len(list) \in Nat
          BY <1>3, <5>1
        <5>4. th'[t].last < Len(th'[t].list) /\ th'[t].list[th'[t].last + 1] = Devices[m]
          BY <1>3, <1>5, <5>1, <5>2, <5>3
        <5>. QED BY <4>2, <5>2, <5>4 DEF Noted
      <4>. QED BY <1>3, <4>4, <4>7, <4>8, <4>9
    <3>4. Round(r, m)'
      BY <1>7, <1>9, <2>2, <3>1, <3>2, <3>3 DEF Round
    <3>. QED BY <3>4
  <2>. QED BY <2>3, <2>4, <2>5
<1>14. \A r \in TurnsOf(k)' : Held(r)' /\ InRound(r)'
  BY <1>13, TurnKinds DEF TurnsOf, Turns
<1>15. \A e, x \in Devs : passed'[k][e][x] <= 1
  BY <1>1, <1>8 DEF KindInv
<1> QED BY <1>11, <1>12, <1>14, <1>15 DEF KindInv

LEMMA ListTurns ==
  ASSUME FInv, FInv', FewEnough, TurnsApart, TInv, NEW t \in Threads, List(t) PROVE TInv'
<1>1. PICK d \in Devs : ListedBy(t, d)
  BY Lists DEF FInv
<1>2. ~At(t, "idle")
  BY <1>1 DEF ListedBy, At
<1>3. PICK r0 \in Resources, k \in Kinds : r0 = th[t].res /\ k = r0.kind
  BY <1>2, Fields DEF FInv
<1>4. KindInv(k)'
  BY <1>1, <1>3, ListInTurn
<1>5. /\ UNCHANGED <<attr, free, able, passed>>
      /\ \A u \in Threads \ {t} : th'[u] = th[u]
      /\ th'[t].res = r0
      /\ \A j \in Kinds \ {k} : last_used'[j] = last_used[j]
  BY <1>1, <1>3 DEF ListedBy, Goes, FInv, TypeOK
<1>6. OnlyKind(k)
  BY <1>3, <1>5 DEF OnlyKind
<1> QED BY <1>4, <1>6, OneKind DEF FInv

(* The place in the list that is tried. *)
LEMMA TurnPlace ==
  ASSUME NEW N \in Nat, NEW s \in Nat, s < N, NEW q \in 0 .. N - 1
  PROVE  ((s + 1 + q) % N) + 1 = IF s + 1 + q < N THEN s + 2 + q ELSE (s + 2 + q) - N
<1> DEFINE x == s + 1 + q
<1>1. x \in Nat /\ x < N + N /\ x + 1 = s + 2 + q
  OBVIOUS
<1> HIDE DEF x
<1>2. x % N = IF x < N THEN x ELSE x - N
  BY <1>1, ModOnce
<1>3. CASE x < N
  <2>1. (x % N) + 1 = x + 1
    BY <1>2, <1>3
  <2>. QED BY <1>1, <1>3, <2>1 DEF x
<1>4. CASE ~(x < N)
  <2>1. (x % N) + 1 = (x + 1) - N
    BY <1>1, <1>2, <1>4
  <2>. QED BY <1>1, <1>4, <2>1 DEF x
<1> QED BY <1>3, <1>4

(* The devices are tried in the round behind the one that had the mark. *)
LEMMA TriedInRound ==
  ASSUME FInv, NEW t \in Threads, At(t, "search"), th[t].tries < Len(th[t].list),
         NEW m \in 1 .. Len(Devices), th[t].last < Len(th[t].list),
         th[t].list[th[t].last + 1] = Devices[m],
         NEW d, d = Turn(t, th[t].tries), NEW e \in Untried(t), e # d
  PROVE  Before(m, Place(d), Place(e))
<1> DEFINE list == th[t].list
           N == Len(list)
           s == th[t].last
           q == th[t].tries
           pos(j) == IF s + 1 + j < N THEN s + 2 + j ELSE (s + 2 + j) - N
<1>1. /\ list \in Seq(Devs) /\ s \in Nat /\ q \in Nat /\ N \in Nat /\ DOMAIN list = 1 .. N
      /\ \A a \in 1 .. N : list[a] \in Devs
      /\ \A a, b \in 1 .. N : a < b => Place(list[a]) < Place(list[b])
  <2>1. list \in Seq(Devs) /\ s \in Nat /\ q \in Nat /\ Turning(t)
    BY Fields DEF FInv, At, Turning
  <2>2. N \in Nat /\ DOMAIN list = 1 .. N /\ \A a \in 1 .. N : list[a] \in Devs
    BY <2>1
  <2>. QED BY <2>1, <2>2 DEF FInv, Listed, InOrder
<1>2. PICK p \in q .. N - 1 : e = Turn(t, p)
  BY DEF Untried
<1>3. s < N /\ q < N /\ list[s + 1] = Devices[m] /\ e # Turn(t, q) /\ d = Turn(t, q)
  OBVIOUS
<1>4. \A j : Turn(t, j) = list[((s + 1 + j) % N) + 1]
  BY DEF Turn, Start
<1> HIDE DEF list, N, s, q
<1>5. q < p /\ q \in 0 .. N - 1 /\ p \in 0 .. N - 1
  BY <1>1, <1>2, <1>3
<1>6. ASSUME NEW j \in 0 .. N - 1 PROVE Turn(t, j) = list[pos(j)] /\ pos(j) \in 1 .. N
  <2>1. ((s + 1 + j) % N) + 1 = pos(j)
    BY <1>1, <1>3, TurnPlace
  <2>2. pos(j) \in 1 .. N
    BY <1>1, <1>3
  <2>. QED BY <1>4, <2>1, <2>2
<1>7. d = list[pos(q)] /\ e = list[pos(p)] /\ pos(q) \in 1 .. N /\ pos(p) \in 1 .. N
  BY <1>2, <1>3, <1>5, <1>6
<1>8. /\ m = Place(list[s + 1]) /\ s + 1 \in 1 .. N
      /\ \A a \in 1 .. N : Place(list[a]) \in Nat
  BY <1>1, <1>3, Places
<1>9. \A a, b \in 1 .. N : a <= b => Place(list[a]) <= Place(list[b])
  <2> SUFFICES ASSUME NEW a \in 1 .. N, NEW b \in 1 .. N, a <= b
               PROVE  Place(list[a]) <= Place(list[b])
    OBVIOUS
  <2>1. a < b \/ a = b
    BY <1>1
  <2>. QED BY <1>1, <1>8, <2>1
<1>10. \/ s + 1 < pos(q) /\ pos(q) < pos(p)
       \/ pos(q) < pos(p) /\ pos(p) <= s + 1
       \/ pos(p) <= s + 1 /\ s + 1 < pos(q)
  BY <1>1, <1>3, <1>5
<1> HIDE DEF pos
<1> QED BY <1>1, <1>7, <1>8, <1>9, <1>10 DEF Before

(* Who comes behind d in the round behind m, in which d comes first, comes *)
(* behind it in the round behind d as well.                                *)
LEMMA NextRound ==
  ASSUME NEW m \in Nat, NEW d \in Nat, NEW e \in Nat, NEW x \in Nat,
         Before(m, d, e), Before(m, e, x)
  PROVE  Before(d, e, x)
BY DEF Before

LEMMA OwnRound == ASSUME NEW d \in Nat, NEW e \in Nat, e # d PROVE Before(d, e, d)
BY DEF Before

LEMMA OneBefore ==
  ASSUME NEW m \in Nat, NEW x \in Nat, NEW y \in Nat, Before(m, x, y) PROVE ~Before(m, y, x)
BY DEF Before

(* A search that is alone finds d: nobody is passed over for it who was    *)
(* passed over for it before, and the round behind d begins.               *)
LEMMA TakeInTurn ==
  ASSUME FInv, TurnsApart, TInv, NEW t \in Threads, NEW d \in Devs, Searched(t, d), d \in free,
         NEW r0 \in Resources, r0 = th[t].res, NEW k \in Kinds, k = r0.kind, th[t].alone
  PROVE  KindInv(k)'
<1>1. /\ At(t, "search") /\ th[t].tries < Len(th[t].list) /\ d = Turn(t, th[t].tries)
      /\ Goes(t, "found") /\ PassOver(t, d)
      /\ last_used' = [last_used EXCEPT ![k] = @ \cup {d}]
      /\ UNCHANGED <<attr, free, able>>
  BY DEF Searched, TakenBy
<1>2. /\ ~At(t, "idle") /\ Turning(t) /\ ~Turning(t)' /\ t \in SearchesOf(k)
      /\ t \in SearchesFor(r0)
  BY <1>1 DEF Goes, Turning, At, SearchesOf, SearchesFor
<1>3. /\ th[t].last \in Nat /\ th[t].tries \in Nat /\ th[t].list \in Seq(Devs)
      /\ th[t].i \in 1 .. Len(Devices) + 1
  BY <1>2, Fields DEF FInv
<1>4. KindInv(k) /\ r0 \in TurnsOf(k)
  <2>1. r0.turn
    BY <1>2 DEF FInv, Listed, InOrder
  <2>. QED BY <2>1, KindsHold DEF TurnsOf, Turns
<1>5. /\ SearchesOf(k) = {t} /\ th[t].i = Len(Devices) + 1
      /\ \A j \in 1 .. Len(Devices) :
           /\ Matches(r0, Devices[j]) <=> Devices[j] \in ToSet(th[t].list)
           /\ Matches(r0, Devices[j]) => Devices[j] \notin last_used[k]
  <2>1. Exact(t)
    BY <1>2, <1>4 DEF KindInv
  <2>2. /\ SearchesOf(k) = {t} /\ th[t].i = Len(Devices) + 1
        /\ \A j \in 1 .. th[t].i - 1 :
             /\ Matches(r0, Devices[j]) <=> Devices[j] \in ToSet(th[t].list)
             /\ Matches(r0, Devices[j]) => Devices[j] \notin last_used[k]
    BY <1>1, <1>2, <2>1 DEF Exact
  <2>. QED BY <2>2, Places
<1>6. \A r, e : Matches(r, e)' <=> Matches(r, e)
  BY <1>1 DEF Matches
<1>7. Marked(r0) = {} /\ Matches(r0, d)
  <2>1. \A e \in Devs : Matches(r0, e) => e \notin last_used[k]
    BY <1>5, Places
  <2>2. d \in ToSet(th[t].list)
    <3> DEFINE N == Len(th[t].list)
               x == Start(t) + th[t].tries
    <3>1. N \in Nat /\ N # 0 /\ DOMAIN th[t].list = 1 .. N /\ x \in Nat
      BY <1>1, <1>3 DEF Start
    <3>2. d = th[t].list[(x % N) + 1]
      BY <1>1 DEF Turn
    <3> HIDE DEF N, x
    <3>3. (x % N) + 1 \in 1 .. N
      BY <3>1
    <3>. QED BY <3>1, <3>2, <3>3 DEF ToSet
  <2>. QED BY <1>5, <2>1, <2>2, Places DEF Marked
<1>8. /\ \A e, x \in Devs : passed'[k][e][x] =
           IF e = d THEN 0
           ELSE IF x = d /\ e \in free /\ Matches(r0, e)
                THEN IF passed[k][e][x] = 2 THEN 2 ELSE passed[k][e][x] + 1
                ELSE passed[k][e][x]
      /\ passed \in [Kinds -> Counts]
  BY <1>1, <1>2, PassesOver DEF FInv, TypeOK, PassedOver, Counts
<1>9. \A e, x \in Devs : passed[k][e][x] \in 0 .. 2 /\ passed[k][e][x] <= 1
  BY <1>4, <1>8 DEF Counts, KindInv
<1>10. \A r \in TurnsOf(k) : SearchesFor(r)' = {}
  <2>1. SearchesOf(k)' = {}
    BY <1>1, <1>2, <1>5 DEF SearchesOf, Goes, Turning, At
  <2>. QED BY <2>1, TurnKinds
<1>11. \A u \in SearchesOf(k)' : Exact(u)'
  BY <1>1, <1>2, <1>5 DEF SearchesOf, Goes, Turning, At
<1>12. ASSUME NEW e \in Devs, NEW x \in Devs, Passed(r0, e, x), e # d
       PROVE  \E m \in 1 .. Len(Devices) :
                /\ Matches(r0, x) /\ Before(m, Place(e), Place(x))
                /\ Before(m, Place(d), Place(e))
  <2>1. InRound(r0) /\ Held(r0)
    BY <1>4 DEF KindInv
  <2>2. PICK m \in 1 .. Len(Devices) : Round(r0, m)
    BY <1>12, <2>1 DEF InRound
  <2>3. ~(m >= th[t].i) /\ Noted(t, r0, m)
    BY <1>2, <1>5, <2>2, Places DEF Round
  <2>4. th[t].last < Len(th[t].list) /\ th[t].list[th[t].last + 1] = Devices[m]
    BY <2>3 DEF Noted
  <2>5. e \in Untried(t)
    BY <1>1, <1>2, <1>12, <2>1 DEF Held, FInv, Findable, FindableBy
  <2>6. Before(m, Place(d), Place(e))
    BY <1>1, <1>12, <2>4, <2>5, TriedInRound
  <2>. QED BY <1>12, <2>2, <2>6 DEF Round
<1>13. \A e \in Devs : Place(e) \in Nat
  BY Places
<1>14. \A e, x \in Devs : passed'[k][e][x] >= 1 =>
         e \in free' /\ \E r \in TurnsOf(k)' : Matches(r, e)'
  <2> SUFFICES ASSUME NEW e \in Devs, NEW x \in Devs, passed'[k][e][x] >= 1
               PROVE  e \in free /\ \E r \in TurnsOf(k) : Matches(r, e)
    BY <1>1, <1>4, <1>6, TurnKinds
  <2>1. CASE e \in free /\ Matches(r0, e)
    BY <1>4, <2>1
  <2>2. CASE ~(e \in free /\ Matches(r0, e))
    <3>1. passed[k][e][x] >= 1
      BY <1>8, <2>2
    <3>. QED BY <1>4, <3>1 DEF KindInv
  <2>. QED BY <2>1, <2>2
<1>15. ASSUME NEW e \in Devs, NEW x \in Devs PROVE passed'[k][e][x] <= 1
  <2>1. CASE e # d /\ x = d /\ e \in free /\ Matches(r0, e)
    <3>1. passed[k][e][d] = 0
      <4> SUFFICES ASSUME passed[k][e][d] >= 1 PROVE FALSE
        BY <1>9
      <4>1. Passed(r0, e, d)
        BY <2>1 DEF Passed
      <4>2. PICK m \in 1 .. Len(Devices) :
               Before(m, Place(e), Place(d)) /\ Before(m, Place(d), Place(e))
        BY <1>12, <2>1, <4>1
      <4>. QED BY <1>13, <4>2, OneBefore, Places
    <3>. QED BY <1>8, <2>1, <3>1
  <2>2. CASE ~(e # d /\ x = d /\ e \in free /\ Matches(r0, e))
    <3>1. passed'[k][e][x] = 0 \/ passed'[k][e][x] = passed[k][e][x]
      BY <1>8, <2>2
    <3>. QED BY <1>9, <3>1
  <2>. QED BY <2>1, <2>2
<1>16. ASSUME NEW r \in TurnsOf(k) PROVE Held(r)' /\ InRound(r)'
  <2>1. r.kind = k /\ InRound(r) /\ Held(r)'
    BY <1>4, <1>10, <1>16, TurnKinds DEF KindInv, Held
  <2>2. last_used'[k] = last_used[k] \cup {d}
    BY <1>1 DEF FInv, TypeOK
  <2>3. CASE r # r0
    <3>1. \A e \in Devs : Matches(r, e) => ~Matches(r0, e)
      BY <1>4, <2>3, Apart
    <3>2. Marked(r)' = Marked(r)
      BY <1>6, <1>7, <2>1, <2>2, <3>1 DEF Marked
    <3>3. \A e, x \in Devs : Passed(r, e, x)' => Passed(r, e, x)
      <4> SUFFICES ASSUME NEW e \in Devs, NEW x \in Devs, Passed(r, e, x)' PROVE Passed(r, e, x)
        OBVIOUS
      <4>1. Matches(r, e) /\ passed'[k][e][x] >= 1
        BY <1>6, <2>1 DEF Passed
      <4>2. passed'[k][e][x] = 0 \/ passed'[k][e][x] = passed[k][e][x]
        BY <1>8, <3>1, <4>1
      <4>. QED BY <1>9, <2>1, <4>1, <4>2 DEF Passed
    <3>4. SearchesFor(r) = {}
      BY <1>5, <2>3, TurnKinds DEF SearchesFor
    <3>5. SearchesFor(r)' = SearchesFor(r)
      BY <1>10, <3>4
    <3>6. InRound(r)'
      BY <1>6, <2>1, <3>2, <3>3, <3>4, <3>5, KeepRound
    <3>. QED BY <2>1, <3>6
  <2>4. CASE r = r0
    <3> DEFINE m == Place(d)
    <3>1. m \in 1 .. Len(Devices) /\ Devices[m] = d
      BY Places
    <3>2. Marked(r)' = {d}
      BY <1>6, <1>7, <2>1, <2>2, <2>4 DEF Marked
    <3>3. ASSUME NEW e \in Devs, NEW x \in Devs, Passed(r, e, x)'
          PROVE  Matches(r, x) /\ Before(m, Place(e), Place(x))
      <4>1. Matches(r, e) /\ passed'[k][e][x] >= 1 /\ e # d
        BY <1>6, <1>8, <2>1, <3>3 DEF Passed
      <4>2. CASE x = d
        <5>1. Place(e) # Place(d)
          BY <4>1, Places
        <5>. QED BY <1>7, <1>13, <2>4, <4>2, <5>1, OwnRound
      <4>3. CASE x # d
        <5>1. Passed(r0, e, x)
          BY <1>8, <2>4, <4>1, <4>3 DEF Passed
        <5>2. PICK n \in 1 .. Len(Devices) :
                /\ Matches(r0, x) /\ Before(n, Place(e), Place(x))
                /\ Before(n, Place(d), Place(e))
          BY <1>12, <4>1, <5>1
        <5>3. n \in Nat
          BY Places
        <5>. QED BY <1>13, <2>4, <5>2, <5>3, NextRound
      <4>. QED BY <4>2, <4>3
    <3> HIDE DEF m
    <3>4. Round(r, m)'
      BY <1>6, <1>7, <1>10, <2>4, <3>1, <3>2, <3>3 DEF Round, MarkAt
    <3>5. InRound(r)'
      BY <3>1, <3>4 DEF InRound
    <3>. QED BY <2>1, <3>5
  <2>. QED BY <2>3, <2>4
<1>17. \A r \in TurnsOf(k)' : Held(r)' /\ InRound(r)'
  BY <1>16, TurnKinds DEF TurnsOf, Turns
<1> QED BY <1>11, <1>14, <1>15, <1>17 DEF KindInv

LEMMA SearchTurns ==
  ASSUME FInv, FInv', TurnsApart, TInv, NEW t \in Threads, Search(t) PROVE TInv'
<1>1. PICK d \in Devs : Searched(t, d)
  BY Searches DEF FInv
<1>2. /\ At(t, "search") /\ ~At(t, "idle") /\ Turning(t)
      /\ UNCHANGED <<attr, free, able>>
  BY <1>1 DEF Searched, Turning, At
<1>3. PICK r0 \in Resources, k \in Kinds : r0 = th[t].res /\ k = r0.kind
  BY <1>2, Fields DEF FInv
<1>4. th[t].alone \in BOOLEAN
  BY <1>2, Fields DEF FInv
<1>5. CASE d \notin free
  BY <1>1, <1>5, TryTurns
<1>6. CASE d \in free
  <2>1. /\ Goes(t, "found") /\ PassOver(t, d)
        /\ last_used' = [last_used EXCEPT ![k] = @ \cup {d}]
        /\ th'[t].res = r0 /\ \A u \in Threads \ {t} : th'[u] = th[u]
    BY <1>1, <1>3, <1>6 DEF Searched, TakenBy, Goes
  <2>2. PassedOver(t, d)
    BY <1>2, <2>1, PassesOver DEF FInv
  <2>3. OnlyKind(k)
    <3>1. \A j \in Kinds \ {k} : last_used'[j] = last_used[j] /\ passed'[j] = passed[j]
      BY <1>3, <2>1, <2>2 DEF PassedOver, FInv, TypeOK
    <3>2. \A u \in Threads :
            \/ th'[u] = th[u] /\ able'[u] = able[u]
            \/ (Turning(u) => th[u].res.kind = k) /\ (Turning(u)' => th'[u].res.kind = k)
      BY <1>2, <1>3, <2>1
    <3>. QED BY <1>2, <3>1, <3>2 DEF OnlyKind
  <2>4. CASE th[t].alone
    BY <1>1, <1>3, <1>6, <2>3, <2>4, TakeInTurn, OneKind DEF FInv
  <2>5. CASE ~th[t].alone
    <3>1. \A e, x \in Devs : passed'[k][e][x] = 0
      BY <1>3, <2>2, <2>5, NoPasses DEF PassedOver
    <3>2. ASSUME NEW u \in SearchesOf(k)' PROVE th'[u].alone = FALSE
      <4>1. u # t /\ u \in Threads /\ u \in SearchesOf(k) /\ th'[u] = th[u]
        BY <2>1, <3>2 DEF SearchesOf, Goes, At
      <4>2. t \in SearchesOf(k)
        BY <1>2, <1>3 DEF SearchesOf, Turning
      <4>3. Exact(u) /\ Turning(u) /\ th[u].res.kind = k /\ th[u].alone \in BOOLEAN
        BY <4>1, KindsHold, SearchesAre, Fields DEF KindInv, FInv
      <4>. QED BY <4>1, <4>2, <4>3 DEF Exact
    <3>3. KindInv(k)'
      BY <3>1, <3>2, NobodyWaits
    <3>. QED BY <2>3, <3>3, OneKind DEF FInv
  <2>. QED BY <1>4, <2>4, <2>5
<1> QED BY <1>5, <1>6

LEMMA InitTurns == Init => TInv
<1> SUFFICES ASSUME Init PROVE TInv
  OBVIOUS
<1>1. FInv
  BY InitFinds
<1>2. \A u \in Threads : ~Turning(u)
  BY DEF Init, Turning, At, Idle
<1>3. \A k \in Kinds, e, d \in Devs : passed[k][e][d] = 0
  BY NoPasses DEF Init
<1>4. AloneExact
  BY <1>2 DEF AloneExact, Exact
<1>5. Waiters /\ InTurn
  BY <1>3 DEF Waiters, InTurn
<1>6. \A r \in Turns : r.kind \in Kinds
  BY ResourcesAssumption DEF Turns
<1>7. Rounds
  BY <1>3, <1>6 DEF Rounds, Held, InRound, Passed
<1> QED BY <1>4, <1>5, <1>7 DEF TInv

LEMMA NextTurns ==
  ASSUME FewEnough, TurnsApart, FInv, FInv', TInv, [Next]_vars PROVE TInv'
<1>1. CASE UNCHANGED vars
  BY <1>1, StutterTurns
<1>2. ASSUME NEW t \in Threads, Begin(t) PROVE TInv'
  BY <1>2, BeginTurns
<1>3. ASSUME NEW t \in Threads, Walk(t) PROVE TInv'
  BY <1>3, WalkTurns
<1>4. ASSUME NEW t \in Threads, List(t) PROVE TInv'
  BY <1>4, ListTurns
<1>5. ASSUME NEW t \in Threads, Search(t) PROVE TInv'
  BY <1>5, SearchTurns
<1>6. ASSUME NEW t \in Threads, SearchedAll(t) PROVE TInv'
  <2>1. At(t, "search") /\ ~At(t, "idle")
    BY <1>6 DEF SearchedAll, At
  <2>2. PICK k \in Kinds : k = th[t].res.kind
    BY <2>1, Fields DEF FInv
  <2>. QED BY <1>6, <2>2, ExhaustTurns
<1>7. ASSUME NEW t \in Threads, Refuse(t) PROVE TInv'
  BY <1>7, RefuseTurns
<1>8. ASSUME NEW t \in Threads, channel_request(t) PROVE TInv'
  BY <1>8, RequestTurns
<1>9. ASSUME NEW d \in Devs, Changes(d) PROVE TInv'
  BY <1>9, ChangeTurns
<1>10. ASSUME NEW d \in Devs, NEW k \in Kinds, Moves(d, k) PROVE TInv'
  BY <1>10, MoveTurns
<1> QED BY <1>1, <1>2, <1>3, <1>4, <1>5, <1>6, <1>7, <1>8, <1>9, <1>10 DEF Next

(* Searches that do not overlap find all devices of a group, a provider or *)
(* an IMSI prefix in turn: none is taken twice while another one that can  *)
(* dial all the time is not.  The devices fit in the array of a search,    *)
(* and no prefix extends another.                                          *)
THEOREM Rotates == ASSUME FewEnough, TurnsApart PROVE Spec => []Rotation
<1>1. Init => IInv
  BY InitFinds, InitTurns DEF IInv, FInv, TInv
<1>2. IInv /\ [Next]_vars => IInv'
  BY FewEnough, TurnsApart, NextFinds, NextTurns DEF IInv, FInv, TInv
<1>3. IInv => Rotation
  BY DEF IInv, Findable, FindableBy, Complete, InTurn, Rotation
<1> QED BY <1>1, <1>2, <1>3, PTL DEF Spec
=============================================================================
