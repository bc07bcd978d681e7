---------------------------- MODULE ServiceProofs ----------------------------
(***************************************************************************)
(* Proofs about Service, for every configuration, every set of messages    *)
(* and places of the SIM, every set of commands that the modem may refuse  *)
(* and every bound.  The commands a task still has to do are known by      *)
(* their number alone (IsInit): the list of the initialization is aligned  *)
(* at its end, whichever optional commands it begins with.                 *)
(***************************************************************************)
EXTENDS Service, SequenceTheorems, TLAPS

-----------------------------------------------------------------------------
(* The tasks there are.                                                    *)

PlainCmd == [cmd : InitNames, arg : {None}]

(* how many commands follow each of those that service depends on *)
Aligned(cmd, left) ==
  /\ (cmd = "CNMI" <=> left = 1)
  /\ (cmd = "CPMS" <=> left = 2)
  /\ (cmd = "CMGF" <=> left = 4)
  /\ (cmd = "CVOICE" <=> left = 7)

(* what is left of the initialization, a ping, a question for the operator *)
IsInit(t) ==
  /\ t \in Seq(PlainCmd) /\ t # <<>>
  /\ \A j \in DOMAIN t : Aligned(t[j].cmd, Len(t) - j)

IsSms(t) == \E m \in Sms : t \in {<<Cmd("CMGS", m), Cmd("SMSTEXT", m)>>, <<Cmd("SMSTEXT", m)>>}
IsUssd(t) == \E m \in Ussd : t = <<Cmd("CUSD", m)>>
IsRead(t) ==
  \E i \in Slots : t \in {<<Cmd("CMGR", i), Cmd("CMGD", i)>>, <<Cmd("CMGR", i)>>, <<Cmd("CMGD", i)>>}
IsCcwa(t) ==
  \E v \in CcwaSettings : t \in {<<Cmd("CCWA_SET", v), Cmd("CCWA_STATUS", None)>>,
                                 <<Cmd("CCWA_STATUS", None)>>}
IsTask(t) == IsInit(t) \/ IsSms(t) \/ IsUssd(t) \/ IsRead(t) \/ IsCcwa(t)

Entry == [cmd : Commands, arg : Args]
Task == Seq(Entry)

MsgCmds == {"CMGS", "SMSTEXT", "CUSD"}

LEMMA EntryType ==
  ASSUME NEW c \in Commands, NEW a \in Args
  PROVE  Cmd(c, a) \in Entry /\ Cmd(c, a).cmd = c /\ Cmd(c, a).arg = a
BY DEF Cmd, Entry

LEMMA NoneIsArg == None \in Args /\ Msgs \subseteq Args /\ Slots \subseteq Args /\ CcwaSettings \subseteq Args
BY DEF Args

LEMMA MoreCommands ==
  {"CMGS", "SMSTEXT", "CUSD", "CMGR", "CMGD", "CCWA_SET", "CCWA_STATUS"} \subseteq Commands
BY DEF Commands

LEMMA PlainType == PlainCmd \subseteq Entry
BY NoneIsArg DEF PlainCmd, Entry, Commands

LEMMA OneIsTask == ASSUME NEW a \in Entry PROVE <<a>> \in Task /\ <<a>> # <<>> /\ Len(<<a>>) = 1
BY DEF Task
LEMMA TwoIsTask ==
  ASSUME NEW a \in Entry, NEW b \in Entry PROVE <<a, b>> \in Task /\ <<a, b>> # <<>> /\ Len(<<a, b>>) = 2
BY DEF Task

LEMMA TaskType == ASSUME NEW t, IsTask(t) PROVE t \in Task /\ t # <<>> /\ Len(t) \in Nat \ {0}
<1>0. SUFFICES t \in Task /\ t # <<>> BY DEF Task
<1>1. CASE IsInit(t)
  <2>1. t \in Seq(PlainCmd) /\ t # <<>> BY <1>1 DEF IsInit
  <2>2. Len(t) \in Nat /\ \A j \in 1 .. Len(t) : t[j] \in Entry BY <2>1, PlainType
  <2>3. t = [j \in 1 .. Len(t) |-> t[j]] BY <2>1
  <2> QED BY <2>1, <2>2, <2>3 DEF Task
<1>2. CASE IsSms(t)
  BY <1>2, EntryType, NoneIsArg, MoreCommands, OneIsTask, TwoIsTask DEF IsSms, Msgs
<1>3. CASE IsUssd(t)
  BY <1>3, EntryType, NoneIsArg, MoreCommands, OneIsTask DEF IsUssd, Msgs
<1>4. CASE IsRead(t)
  BY <1>4, EntryType, NoneIsArg, MoreCommands, OneIsTask, TwoIsTask DEF IsRead
<1>5. CASE IsCcwa(t)
  BY <1>5, EntryType, NoneIsArg, MoreCommands, OneIsTask, TwoIsTask DEF IsCcwa
<1> QED BY <1>1, <1>2, <1>3, <1>4, <1>5 DEF IsTask

LEMMA NoInit == ASSUME NEW t, t[1].cmd \notin InitNames, t # <<>> PROVE ~IsInit(t)
<1> SUFFICES ASSUME IsInit(t) PROVE FALSE OBVIOUS
<1>1. t \in Seq(PlainCmd) /\ t # <<>> BY DEF IsInit
<1>2. t[1] \in PlainCmd BY <1>1
<1> QED BY <1>2 DEF PlainCmd

LEMMA OtherNames ==
  InitNames \cap {"CMGS", "SMSTEXT", "CUSD", "CMGR", "CMGD", "CCWA_SET", "CCWA_STATUS"} = {}
BY DEF InitNames, Setup

LEMMA Single == ASSUME NEW c, NEW u, u = <<c>> PROVE u # <<>> /\ Len(u) = 1 /\ u[1] = c
OBVIOUS
LEMMA Pair == ASSUME NEW c, NEW d, NEW t, t = <<c, d>> PROVE t # <<>> /\ Len(t) = 2 /\ t[1] = c /\ Tail(t) = <<d>>
OBVIOUS

(* A task without its first command is a task; a deletion, a text and a    *)
(* query of call waiting are only ever what is left of one.                *)
Follows(t, u) ==
  /\ IsTask(u) /\ Len(u) = Len(t) - 1
  /\ IsInit(u) => IsInit(t)
  /\ u[1].cmd \notin {"CCWA_SET", "CMGR", "CMGS", "CUSD"}
  /\ u[1].cmd = "CMGD" => t[1].cmd = "CMGR" /\ u[1].arg = t[1].arg
  /\ u[1].cmd = "SMSTEXT" => t[1].cmd = "CMGS" /\ u[1].arg = t[1].arg

LEMMA TaskTail ==
  ASSUME NEW t, IsTask(t), Len(t) # 1
  PROVE  Follows(t, Tail(t))
<1>0. SUFFICES ASSUME NEW u, u = Tail(t) PROVE Follows(t, u)
  OBVIOUS
<1>1. CASE IsInit(t)
  <2>0. t \in Seq(PlainCmd) /\ Len(t) \in Nat \ {0}
    BY <1>1, EmptySeq DEF IsInit
  <2>1. t # <<>> /\ Len(t) - 1 \in Nat \ {0}
    BY <1>0, <2>0
  <2>2. u \in Seq(PlainCmd) /\ Len(u) \in Nat \ {0} /\ Len(u) = Len(t) - 1 /\ u # <<>>
    BY <1>0, <2>0, <2>1, HeadTailProperties, EmptySeq
  <2>3. \A j \in 1 .. Len(u) : j + 1 \in 1 .. Len(t) /\ u[j] = t[j + 1]
    BY <1>0, <2>0, <2>2
  <2>4. ASSUME NEW j \in DOMAIN u
        PROVE  Aligned(u[j].cmd, Len(u) - j)
    <3>0. j \in 1 .. Len(u) /\ DOMAIN t = 1 .. Len(t)
      BY <2>0, <2>2
    <3>1. Len(u) - j = Len(t) - (j + 1)
      BY <2>0, <2>2, <3>0
    <3>2. j + 1 \in DOMAIN t /\ u[j] = t[j + 1]
      BY <2>3, <3>0
    <3> QED BY <1>1, <3>1, <3>2 DEF IsInit
  <2>5. IsInit(u)
    BY <2>2, <2>4 DEF IsInit
  <2>6. u[1] \in PlainCmd
    BY <2>2
  <2>7. u[1].cmd \notin {"CCWA_SET", "CMGR", "CMGS", "CUSD", "CMGD", "SMSTEXT"}
    BY <2>6, OtherNames DEF PlainCmd
  <2> QED BY <1>1, <2>2, <2>5, <2>7 DEF IsTask, Follows
<1>2. CASE IsSms(t)
  <2>1. PICK m \in Sms : t = <<Cmd("CMGS", m), Cmd("SMSTEXT", m)>>
    BY <1>2, Single DEF IsSms
  <2>2. u = <<Cmd("SMSTEXT", m)>> /\ t[1] = Cmd("CMGS", m) /\ Len(t) = 2
    BY <1>0, <2>1, Pair
  <2>3. u[1] = Cmd("SMSTEXT", m) /\ Len(u) = 1 /\ u # <<>>
    BY <2>2, Single
  <2>4. u[1].cmd = "SMSTEXT" /\ u[1].arg = m /\ t[1].cmd = "CMGS" /\ t[1].arg = m
    BY <2>2, <2>3 DEF Cmd
  <2>5. IsTask(u)
    BY <2>2 DEF IsTask, IsSms
  <2>6. ~IsInit(u)
    BY <2>3, <2>4, NoInit, OtherNames
  <2> QED BY <2>2, <2>3, <2>4, <2>5, <2>6 DEF Follows
<1>3. CASE IsUssd(t)
  BY <1>3, Single DEF IsUssd
<1>4. CASE IsRead(t)
  <2>1. PICK i \in Slots : t = <<Cmd("CMGR", i), Cmd("CMGD", i)>>
    BY <1>4, Single DEF IsRead
  <2>2. u = <<Cmd("CMGD", i)>> /\ t[1] = Cmd("CMGR", i) /\ Len(t) = 2
    BY <1>0, <2>1, Pair
  <2>3. u[1] = Cmd("CMGD", i) /\ Len(u) = 1 /\ u # <<>>
    BY <2>2, Single
  <2>4. u[1].cmd = "CMGD" /\ u[1].arg = i /\ t[1].cmd = "CMGR" /\ t[1].arg = i
    BY <2>2, <2>3 DEF Cmd
  <2>5. IsTask(u)
    BY <2>2 DEF IsTask, IsRead
  <2>6. ~IsInit(u)
    BY <2>3, <2>4, NoInit, OtherNames
  <2> QED BY <2>2, <2>3, <2>4, <2>5, <2>6 DEF Follows
<1>5. CASE IsCcwa(t)
  <2>1. PICK v \in CcwaSettings : t = <<Cmd("CCWA_SET", v), Cmd("CCWA_STATUS", None)>>
    BY <1>5, Single DEF IsCcwa
  <2>2. u = <<Cmd("CCWA_STATUS", None)>> /\ Len(t) = 2
    BY <1>0, <2>1, Pair
  <2>3. u[1] = Cmd("CCWA_STATUS", None) /\ Len(u) = 1 /\ u # <<>>
    BY <2>2, Single
  <2>4. u[1].cmd = "CCWA_STATUS"
    BY <2>3 DEF Cmd
  <2>5. IsTask(u)
    BY <2>2 DEF IsTask, IsCcwa
  <2>6. ~IsInit(u)
    BY <2>3, <2>4, NoInit, OtherNames
  <2> QED BY <2>2, <2>3, <2>4, <2>5, <2>6 DEF Follows
<1> QED BY <1>1, <1>2, <1>3, <1>4, <1>5 DEF IsTask

(* Behind its first command, a task has no command of a message, of call   *)
(* waiting or of reading that the first one does not tell of.              *)
LEMMA MessageFirst ==
  ASSUME NEW t, IsTask(t), NEW j \in DOMAIN t, t[j].cmd \in MsgCmds
  PROVE  t[1].cmd \in MsgCmds
<1>1. CASE IsInit(t)
  <2>1. t[j] \in PlainCmd BY <1>1 DEF IsInit
  <2> QED BY <2>1, OtherNames DEF PlainCmd, MsgCmds
<1>2. CASE IsSms(t)
  <2>1. PICK m \in Sms : t \in {<<Cmd("CMGS", m), Cmd("SMSTEXT", m)>>, <<Cmd("SMSTEXT", m)>>}
    BY <1>2 DEF IsSms
  <2>2. t[1] \in {Cmd("CMGS", m), Cmd("SMSTEXT", m)}
    BY <2>1, Single, Pair
  <2> QED BY <2>2 DEF Cmd, MsgCmds
<1>3. CASE IsUssd(t)
  <2>1. PICK m \in Ussd : t = <<Cmd("CUSD", m)>>
    BY <1>3 DEF IsUssd
  <2> QED BY <2>1, Single DEF Cmd, MsgCmds
<1>4. CASE IsRead(t)
  <2>1. PICK i \in Slots :
          t \in {<<Cmd("CMGR", i), Cmd("CMGD", i)>>, <<Cmd("CMGR", i)>>, <<Cmd("CMGD", i)>>}
    BY <1>4 DEF IsRead
  <2>2. t[j] \in {Cmd("CMGR", i), Cmd("CMGD", i)}
    BY <2>1
  <2> QED BY <2>2 DEF Cmd, MsgCmds
<1>5. CASE IsCcwa(t)
  <2>1. PICK v \in CcwaSettings :
          t \in {<<Cmd("CCWA_SET", v), Cmd("CCWA_STATUS", None)>>, <<Cmd("CCWA_STATUS", None)>>}
    BY <1>5 DEF IsCcwa
  <2>2. t[j] \in {Cmd("CCWA_SET", v), Cmd("CCWA_STATUS", None)}
    BY <2>1
  <2> QED BY <2>2 DEF Cmd, MsgCmds
<1> QED BY <1>1, <1>2, <1>3, <1>4, <1>5 DEF IsTask

(* and the commands of the initialization are only there *)
LEMMA InitNamesFirst ==
  ASSUME NEW t, IsTask(t), t[1].cmd \in InitNames
  PROVE  IsInit(t)
<1>1. CASE IsSms(t)
  <2>1. PICK m \in Sms : t \in {<<Cmd("CMGS", m), Cmd("SMSTEXT", m)>>, <<Cmd("SMSTEXT", m)>>}
    BY <1>1 DEF IsSms
  <2>2. t[1] \in {Cmd("CMGS", m), Cmd("SMSTEXT", m)}
    BY <2>1, Single, Pair
  <2> QED BY <2>2, OtherNames DEF Cmd
<1>2. CASE IsUssd(t)
  <2>1. PICK m \in Ussd : t = <<Cmd("CUSD", m)>>
    BY <1>2 DEF IsUssd
  <2> QED BY <2>1, Single, OtherNames DEF Cmd
<1>3. CASE IsRead(t)
  <2>1. PICK i \in Slots :
          t \in {<<Cmd("CMGR", i), Cmd("CMGD", i)>>, <<Cmd("CMGR", i)>>, <<Cmd("CMGD", i)>>}
    BY <1>3 DEF IsRead
  <2>2. t[1] \in {Cmd("CMGR", i), Cmd("CMGD", i)}
    BY <2>1, Single, Pair
  <2> QED BY <2>2, OtherNames DEF Cmd
<1>4. CASE IsCcwa(t)
  <2>1. PICK v \in CcwaSettings :
          t \in {<<Cmd("CCWA_SET", v), Cmd("CCWA_STATUS", None)>>, <<Cmd("CCWA_STATUS", None)>>}
    BY <1>4 DEF IsCcwa
  <2>2. t[1] \in {Cmd("CCWA_SET", v), Cmd("CCWA_STATUS", None)}
    BY <2>1, Single, Pair
  <2> QED BY <2>2, OtherNames DEF Cmd
<1> QED BY <1>1, <1>2, <1>3, <1>4 DEF IsTask

-----------------------------------------------------------------------------
(* The lists the driver queues.                                            *)

LEMMA WantedType ==
  ASSUME NEW N, NEW cmd \in N, NEW wanted \in BOOLEAN
  PROVE  Wanted(wanted, cmd) \in Seq(N)
<1>1. CASE wanted BY <1>1 DEF Wanted
<1>2. CASE ~wanted BY <1>2, EmptySeq DEF Wanted
<1> QED BY <1>1, <1>2

LEMMA PrefaceType ==
  ASSUME conf \in Shared
  PROVE  Preface \in Seq({"AT", "Z", "E", "U2DIAG"}) /\ Len(Preface) \in Nat
<1> DEFINE N == {"AT", "Z", "E", "U2DIAG"}
<1>1. <<"AT">> \in Seq(N) /\ <<"E">> \in Seq(N)
  OBVIOUS
<1>2. Wanted(conf.resetdongle, "Z") \in Seq(N) /\ Wanted(conf.u2diag, "U2DIAG") \in Seq(N)
  BY WantedType DEF Shared
<1>3. <<"AT">> \o Wanted(conf.resetdongle, "Z") \in Seq(N)
  BY <1>1, <1>2, ConcatProperties
<1>4. <<"AT">> \o Wanted(conf.resetdongle, "Z") \o <<"E">> \in Seq(N)
  BY <1>1, <1>3, ConcatProperties
<1>5. Preface \in Seq(N)
  BY <1>2, <1>4, ConcatProperties DEF Preface
<1> QED BY <1>5, LenProperties

LEMMA SetupType ==
  /\ Setup \in Seq(InitNames) /\ Len(Setup) = 19
  /\ \A j \in 1 .. 19 : Aligned(Setup[j], 19 - j)
<1>1. Len(Setup) = 19 /\ DOMAIN Setup = 1 .. 19
  BY DEF Setup
<1>2. \A j \in 1 .. 19 : Setup[j] \in InitNames
  BY <1>1 DEF InitNames
<1>3. Setup \in Seq(InitNames)
  <2>1. Setup = [j \in 1 .. 19 |-> Setup[j]] BY DEF Setup
  <2> QED BY <1>2, <2>1, SeqDef
<1>4. ASSUME NEW j \in 1 .. 19 PROVE Aligned(Setup[j], 19 - j)
  BY DEF Setup, Aligned
<1> QED BY <1>1, <1>3, <1>4

LEMMA SettingsNamed == Settings \cup {"AT", "COPS"} \subseteq InitNames
<1>1. DOMAIN Setup = 1 .. 19
  BY SetupType
<1>2. Setup[12] \in InitNames /\ Setup[15] \in InitNames /\ Setup[17] \in InitNames /\ Setup[18] \in InitNames
  BY <1>1 DEF InitNames
<1>3. Setup[12] = "CVOICE" /\ Setup[15] = "CMGF" /\ Setup[17] = "CPMS" /\ Setup[18] = "CNMI"
  BY DEF Setup
<1>4. {"AT", "COPS"} \subseteq InitNames
  BY DEF InitNames
<1> QED BY <1>2, <1>3, <1>4 DEF Settings

(* names of commands are an initialization when they end as Setup does *)
LEMMA InitTask ==
  ASSUME NEW l \in Seq(InitNames), l # <<>>,
         \A j \in 1 .. Len(l) : Aligned(l[j], Len(l) - j)
  PROVE  /\ IsInit([i \in DOMAIN l |-> Cmd(l[i], None)])
         /\ Len([i \in DOMAIN l |-> Cmd(l[i], None)]) = Len(l)
<1>0. SUFFICES ASSUME NEW t, t = [i \in DOMAIN l |-> Cmd(l[i], None)]
               PROVE  IsInit(t) /\ Len(t) = Len(l)
  OBVIOUS
<1>1. DOMAIN l = 1 .. Len(l) /\ Len(l) \in Nat \ {0} /\ \A j \in 1 .. Len(l) : l[j] \in InitNames
  BY EmptySeq
<1>2. \A j \in 1 .. Len(l) : Cmd(l[j], None) \in PlainCmd /\ Cmd(l[j], None).cmd = l[j]
  BY <1>1 DEF PlainCmd, Cmd
<1>3. t \in [1 .. Len(l) -> PlainCmd] /\ \A j \in 1 .. Len(l) : t[j] = Cmd(l[j], None)
  BY <1>0, <1>1, <1>2
<1>4. t \in Seq(PlainCmd)
  BY <1>1, <1>3, SeqDef
<1>5. DOMAIN t = 1 .. Len(l) /\ DOMAIN t = 1 .. Len(t) /\ Len(t) \in Nat
  BY <1>3, <1>4, LenProperties
<1>6. Len(t) = Len(l) /\ t # <<>>
  BY <1>1, <1>5
<1>7. \A j \in DOMAIN t : Aligned(t[j].cmd, Len(t) - j)
  BY <1>2, <1>3, <1>5, <1>6
<1> QED BY <1>4, <1>6, <1>7 DEF IsInit

LEMMA WholeList ==
  ASSUME conf \in Shared
  PROVE  /\ IsInit([i \in DOMAIN InitCmds("AT") |-> Cmd(InitCmds("AT")[i], None)])
         /\ Len([i \in DOMAIN InitCmds("AT") |-> Cmd(InitCmds("AT")[i], None)]) >= 19
<1>0. PICK p : p = Preface
  OBVIOUS
<1>1. PICK l : l = p \o Setup
  OBVIOUS
<1>2. {"AT", "Z", "E", "U2DIAG"} \subseteq InitNames
  BY DEF InitNames
<1>3. Len(p) \in Nat /\ p \in Seq(InitNames) /\ \A j \in 1 .. Len(p) : p[j] \in {"AT", "Z", "E", "U2DIAG"}
  BY <1>0, <1>2, PrefaceType, SeqMonotonic, ElementOfSeq
<1>4. /\ l \in Seq(InitNames) /\ Len(l) = Len(p) + 19
      /\ \A j \in 1 .. Len(p) + 19 : l[j] = IF j <= Len(p) THEN p[j] ELSE Setup[j - Len(p)]
  <2>1. Setup \in Seq(InitNames) /\ Len(Setup) = 19
    BY SetupType
  <2>2. /\ p \o Setup \in Seq(InitNames) /\ Len(p \o Setup) = Len(p) + Len(Setup)
        /\ \A j \in 1 .. Len(p) + Len(Setup) :
             (p \o Setup)[j] = IF j <= Len(p) THEN p[j] ELSE Setup[j - Len(p)]
    BY <1>3, <2>1, ConcatProperties
  <2> QED BY <1>1, <2>1, <2>2
<1>5. ASSUME NEW j \in 1 .. Len(l)
      PROVE  Aligned(l[j], Len(l) - j)
  <2>1. CASE j <= Len(p)
    <3>1. l[j] \in {"AT", "Z", "E", "U2DIAG"} /\ Len(l) - j >= 19
      BY <1>3, <1>4, <2>1
    <3> QED BY <1>3, <1>4, <3>1 DEF Aligned
  <2>2. CASE j > Len(p)
    <3>0. j \in 1 .. Len(p) + 19 /\ Len(l) = Len(p) + 19
      BY <1>4
    <3>1. l[j] = Setup[j - Len(p)]
      BY <1>3, <1>4, <2>2, <3>0
    <3>2. j - Len(p) \in 1 .. 19 /\ Len(l) - j = 19 - (j - Len(p))
      BY <1>3, <2>2, <3>0, SMTT(30)
    <3> QED BY <1>3, <3>1, <3>2, SetupType
  <2> QED BY <1>3, <1>4, <2>1, <2>2
<1>6. l # <<>> /\ Len(l) >= 19
  BY <1>3, <1>4
<1>7. InitCmds("AT") = l
  BY <1>0, <1>1 DEF InitCmds
<1> QED BY <1>4, <1>5, <1>6, <1>7, InitTask

LEMMA RestOfList ==
  /\ IsInit([i \in DOMAIN InitCmds("CMGF") |-> Cmd(InitCmds("CMGF")[i], None)])
  /\ Len([i \in DOMAIN InitCmds("CMGF") |-> Cmd(InitCmds("CMGF")[i], None)]) = 5
<1>0. PICK l : l = SubSeq(Setup, 15, 19)
  OBVIOUS
<1>1. InitCmds("CMGF") = l
  <2>1. (CHOOSE i \in DOMAIN Setup : Setup[i] = "CMGF") = 15
    BY SetupType DEF Aligned
  <2> QED BY <1>0, <2>1, SetupType DEF InitCmds
<1>2. l \in Seq(InitNames) /\ Len(l) = 5 /\ \A j \in 1 .. 5 : l[j] = Setup[j + 14]
  <2>1. \A j \in 15 .. 19 : Setup[j] \in InitNames
    <3>1. \A j \in 1 .. 19 : Setup[j] \in InitNames
      BY SetupType, ElementOfSeq
    <3> QED BY <3>1
  <2>2. /\ SubSeq(Setup, 15, 19) \in Seq(InitNames)
        /\ Len(SubSeq(Setup, 15, 19)) = 5
        /\ \A j \in 1 .. 19 - 15 + 1 : SubSeq(Setup, 15, 19)[j] = Setup[15 + j - 1]
    BY <2>1, SubSeqProperties, 15 \in Int, 19 \in Int
  <2>3. \A j \in 1 .. 5 : 15 + j - 1 = j + 14 /\ j \in 1 .. 19 - 15 + 1
    OBVIOUS
  <2> QED BY <1>0, <2>2, <2>3
<1>3. ASSUME NEW j \in 1 .. Len(l)
      PROVE  Aligned(l[j], Len(l) - j)
  <2>1. j + 14 \in 1 .. 19 /\ l[j] = Setup[j + 14] /\ Len(l) - j = 19 - (j + 14)
    BY <1>2
  <2> QED BY <1>2, <2>1, SetupType
<1>4. l # <<>>
  BY <1>2, Len(<<>>) = 0, 5 # 0
<1> QED BY <1>1, <1>2, <1>3, <1>4, InitTask

-----------------------------------------------------------------------------
(* The queue, when the modem accepted the commands acc on this connection. *)

(* what must have been accepted before the task gets to its command *)
TaskOK(t, acc) ==
  /\ IsInit(t) /\ Len(t) >= 2 => /\ Len(t) < 5 => "CMGF" \in acc
                                 /\ Len(t) < 3 => "CPMS" \in acc
  /\ t[1].cmd \in MsgCmds => "CMGF" \in acc

(* only the first task can be at its deletion or text, or before the       *)
(* answer to CVOICE                                                        *)
HeadOnly(t) == Len(t) >= 8 \/ t[1].cmd \in {"CMGD", "SMSTEXT"}

QueueOK(q, acc) ==
  /\ q \in Seq(Task)
  /\ \A i \in 1 .. Len(q) : IsTask(q[i]) /\ TaskOK(q[i], acc) /\ (HeadOnly(q[i]) => i = 1)

LEMMA QueueEmpty == ASSUME NEW acc PROVE QueueOK(<<>>, acc)
BY EmptySeq DEF QueueOK

LEMMA QueueMore ==
  ASSUME NEW q, NEW acc, NEW more, QueueOK(q, acc), acc \subseteq more
  PROVE  QueueOK(q, more)
BY DEF QueueOK, TaskOK

LEMMA QueueAppend ==
  ASSUME NEW q, NEW acc, NEW t, QueueOK(q, acc), IsTask(t), TaskOK(t, acc), HeadOnly(t) => q = <<>>
  PROVE  /\ QueueOK(Append(q, t), acc)
         /\ Len(Append(q, t)) = Len(q) + 1 /\ Len(q) \in Nat /\ Append(q, t) # <<>>
         /\ \A i \in 1 .. Len(q) : Append(q, t)[i] = q[i]
         /\ Append(q, t)[Len(q) + 1] = t
<1>0. PICK a : a = Append(q, t)
  OBVIOUS
<1>1. q \in Seq(Task) /\ t \in Task /\ Len(q) \in Nat
  BY TaskType DEF QueueOK
<1>2. /\ a \in Seq(Task) /\ Len(a) = Len(q) + 1 /\ a # <<>>
      /\ \A i \in 1 .. Len(q) : a[i] = q[i]
      /\ a[Len(q) + 1] = t
  BY <1>0, <1>1, AppendProperties
<1>3. ASSUME NEW i \in 1 .. Len(a)
      PROVE  IsTask(a[i]) /\ TaskOK(a[i], acc) /\ (HeadOnly(a[i]) => i = 1)
  <2>1. CASE i \in 1 .. Len(q)
    BY <1>2, <2>1 DEF QueueOK
  <2>2. CASE i = Len(q) + 1
    BY <1>1, <1>2, <2>2, Len(<<>>) = 0
  <2> QED BY <1>1, <1>2, <2>1, <2>2
<1> QED BY <1>0, <1>1, <1>2, <1>3 DEF QueueOK

(* the command at the head is done with, and its task ends ... *)
LEMMA QueueDrop ==
  ASSUME NEW q, NEW acc, QueueOK(q, acc), q # <<>>
  PROVE  /\ QueueOK(Tail(q), acc)
         /\ Len(Tail(q)) = Len(q) - 1 /\ Len(q) \in Nat \ {0}
         /\ \A i \in 1 .. Len(Tail(q)) : Tail(q)[i] = q[i + 1] /\ ~HeadOnly(Tail(q)[i])
<1>0. PICK a : a = Tail(q)
  OBVIOUS
<1>1. q \in Seq(Task) /\ Len(q) \in Nat \ {0}
  BY EmptySeq DEF QueueOK
<1>2. a \in Seq(Task) /\ Len(a) = Len(q) - 1 /\ \A i \in 1 .. Len(a) : a[i] = q[i + 1]
  BY <1>0, <1>1, HeadTailProperties
<1>3. \A i \in 1 .. Len(a) : i + 1 \in 1 .. Len(q) /\ i + 1 # 1
  BY <1>1, <1>2
<1>4. \A i \in 1 .. Len(a) : IsTask(a[i]) /\ TaskOK(a[i], acc) /\ ~HeadOnly(a[i])
  BY <1>2, <1>3 DEF QueueOK
<1> QED BY <1>0, <1>1, <1>2, <1>4 DEF QueueOK

(* ... or goes on *)
Advanced(q) == <<Tail(Head(q))>> \o Tail(q)

LEMMA QueueAdvance ==
  ASSUME NEW q, NEW acc, QueueOK(q, acc), q # <<>>, Len(q[1]) # 1, TaskOK(Tail(q[1]), acc)
  PROVE  /\ QueueOK(Advanced(q), acc)
         /\ Len(Advanced(q)) = Len(q) /\ Len(q) \in Nat \ {0} /\ Advanced(q) # <<>>
         /\ Advanced(q)[1] = Tail(q[1])
         /\ \A i \in 2 .. Len(q) : Advanced(q)[i] = q[i] /\ ~HeadOnly(q[i])
         /\ Follows(q[1], Tail(q[1]))
<1>0. PICK a, b, u : a = Advanced(q) /\ b = Tail(q) /\ u = Tail(q[1])
  OBVIOUS
<1>1. /\ QueueOK(b, acc) /\ Len(b) = Len(q) - 1 /\ Len(q) \in Nat \ {0}
      /\ \A i \in 1 .. Len(b) : b[i] = q[i + 1] /\ ~HeadOnly(b[i])
  BY <1>0, QueueDrop
<1>2. IsTask(q[1]) /\ Head(q) = q[1]
  BY <1>1 DEF QueueOK
<1>3. Follows(q[1], u) /\ IsTask(u) /\ u \in Task
  BY <1>0, <1>2, TaskTail, TaskType DEF Follows
<1>4. a = <<u>> \o b /\ <<u>> \in Seq(Task) /\ Len(<<u>>) = 1 /\ <<u>>[1] = u /\ b \in Seq(Task)
  BY <1>0, <1>1, <1>2, <1>3 DEF Advanced, QueueOK
<1>5. /\ a \in Seq(Task) /\ Len(a) = 1 + Len(b)
      /\ \A i \in 1 .. 1 + Len(b) : a[i] = IF i <= 1 THEN <<u>>[i] ELSE b[i - 1]
  BY <1>4, ConcatProperties
<1>6. Len(a) = Len(q) /\ a[1] = u
  BY <1>1, <1>4, <1>5
<1>7. \A i \in 2 .. Len(q) : a[i] = q[i] /\ ~HeadOnly(q[i])
  <2> SUFFICES ASSUME NEW i \in 2 .. Len(q) PROVE a[i] = q[i] /\ ~HeadOnly(q[i])
    OBVIOUS
  <2>1. i - 1 \in 1 .. Len(b) /\ i - 1 + 1 = i /\ ~(i <= 1) /\ i \in 1 .. 1 + Len(b)
    BY <1>1
  <2> QED BY <1>1, <1>5, <2>1
<1>8. ASSUME NEW i \in 1 .. Len(a)
      PROVE  IsTask(a[i]) /\ TaskOK(a[i], acc) /\ (HeadOnly(a[i]) => i = 1)
  <2>1. CASE i = 1
    BY <1>0, <1>3, <1>6, <2>1
  <2>2. CASE i \in 2 .. Len(q)
    BY <1>7, <1>1, <2>2 DEF QueueOK
  <2> QED BY <1>1, <1>6, <2>1, <2>2
<1>9. a # <<>>
  BY <1>1, <1>6, Len(<<>>) = 0
<1> QED BY <1>0, <1>1, <1>3, <1>5, <1>6, <1>7, <1>8, <1>9 DEF QueueOK

-----------------------------------------------------------------------------
(* The invariant of a connection, of the driver's record r, the flag ex,   *)
(* the results ib, the settings acc the modem accepted and the messages    *)
(* got it sent.                                                            *)

(* no results and nothing executed while the device is down *)
Idle(r) == /\ r.queue = <<>> /\ ~r.initialized /\ ~r.has_voice /\ ~r.has_sms
           /\ ~r.registered /\ ~r.incoming
Calm(r, ex, ib) ==
  /\ ~r.up => Idle(r) /\ ~ex /\ ib = <<>>
  /\ ex => r.queue # <<>>

(* the results that answer a command *)
Final(m) == m.type \in {"OK", "ERROR", "PROMPT", "CMGR"}

(* An answer belongs to the command at the head and tells what became of   *)
(* it.                                                                     *)
Honest(m, c, acc, got) ==
  /\ m.type = "OK" => /\ c.cmd \in Settings => c.cmd \in acc
                      /\ c.cmd \in {"SMSTEXT", "CUSD"} => c.arg \in got
  /\ m.type = "ERROR" => (c.cmd = "CVOICE" => "CVOICE" \notin acc)
  /\ m.type = "PROMPT" => c.cmd = "CMGS"
  /\ m.type = "CMGR" => c.cmd = "CMGR" /\ m.arg = c.arg

(* There is at most one answer, and only to a command that was executed. *)
Answers(r, ex, ib, acc, got) ==
  /\ ib \in Seq(Results)
  /\ \A i \in 1 .. Len(ib) : Final(ib[i]) =>
       /\ ex /\ Honest(ib[i], r.queue[1][1], acc, got)
       /\ \A j \in 1 .. Len(ib) : Final(ib[j]) => i = j

(* has_voice is what the modem said, once it was asked; and a device that  *)
(* is ready has been through the list                                      *)
Long(q) == q # <<>> /\ Len(q[1]) >= 8
Progress(r, ex, acc) ==
  /\ Long(r.queue) => /\ ~r.has_voice /\ ~r.initialized
                      /\ "CVOICE" \in acc => ex /\ Len(r.queue[1]) = 8
  /\ ~Long(r.queue) /\ r.up => (r.has_voice <=> "CVOICE" \in acc)
  /\ r.initialized => {"CMGF", "CPMS", "CNMI"} \subseteq acc /\ r.has_sms

Core(r, ex, ib, acc, got) ==
  /\ r \in Driver /\ ex \in BOOLEAN /\ QueueOK(r.queue, acc)
  /\ Calm(r, ex, ib) /\ Answers(r, ex, ib, acc, got) /\ Progress(r, ex, acc)

IInv ==
  /\ conf \in Shared /\ net \in Net
  /\ report \in [Msgs -> {"none", "queued", "Sent", "NotSent"}]
  /\ Core(s, executed, inbox, net.accepted, net.got)

LEMMA HeadTask ==
  ASSUME NEW q, NEW acc, QueueOK(q, acc), q # <<>>
  PROVE  /\ IsTask(q[1]) /\ TaskOK(q[1], acc) /\ Head(q) = q[1] /\ Len(q) \in Nat \ {0}
         /\ q[1] \in Task /\ Len(q[1]) \in Nat \ {0}
         /\ Head(q[1]) = q[1][1] /\ q[1][1] \in Entry /\ 1 \in DOMAIN q[1]
<1>1. q \in Seq(Task) /\ Len(q) \in Nat \ {0}
  BY EmptySeq DEF QueueOK
<1>2. IsTask(q[1]) /\ TaskOK(q[1], acc)
  BY <1>1 DEF QueueOK
<1>3. q[1] \in Task /\ Len(q[1]) \in Nat \ {0} /\ q[1] # <<>>
  BY <1>2, TaskType
<1>4. q[1][1] \in Entry /\ Head(q[1]) = q[1][1] /\ 1 \in DOMAIN q[1]
  BY <1>3 DEF Task
<1> QED BY <1>1, <1>2, <1>3, <1>4

(* flags that the invariant does not speak of *)
LEMMA CoreFlags ==
  ASSUME NEW r, NEW ex, NEW ib, NEW acc, NEW got, Core(r, ex, ib, acc, got),
         NEW f \in Driver, f.up = r.up, f.queue = r.queue, f.has_voice = r.has_voice,
         f.has_sms = r.has_sms, f.initialized = r.initialized, r.up \/ Idle(f)
  PROVE  Core(f, ex, ib, acc, got)
BY DEF Core, Calm, Answers, Progress

LEMMA CoreDown ==
  ASSUME NEW restart \in {"none", "gracefully", "convenient", "now"}, NEW acc, NEW got
  PROVE  Core(Down(restart), FALSE, <<>>, acc, got)
<1>0. PICK d : d = Down(restart)
  OBVIOUS
<1>1. d \in Driver /\ ~d.up /\ d.queue = <<>> /\ ~d.initialized /\ Idle(d)
  BY <1>0, EmptySeq DEF Down, Driver, Idle
<1>2. QueueOK(<<>>, acc)
  BY QueueEmpty
<1>3. <<>> \in Seq(Results) /\ Len(<<>>) = 0
  BY EmptySeq
<1> QED BY <1>0, <1>1, <1>2, <1>3 DEF Core, Calm, Answers, Progress, Long

LEMMA CoreEnque ==
  ASSUME NEW r, NEW ex, NEW ib, NEW acc, NEW got, Core(r, ex, ib, acc, got), r.up,
         NEW t, IsTask(t), TaskOK(t, acc), ~HeadOnly(t)
  PROVE  Core(Enque(r, t), ex, ib, acc, got) /\ Enque(r, t).up
<1>0. PICK f, a : f = Enque(r, t) /\ a = Append(r.queue, t)
  OBVIOUS
<1>1. /\ QueueOK(a, acc) /\ Len(a) = Len(r.queue) + 1 /\ Len(r.queue) \in Nat /\ a # <<>>
      /\ \A i \in 1 .. Len(r.queue) : a[i] = r.queue[i]
      /\ a[Len(r.queue) + 1] = t
  BY <1>0, QueueAppend DEF Core
<1>2. f = [r EXCEPT !.queue = a] /\ r \in Driver /\ a \in Seq(Task)
  BY <1>0, <1>1 DEF Enque, Core, QueueOK
<1>3. /\ f \in Driver /\ f.queue = a /\ f.up = r.up /\ f.has_voice = r.has_voice
      /\ f.has_sms = r.has_sms /\ f.initialized = r.initialized
  BY <1>2 DEF Driver, Task, Entry
<1>4. CASE r.queue = <<>>
  <2>1. ~ex /\ a[1] = t /\ ~Long(a) /\ ~Long(r.queue)
    BY <1>1, <1>4, Len(<<>>) = 0 DEF Core, Calm, Long, HeadOnly
  <2> QED BY <1>0, <1>1, <1>3, <2>1 DEF Core, Calm, Answers, Progress
<1>5. CASE r.queue # <<>>
  <2>1. Len(r.queue) \in Nat \ {0}
    BY <1>5, HeadTask DEF Core
  <2>2. a[1] = r.queue[1] /\ (Long(a) <=> Long(r.queue))
    BY <1>1, <1>5, <2>1 DEF Long
  <2> QED BY <1>0, <1>1, <1>3, <2>2 DEF Core, Calm, Answers, Progress
<1> QED BY <1>4, <1>5

LEMMA InboxTail ==
  ASSUME NEW ib \in Seq(Results), ib # <<>>
  PROVE  /\ Tail(ib) \in Seq(Results) /\ Head(ib) = ib[1] /\ ib[1] \in Results
         /\ Len(ib) \in Nat \ {0} /\ Len(Tail(ib)) = Len(ib) - 1
         /\ \A i \in 1 .. Len(Tail(ib)) : Tail(ib)[i] = ib[i + 1] /\ i + 1 \in 1 .. Len(ib) /\ i + 1 # 1
         /\ 1 \in 1 .. Len(ib)
<1>1. Len(ib) \in Nat \ {0} /\ Head(ib) = ib[1] /\ ib[1] \in Results
  BY EmptySeq
<1>2. /\ Tail(ib) \in Seq(Results) /\ Len(Tail(ib)) = Len(ib) - 1
      /\ \A i \in 1 .. Len(Tail(ib)) : Tail(ib)[i] = ib[i + 1]
  BY HeadTailProperties
<1>3. \A i \in 1 .. Len(Tail(ib)) : i + 1 \in 1 .. Len(ib) /\ i + 1 # 1
  BY <1>1, <1>2
<1> QED BY <1>1, <1>2, <1>3

(* a result was handled that answers nothing, or an OK for the prompt *)
LEMMA CoreRead ==
  ASSUME NEW r, NEW ex, NEW ib, NEW acc, NEW got, Core(r, ex, ib, acc, got), ib # <<>>
  PROVE  Core(r, ex, Tail(ib), acc, got)
<1>0. PICK b : b = Tail(ib)
  OBVIOUS
<1>1. /\ b \in Seq(Results) /\ Len(b) \in Nat
      /\ \A i \in 1 .. Len(b) : b[i] = ib[i + 1] /\ i + 1 \in 1 .. Len(ib)
  BY <1>0, InboxTail DEF Core, Answers
<1>2. Answers(r, ex, b, acc, got)
  <2> SUFFICES ASSUME NEW i \in 1 .. Len(b), Final(b[i])
               PROVE  /\ ex /\ Honest(b[i], r.queue[1][1], acc, got)
                      /\ \A j \in 1 .. Len(b) : Final(b[j]) => i = j
    BY <1>1 DEF Answers
  <2>1. ex /\ Honest(b[i], r.queue[1][1], acc, got)
    BY <1>1 DEF Core, Answers
  <2>2. ASSUME NEW j \in 1 .. Len(b), Final(b[j]) PROVE i = j
    <3>1. i + 1 = j + 1
      BY <1>1, <2>2 DEF Core, Answers
    <3> QED BY <1>1, <3>1
  <2> QED BY <2>1, <2>2
<1>3. Calm(r, ex, b)
  BY DEF Core, Calm
<1> QED BY <1>0, <1>2, <1>3 DEF Core

(* the answer was handled: its command left the queue *)
LEMMA CoreAnswered ==
  ASSUME NEW r, NEW ex, NEW ib, NEW acc, NEW got, Core(r, ex, ib, acc, got),
         ib # <<>>, Final(Head(ib)),
         NEW f \in Driver, f.up, QueueOK(f.queue, acc), Progress(f, FALSE, acc)
  PROVE  Core(f, FALSE, Tail(ib), acc, got)
<1>0. PICK b : b = Tail(ib)
  OBVIOUS
<1>1. /\ b \in Seq(Results) /\ Len(b) \in Nat /\ Head(ib) = ib[1] /\ 1 \in 1 .. Len(ib)
      /\ \A i \in 1 .. Len(b) : b[i] = ib[i + 1] /\ i + 1 \in 1 .. Len(ib) /\ i + 1 # 1
  BY <1>0, InboxTail DEF Core, Answers
<1>2. \A i \in 1 .. Len(b) : ~Final(b[i])
  BY <1>1 DEF Core, Answers
<1> QED BY <1>0, <1>1, <1>2 DEF Core, Calm, Answers

(* what the driver knows when it handles an answer *)
LEMMA CoreHead ==
  ASSUME NEW r, NEW ex, NEW ib, NEW acc, NEW got, Core(r, ex, ib, acc, got), ib # <<>>
  PROVE  /\ r.up /\ Head(ib) \in Results
         /\ Final(Head(ib)) => /\ ex /\ r.queue # <<>> /\ Current(r) = r.queue[1][1]
                               /\ Honest(Head(ib), Current(r), acc, got)
<1>1. Head(ib) = ib[1] /\ 1 \in 1 .. Len(ib) /\ ib[1] \in Results
  BY InboxTail DEF Core, Answers
<1>2. r.up
  BY DEF Core, Calm
<1>3. ASSUME Final(Head(ib))
      PROVE  /\ ex /\ r.queue # <<>> /\ Current(r) = r.queue[1][1]
             /\ Honest(Head(ib), Current(r), acc, got)
  <2>1. ex /\ Honest(Head(ib), r.queue[1][1], acc, got)
    BY <1>1, <1>3 DEF Core, Answers
  <2>2. r.queue # <<>>
    BY <2>1 DEF Core, Calm
  <2>3. Current(r) = r.queue[1][1]
    BY <2>2, HeadTask DEF Core, Current
  <2> QED BY <2>1, <2>2, <2>3
<1> QED BY <1>1, <1>2, <1>3

LEMMA InboxAppend ==
  ASSUME NEW ib \in Seq(Results), NEW m \in Results
  PROVE  /\ Append(ib, m) \in Seq(Results) /\ Len(Append(ib, m)) = Len(ib) + 1 /\ Len(ib) \in Nat
         /\ \A i \in 1 .. Len(ib) : Append(ib, m)[i] = ib[i]
         /\ Append(ib, m)[Len(ib) + 1] = m
         /\ \A i \in 1 .. Len(Append(ib, m)) : i \in 1 .. Len(ib) \/ i = Len(ib) + 1
<1>1. Len(ib) \in Nat
  OBVIOUS
<1> QED BY <1>1, AppendProperties

(* the modem said something of its own accord *)
LEMMA CoreTold ==
  ASSUME NEW r, NEW ex, NEW ib, NEW acc, NEW got, Core(r, ex, ib, acc, got), r.up,
         NEW m \in Results, ~Final(m)
  PROVE  Core(r, ex, Append(ib, m), acc, got)
<1>0. PICK b : b = Append(ib, m)
  OBVIOUS
<1>1. /\ b \in Seq(Results)
      /\ \A i \in 1 .. Len(b) : (i \in 1 .. Len(ib) /\ b[i] = ib[i]) \/ b[i] = m
  BY <1>0, InboxAppend DEF Core, Answers
<1>2. Answers(r, ex, b, acc, got)
  BY <1>1 DEF Core, Answers
<1> QED BY <1>0, <1>2 DEF Core, Calm

(* the modem answered the command at the head *)
LEMMA CoreExecuted ==
  ASSUME NEW r, NEW ib, NEW acc, NEW got, Core(r, FALSE, ib, acc, got), r.up, r.queue # <<>>,
         NEW m \in Results, NEW more, NEW sent,
         acc \subseteq more, more \subseteq acc \cup {Current(r).cmd},
         Honest(m, Current(r), more, sent)
  PROVE  Core(r, TRUE, Append(ib, m), more, sent)
<1>0. PICK b, t, c : b = Append(ib, m) /\ t = r.queue[1] /\ c = t[1]
  OBVIOUS
<1>1. /\ b \in Seq(Results) /\ Len(ib) \in Nat /\ Len(b) = Len(ib) + 1 /\ b[Len(ib) + 1] = m
      /\ \A i \in 1 .. Len(b) : i \in 1 .. Len(ib) \/ i = Len(ib) + 1
      /\ \A i \in 1 .. Len(ib) : b[i] = ib[i]
  BY <1>0, InboxAppend DEF Core, Answers
<1>2. \A i \in 1 .. Len(ib) : ~Final(ib[i])
  BY DEF Core, Answers
<1>3. Current(r) = c /\ IsTask(t) /\ Len(t) \in Nat \ {0} /\ c.cmd \in Commands
  BY <1>0, HeadTask DEF Core, Current, Entry
<1>4. Answers(r, TRUE, b, more, sent)
  BY <1>0, <1>1, <1>2, <1>3 DEF Answers
<1>5. c.cmd = "CVOICE" => IsInit(t) /\ Len(t) = 8
  <2> SUFFICES ASSUME c.cmd = "CVOICE" PROVE IsInit(t) /\ Len(t) = 8
    OBVIOUS
  <2>1. IsInit(t)
    BY <1>0, <1>3, InitNamesFirst, SettingsNamed DEF Settings
  <2>2. 1 \in DOMAIN t /\ Aligned(t[1].cmd, Len(t) - 1)
    BY <1>3, <2>1 DEF IsInit
  <2> QED BY <1>0, <1>3, <2>1, <2>2 DEF Aligned
<1>6. "CVOICE" \in more => "CVOICE" \in acc \/ Len(t) = 8
  BY <1>3, <1>5
<1>7. Progress(r, TRUE, more)
  <2>1. Progress(r, FALSE, acc)
    BY DEF Core
  <2>2. Long(r.queue) <=> Len(t) >= 8
    BY <1>0 DEF Long
  <2>3. Long(r.queue) => /\ ~r.has_voice /\ ~r.initialized
                         /\ "CVOICE" \in more => Len(r.queue[1]) = 8
    BY <1>0, <1>6, <2>1 DEF Progress
  <2>4. ~Long(r.queue) => ("CVOICE" \in more <=> "CVOICE" \in acc)
    <3>1. Len(t) = 8 => Long(r.queue)
      BY <2>2
    <3>2. "CVOICE" \in acc => "CVOICE" \in more
      OBVIOUS
    <3> QED BY <1>6, <3>1, <3>2
  <2>5. acc \subseteq more
    OBVIOUS
  <2> QED BY <2>1, <2>3, <2>4, <2>5 DEF Progress
<1>8. QueueOK(r.queue, more)
  BY QueueMore DEF Core
<1>9. Calm(r, TRUE, b)
  BY DEF Calm
<1> QED BY <1>0, <1>4, <1>7, <1>8, <1>9 DEF Core

-----------------------------------------------------------------------------
(* A command leaves the queue.                                             *)

LEMMA Restate ==
  ASSUME NEW r \in Driver
  PROVE  /\ pvt_try_restate(r) \in Driver
         /\ pvt_try_restate(r) \in {r, [r EXCEPT !.restart = "now"]}
BY DEF pvt_try_restate, Driver

(* the head's task ends *)
Ends(t, res) == Len(t) = 1 \/ (Expected(t[1]) # res /\ ~Ignorable(t[1]))

(* a task goes on only after a command that was accepted *)
Justified(t, res, acc) == Ends(t, res) \/ t[1].cmd \notin Settings \/ t[1].cmd \in acc

LEMMA RemoveIs ==
  ASSUME NEW r \in Driver, NEW acc, QueueOK(r.queue, acc), r.queue # <<>>, NEW res, NEW f,
         f = at_queue_remove_cmd(r, res)
  PROVE  /\ f = [r EXCEPT !.queue = f.queue]
         /\ Ends(r.queue[1], res) => f.queue = Tail(r.queue)
         /\ ~Ends(r.queue[1], res) => Len(r.queue[1]) # 1 /\ f.queue = Advanced(r.queue)
<1>1. Head(r.queue) = r.queue[1] /\ Head(r.queue[1]) = r.queue[1][1]
  BY HeadTask
<1>2. f = IF Ends(r.queue[1], res) THEN [r EXCEPT !.queue = Tail(r.queue)]
                                  ELSE [r EXCEPT !.queue = Advanced(r.queue)]
  BY <1>1 DEF at_queue_remove_cmd, Ends, Advanced
<1> QED BY <1>2 DEF Ends, Driver

LEMMA GoesOn ==
  ASSUME NEW t, NEW acc, IsTask(t), Len(t) # 1, TaskOK(t, acc), t[1].cmd \in Settings => t[1].cmd \in acc
  PROVE  TaskOK(Tail(t), acc)
<1>0. PICK u : u = Tail(t)
  OBVIOUS
<1>1. Follows(t, u) /\ Len(t) \in Nat \ {0} /\ Len(u) = Len(t) - 1 /\ Len(u) \in Nat
  BY <1>0, TaskTail, TaskType DEF Follows
<1>2. ASSUME IsInit(u), Len(u) >= 2
      PROVE  (Len(u) < 5 => "CMGF" \in acc) /\ (Len(u) < 3 => "CPMS" \in acc)
  <2>1. IsInit(t) /\ 1 \in DOMAIN t
    BY <1>1, <1>2 DEF Follows, IsInit
  <2>2. Aligned(t[1].cmd, Len(t) - 1)
    BY <2>1 DEF IsInit
  <2>3. Len(t) = 5 => "CMGF" \in acc
    BY <2>2 DEF Aligned, Settings
  <2>4. Len(t) = 3 => "CPMS" \in acc
    BY <2>2 DEF Aligned, Settings
  <2>5. (Len(t) < 5 => "CMGF" \in acc) /\ (Len(t) < 3 => "CPMS" \in acc)
    BY <1>1, <1>2, <2>1 DEF TaskOK
  <2> QED BY <1>1, <2>3, <2>4, <2>5
<1>3. u[1].cmd \in MsgCmds => "CMGF" \in acc
  BY <1>1 DEF Follows, TaskOK, MsgCmds
<1> QED BY <1>0, <1>2, <1>3 DEF TaskOK

(* the queue after an answer: f is what the handler made of the driver     *)
LEMMA Removed ==
  ASSUME NEW r \in Driver, NEW acc, QueueOK(r.queue, acc), r.queue # <<>>, NEW res,
         Justified(r.queue[1], res, acc),
         NEW f, f = at_queue_remove_cmd(r, res)
  PROVE  /\ f \in Driver /\ f = [r EXCEPT !.queue = f.queue] /\ QueueOK(f.queue, acc)
         /\ Long(f.queue) => ~Ends(r.queue[1], res) /\ Len(r.queue[1]) >= 9
         /\ ~Long(f.queue) => Ends(r.queue[1], res) \/ Len(r.queue[1]) <= 8
<1>1. /\ f = [r EXCEPT !.queue = f.queue]
      /\ Ends(r.queue[1], res) => f.queue = Tail(r.queue)
      /\ ~Ends(r.queue[1], res) => Len(r.queue[1]) # 1 /\ f.queue = Advanced(r.queue)
  BY RemoveIs
<1>2. QueueOK(f.queue, acc) => f \in Driver
  BY <1>1 DEF QueueOK, Driver, Task, Entry
<1>3. IsTask(r.queue[1]) /\ TaskOK(r.queue[1], acc) /\ Len(r.queue[1]) \in Nat \ {0}
  BY HeadTask
<1>4. CASE Ends(r.queue[1], res)
  <2>1. /\ f.queue = Tail(r.queue) /\ QueueOK(f.queue, acc) /\ Len(f.queue) = Len(r.queue) - 1
        /\ \A i \in 1 .. Len(f.queue) : ~HeadOnly(f.queue[i])
    <3>1. /\ QueueOK(Tail(r.queue), acc) /\ Len(Tail(r.queue)) = Len(r.queue) - 1
          /\ \A i \in 1 .. Len(Tail(r.queue)) : ~HeadOnly(Tail(r.queue)[i])
      BY QueueDrop
    <3>2. f.queue = Tail(r.queue)
      BY <1>1, <1>4
    <3> QED BY <3>1, <3>2
  <2>2. f.queue # <<>> => 1 \in 1 .. Len(f.queue)
    BY <2>1, HeadTask
  <2>3. ~Long(f.queue)
    BY <2>1, <2>2 DEF Long, HeadOnly
  <2> QED BY <1>1, <1>2, <1>4, <2>1, <2>3
<1>5. CASE ~Ends(r.queue[1], res)
  <2>1. TaskOK(Tail(r.queue[1]), acc)
    BY <1>1, <1>3, <1>5, GoesOn DEF Justified
  <2>2. /\ QueueOK(f.queue, acc) /\ f.queue # <<>> /\ f.queue[1] = Tail(r.queue[1])
        /\ Len(f.queue[1]) = Len(r.queue[1]) - 1
    <3>1. /\ QueueOK(Advanced(r.queue), acc) /\ Advanced(r.queue) # <<>>
          /\ Advanced(r.queue)[1] = Tail(r.queue[1]) /\ Follows(r.queue[1], Tail(r.queue[1]))
      BY <1>1, <1>5, <2>1, QueueAdvance
    <3>2. f.queue = Advanced(r.queue)
      BY <1>1, <1>5
    <3> QED BY <3>1, <3>2 DEF Follows
  <2>3. Long(f.queue) <=> Len(r.queue[1]) >= 9
    BY <1>3, <2>2 DEF Long
  <2>4. ~Long(f.queue) => Len(r.queue[1]) <= 8
    BY <1>3, <2>3
  <2> QED BY <1>1, <1>2, <1>5, <2>2, <2>3, <2>4
<1> QED BY <1>4, <1>5

(* what is left of the list is behind the answer to CVOICE *)
Behind(t, res) == Ends(t, res) \/ ~(Len(t) >= 9)

LEMMA RemovedLast ==
  ASSUME NEW r \in Driver, NEW acc, QueueOK(r.queue, acc), r.queue # <<>>, NEW res,
         Justified(r.queue[1], res, acc),
         Behind(r.queue[1], res),
         NEW f, f = at_queue_remove_cmd(r, res)
  PROVE  /\ f \in Driver /\ QueueOK(f.queue, acc) /\ ~Long(f.queue)
         /\ f.up = r.up /\ f.has_voice = r.has_voice /\ f.has_sms = r.has_sms
         /\ f.initialized = r.initialized
<1>1. /\ f \in Driver /\ f = [r EXCEPT !.queue = f.queue] /\ QueueOK(f.queue, acc)
      /\ Long(f.queue) => ~Ends(r.queue[1], res) /\ Len(r.queue[1]) >= 9
  BY Removed
<1>3. ~Long(f.queue)
  BY <1>1, Zenon DEF Behind
<1>4. /\ f.up = r.up /\ f.has_voice = r.has_voice /\ f.has_sms = r.has_sms
      /\ f.initialized = r.initialized
  BY <1>1 DEF Driver
<1> QED BY <1>1, <1>3, <1>4

(* where in the list a command of the initialization stands *)
LEMMA Standing ==
  ASSUME NEW t, IsTask(t)
  PROVE  /\ t[1].cmd = "CVOICE" => IsInit(t) /\ Len(t) = 8
         /\ Len(t) = 8 => t[1].cmd = "CVOICE"
         /\ t[1].cmd = "CNMI" => IsInit(t) /\ Len(t) = 2
         /\ Len(t) >= 8 => IsInit(t)
         /\ IsInit(t) => t[1].cmd \in InitNames
<1>1. t[1].cmd \in {"CVOICE", "CNMI"} => IsInit(t)
  BY InitNamesFirst, SettingsNamed DEF Settings
<1>2. IsInit(t) => Len(t) \in Nat /\ Aligned(t[1].cmd, Len(t) - 1) /\ t[1].cmd \in InitNames
  <2> SUFFICES ASSUME IsInit(t)
               PROVE  Len(t) \in Nat /\ Aligned(t[1].cmd, Len(t) - 1) /\ t[1].cmd \in InitNames
    OBVIOUS
  <2>1. t \in Seq(PlainCmd) /\ Len(t) \in Nat \ {0}
    BY EmptySeq DEF IsInit
  <2>2. 1 \in DOMAIN t /\ t[1] \in PlainCmd
    BY <2>1
  <2> QED BY <2>1, <2>2 DEF IsInit, PlainCmd
<1>3. ~IsInit(t) => Len(t) <= 2
  <2>1. CASE IsSms(t)
    BY <2>1, Single, Pair DEF IsSms
  <2>2. CASE IsUssd(t)
    BY <2>2, Single DEF IsUssd
  <2>3. CASE IsRead(t)
    <3>1. PICK i \in Slots :
            t \in {<<Cmd("CMGR", i), Cmd("CMGD", i)>>, <<Cmd("CMGR", i)>>, <<Cmd("CMGD", i)>>}
      BY <2>3 DEF IsRead
    <3>2. CASE Len(t) = 1
      BY <3>2
    <3>3. CASE Len(t) = 2
      BY <3>3
    <3> QED BY <3>1, <3>2, <3>3, Single, Pair
  <2>4. CASE IsCcwa(t)
    <3>1. PICK v \in CcwaSettings :
            t \in {<<Cmd("CCWA_SET", v), Cmd("CCWA_STATUS", None)>>, <<Cmd("CCWA_STATUS", None)>>}
      BY <2>4 DEF IsCcwa
    <3>2. CASE Len(t) = 1
      BY <3>2
    <3>3. CASE Len(t) = 2
      BY <3>3
    <3> QED BY <3>1, <3>2, <3>3, Single, Pair
  <2> QED BY <2>1, <2>2, <2>3, <2>4 DEF IsTask
<1>4. Len(t) \in Nat
  BY TaskType
<1>5. IsInit(t) => (t[1].cmd = "CVOICE" <=> Len(t) = 8) /\ (t[1].cmd = "CNMI" <=> Len(t) = 2)
  BY <1>2, <1>4 DEF Aligned
<1>6. Len(t) >= 8 => IsInit(t)
  BY <1>3, <1>4
<1>7. Len(t) = 8 => t[1].cmd = "CVOICE"
  <2>1. Len(t) = 8 => IsInit(t)
    BY <1>6
  <2> QED BY <1>5, <2>1
<1> QED BY <1>1, <1>2, <1>5, <1>6, <1>7

(* The three answers and what the driver is after each of them. *)
Handled(r, f, acc) == f \in Driver /\ f.up = r.up /\ QueueOK(f.queue, acc) /\ Progress(f, FALSE, acc)

(* an answer to anything but CVOICE and CNMI *)
LEMMA PlainAnswer ==
  ASSUME NEW r, NEW ib, NEW acc, NEW got, Core(r, TRUE, ib, acc, got), NEW res,
         Justified(r.queue[1], res, acc),
         r.queue[1][1].cmd \notin {"CVOICE", "CNMI"},
         NEW f, f = at_queue_remove_cmd(r, res)
  PROVE  Handled(r, f, acc)
<1>0. r \in Driver /\ QueueOK(r.queue, acc) /\ r.queue # <<>> /\ Progress(r, TRUE, acc)
  BY DEF Core, Calm
<1>1. /\ f \in Driver /\ f = [r EXCEPT !.queue = f.queue] /\ QueueOK(f.queue, acc)
      /\ Long(f.queue) => Len(r.queue[1]) >= 9
  BY <1>0, Removed
<1>2. IsTask(r.queue[1]) /\ Len(r.queue[1]) \in Nat
  BY <1>0, HeadTask
<1>3. Len(r.queue[1]) # 8
  BY <1>2, Standing
<1>4. /\ f.up = r.up /\ f.has_voice = r.has_voice /\ f.has_sms = r.has_sms
      /\ f.initialized = r.initialized
  BY <1>0, <1>1 DEF Driver
<1>5. Long(f.queue) => Long(r.queue)
  BY <1>0, <1>1, <1>2 DEF Long
<1>6. Long(r.queue) => "CVOICE" \notin acc /\ ~r.has_voice
  BY <1>0, <1>3 DEF Progress
<1>7. Progress(f, FALSE, acc)
  BY <1>0, <1>4, <1>5, <1>6 DEF Progress
<1> QED BY <1>1, <1>4, <1>7 DEF Handled

LEMMA AfterOK ==
  ASSUME NEW r, NEW ib, NEW acc, NEW got, Core(r, TRUE, ib, acc, got), r.up,
         Current(r).cmd \in Settings => Current(r).cmd \in acc,
         NEW e, e = OkEffect(r, Current(r)), NEW f, f = at_queue_remove_cmd(e, "OK")
  PROVE  Handled(r, f, acc)
<1>0. r \in Driver /\ QueueOK(r.queue, acc) /\ r.queue # <<>> /\ Progress(r, TRUE, acc)
  BY DEF Core, Calm
<1>1. /\ IsTask(r.queue[1]) /\ Len(r.queue[1]) \in Nat /\ Current(r) = r.queue[1][1]
      /\ TaskOK(r.queue[1], acc)
  BY <1>0, HeadTask DEF Current
<1>2. e = OkEffect(r, Current(r)) /\ f = at_queue_remove_cmd(e, "OK")
  OBVIOUS
<1>3. CASE Current(r).cmd = "CVOICE"
  <2>1. e = [r EXCEPT !.has_voice = TRUE] /\ e \in Driver /\ e.queue = r.queue
    BY <1>0, <1>2, <1>3 DEF OkEffect, Driver
  <2>2. Len(r.queue[1]) = 8 /\ "CVOICE" \in acc
    BY <1>1, <1>3, Standing DEF Settings
  <2>3. f = at_queue_remove_cmd(e, "OK")
    BY <1>2
  <2>4. /\ QueueOK(e.queue, acc) /\ e.queue # <<>> /\ Justified(e.queue[1], "OK", acc)
        /\ Behind(e.queue[1], "OK")
    <3>1. ~(Len(r.queue[1]) >= 9)
      BY ONLY <2>2
    <3> QED BY <1>0, <1>1, <2>1, <2>2, <3>1 DEF Justified, Behind
  <2>5. /\ f \in Driver /\ QueueOK(f.queue, acc) /\ ~Long(f.queue)
        /\ f.up = r.up /\ f.has_voice /\ f.initialized = r.initialized
    <3>1. e \in Driver /\ e.up = r.up /\ e.has_voice /\ e.initialized = r.initialized
      BY <1>0, <2>1 DEF Driver
    <3> QED BY ONLY <2>3, <2>4, <3>1, RemovedLast
  <2>6. ~r.initialized
    BY <1>0, <2>2 DEF Progress, Long
  <2> QED BY <2>2, <2>5, <2>6 DEF Handled, Progress
<1>4. CASE Current(r).cmd = "CNMI"
  <2>1. /\ e = [r EXCEPT !.has_sms = TRUE, !.initialized = TRUE]
        /\ e \in Driver /\ e.queue = r.queue
    BY <1>0, <1>2, <1>4 DEF OkEffect, Driver
  <2>2. Len(r.queue[1]) = 2 /\ IsInit(r.queue[1]) /\ "CNMI" \in acc
    BY <1>1, <1>4, Standing DEF Settings
  <2>3. "CMGF" \in acc /\ "CPMS" \in acc
    BY <1>1, <2>2 DEF TaskOK
  <2>4. f = at_queue_remove_cmd(e, "OK")
    BY <1>2
  <2>5. /\ QueueOK(e.queue, acc) /\ e.queue # <<>> /\ Justified(e.queue[1], "OK", acc)
        /\ Behind(e.queue[1], "OK")
    <3>1. ~(Len(r.queue[1]) >= 9)
      BY ONLY <2>2
    <3> QED BY <1>0, <1>1, <2>1, <2>2, <3>1 DEF Justified, Behind
  <2>6. /\ f \in Driver /\ QueueOK(f.queue, acc) /\ ~Long(f.queue)
        /\ f.up = r.up /\ f.has_voice = r.has_voice /\ f.initialized /\ f.has_sms
    <3>1. e \in Driver /\ e.up = r.up /\ e.has_voice = r.has_voice /\ e.initialized /\ e.has_sms
      BY <1>0, <2>1 DEF Driver
    <3> QED BY ONLY <2>4, <2>5, <3>1, RemovedLast
  <2>7. r.has_voice <=> "CVOICE" \in acc
    BY <1>0, <2>2 DEF Progress, Long
  <2> QED BY <2>2, <2>3, <2>6, <2>7 DEF Handled, Progress
<1>5. CASE Current(r).cmd \notin {"CVOICE", "CNMI"}
  <2>1. e \in {r, [r EXCEPT !.restart = "now"]} /\ e \in Driver
    BY <1>0, <1>2, <1>5, Restate DEF OkEffect
  <2>2. /\ e.queue = r.queue /\ e.up = r.up /\ e.has_voice = r.has_voice
        /\ e.has_sms = r.has_sms /\ e.initialized = r.initialized
    BY <1>0, <2>1 DEF Driver
  <2>3. Core(e, TRUE, ib, acc, got)
    BY <2>1, <2>2, CoreFlags
  <2>4. Justified(e.queue[1], "OK", acc) /\ e.queue[1][1].cmd \notin {"CVOICE", "CNMI"}
    BY <1>1, <1>5, <2>2 DEF Justified
  <2>5. Handled(e, f, acc)
    BY <1>2, <2>3, <2>4, PlainAnswer
  <2> QED BY <2>2, <2>5 DEF Handled
<1> QED BY <1>3, <1>4, <1>5

LEMMA AfterError ==
  ASSUME NEW r, NEW ib, NEW acc, NEW got, Core(r, TRUE, ib, acc, got), r.up,
         Current(r).cmd = "CVOICE" => "CVOICE" \notin acc, Current(r).cmd \notin Fatal,
         NEW e, e = ErrorEffect(r, Current(r)), NEW f, f = at_queue_remove_cmd(e, "ERROR")
  PROVE  Handled(r, f, acc)
<1>0. r \in Driver /\ QueueOK(r.queue, acc) /\ r.queue # <<>> /\ Progress(r, TRUE, acc)
  BY DEF Core, Calm
<1>1. /\ IsTask(r.queue[1]) /\ Len(r.queue[1]) \in Nat /\ Current(r) = r.queue[1][1]
      /\ Len(r.queue) \in Nat \ {0}
  BY <1>0, HeadTask DEF Current
<1>2. e = ErrorEffect(r, Current(r)) /\ f = at_queue_remove_cmd(e, "ERROR")
  OBVIOUS
<1>3. CASE Current(r).cmd = "CVOICE"
  <2>1. PICK t : t = [i \in DOMAIN InitCmds("CMGF") |-> Cmd(InitCmds("CMGF")[i], None)]
    OBVIOUS
  <2>2. IsInit(t) /\ IsTask(t) /\ Len(t) = 5 /\ t[1].cmd \in InitNames
    BY <2>1, RestOfList, Standing DEF IsTask
  <2>3. TaskOK(t, acc) /\ ~HeadOnly(t)
    BY <2>2, OtherNames DEF TaskOK, HeadOnly, MsgCmds
  <2>4. /\ QueueOK(Append(r.queue, t), acc) /\ Append(r.queue, t) # <<>>
        /\ Append(r.queue, t)[1] = r.queue[1]
    BY <1>0, <1>1, <2>2, <2>3, QueueAppend
  <2>5. e = Enque([r EXCEPT !.has_voice = FALSE], t)
    BY <1>2, <1>3, <2>1 DEF ErrorEffect, at_enque_initialization
  <2>6. /\ e = [r EXCEPT !.has_voice = FALSE, !.queue = Append(r.queue, t)]
        /\ e.queue = Append(r.queue, t)
    BY <1>0, <2>5 DEF Enque, Driver
  <2>7. e \in Driver
    BY <1>0, <2>4, <2>6 DEF Driver, QueueOK, Task, Entry
  <2>8. Ends(e.queue[1], "ERROR")
    BY <1>1, <1>3, <2>4, <2>6 DEF Ends, Expected, Ignorable
  <2>9. f = at_queue_remove_cmd(e, "ERROR")
    BY <1>2
  <2>10. /\ QueueOK(e.queue, acc) /\ e.queue # <<>> /\ Justified(e.queue[1], "ERROR", acc)
         /\ Behind(e.queue[1], "ERROR")
    BY <2>4, <2>6, <2>8 DEF Justified, Behind
  <2>11. /\ f \in Driver /\ QueueOK(f.queue, acc) /\ ~Long(f.queue)
         /\ f.up = r.up /\ ~f.has_voice /\ f.initialized = r.initialized
    <3>1. e.up = r.up /\ ~e.has_voice /\ e.initialized = r.initialized
      BY <1>0, <2>6 DEF Driver
    <3>2. /\ f \in Driver /\ QueueOK(f.queue, acc) /\ ~Long(f.queue)
          /\ f.up = e.up /\ f.has_voice = e.has_voice /\ f.initialized = e.initialized
      <4>1. f \in Driver /\ QueueOK(f.queue, acc)
        BY ONLY <2>7, <2>9, <2>10, RemovedLast, ZenonT(40)
      <4>2. ~Long(f.queue)
        BY ONLY <2>7, <2>9, <2>10, RemovedLast, ZenonT(40)
      <4>3. f.up = e.up
        BY ONLY <2>7, <2>9, <2>10, RemovedLast, ZenonT(40)
      <4>4. f.has_voice = e.has_voice
        BY ONLY <2>7, <2>9, <2>10, RemovedLast, ZenonT(40)
      <4>5. f.initialized = e.initialized
        BY ONLY <2>7, <2>9, <2>10, RemovedLast, ZenonT(40)
      <4> QED BY <4>1, <4>2, <4>3, <4>4, <4>5
    <3> QED BY <3>1, <3>2
  <2>12. ~r.initialized
    <3>1. Len(r.queue[1]) = 8
      BY <1>1, <1>3, Standing
    <3> QED BY <1>0, <3>1 DEF Progress, Long
  <2> QED BY <1>3, <2>11, <2>12 DEF Handled, Progress
<1>4. CASE Current(r).cmd # "CVOICE"
  <2>1. e \in Driver /\ e = [r EXCEPT !.incoming = e.incoming, !.restart = e.restart]
    <3>1. [r EXCEPT !.incoming = FALSE] \in Driver
      BY <1>0 DEF Driver
    <3>2. \/ e = r \/ e = pvt_try_restate(r) \/ e = pvt_try_restate([r EXCEPT !.incoming = FALSE])
      BY <1>2, <1>4 DEF ErrorEffect
    <3>3. CASE e = r
      BY <1>0, <3>3 DEF Driver
    <3>4. CASE e = pvt_try_restate(r)
      BY <1>0, <3>4, Restate DEF Driver
    <3>5. CASE e = pvt_try_restate([r EXCEPT !.incoming = FALSE])
      <4>1. e \in Driver /\ e \in {[r EXCEPT !.incoming = FALSE], [[r EXCEPT !.incoming = FALSE] EXCEPT !.restart = "now"]}
        BY <3>1, <3>5, Restate
      <4> QED BY <1>0, <4>1 DEF Driver
    <3> QED BY <3>2, <3>3, <3>4, <3>5
  <2>2. /\ e.queue = r.queue /\ e.up = r.up /\ e.has_voice = r.has_voice
        /\ e.has_sms = r.has_sms /\ e.initialized = r.initialized
    BY <1>0, <2>1 DEF Driver
  <2>3. Core(e, TRUE, ib, acc, got)
    BY <2>1, <2>2, CoreFlags
  <2>4. Justified(r.queue[1], "ERROR", acc)
    BY <1>1 DEF Justified, Ends, Expected, Ignorable, Settings
  <2>5. Current(r).cmd # "CNMI"
    BY DEF Fatal
  <2>6. e.queue[1][1].cmd \notin {"CVOICE", "CNMI"} /\ Justified(e.queue[1], "ERROR", acc)
    BY <1>1, <1>4, <2>2, <2>4, <2>5
  <2>7. Handled(e, f, acc)
    BY <1>2, <2>3, <2>6, PlainAnswer
  <2> QED BY <2>2, <2>7 DEF Handled
<1> QED BY <1>3, <1>4

-----------------------------------------------------------------------------
(* The tasks that are queued once the device is set up.                    *)

(* a task that may be queued behind others *)
Queueable(t, acc) == IsTask(t) /\ TaskOK(t, acc) /\ ~HeadOnly(t)

LEMMA QueueSingle ==
  ASSUME NEW acc, NEW cmd \in {"AT", "COPS"}, NEW t, t = <<Cmd(cmd, None)>>
  PROVE  Queueable(t, acc) /\ t[1].cmd \notin MsgCmds \cup {"CCWA_SET"}
<1>1. t # <<>> /\ Len(t) = 1 /\ t[1] = Cmd(cmd, None) /\ t \in Seq(PlainCmd) /\ DOMAIN t = {1}
  <2>1. Cmd(cmd, None) \in PlainCmd
    BY SettingsNamed DEF PlainCmd, Cmd
  <2> QED BY <2>1, Single
<1>2. t[1].cmd = cmd
  BY <1>1 DEF Cmd
<1>3. Aligned(t[1].cmd, Len(t) - 1)
  <2>1. Len(t) - 1 = 0
    BY <1>1
  <2> QED BY <1>2, <2>1 DEF Aligned
<1>4. IsTask(t)
  BY <1>1, <1>3 DEF IsTask, IsInit
<1>5. ~(Len(t) >= 2) /\ ~(Len(t) >= 8)
  BY <1>1
<1> QED BY <1>2, <1>4, <1>5 DEF Queueable, TaskOK, HeadOnly, MsgCmds

(* any other task, given its length and first command *)
LEMMA QueueOther ==
  ASSUME NEW acc, NEW t, IsTask(t), ~(Len(t) >= 8),
         t[1].cmd \in {"CMGS", "CUSD", "CMGR", "CCWA_SET"},
         t[1].cmd \in MsgCmds => "CMGF" \in acc
  PROVE  Queueable(t, acc)
<1>1. ~IsInit(t)
  BY OtherNames, Standing
<1> QED BY <1>1 DEF Queueable, TaskOK, HeadOnly

MessageTask(m) == IF m \in Sms THEN <<Cmd("CMGS", m), Cmd("SMSTEXT", m)>> ELSE <<Cmd("CUSD", m)>>

LEMMA QueueMessage ==
  ASSUME NEW acc, NEW m \in Msgs, "CMGF" \in acc, NEW t, t = MessageTask(m)
  PROVE  Queueable(t, acc) /\ t[1].cmd \in {"CMGS", "CUSD"} /\ t[1].arg = m
<1>1. CASE m \in Sms
  <2>1. t = <<Cmd("CMGS", m), Cmd("SMSTEXT", m)>>
    BY <1>1 DEF MessageTask
  <2>2. IsTask(t)
    BY <1>1, <2>1 DEF IsTask, IsSms
  <2>3. Len(t) = 2 /\ t[1].cmd = "CMGS" /\ t[1].arg = m
    BY <2>1, Pair DEF Cmd
  <2>4. ~(Len(t) >= 8)
    BY ONLY <2>3
  <2> QED BY <2>2, <2>3, <2>4, QueueOther
<1>2. CASE m \notin Sms
  <2>1. t = <<Cmd("CUSD", m)>>
    BY <1>2 DEF MessageTask
  <2>2. IsTask(t)
    BY <1>2, <2>1 DEF IsTask, IsUssd, Msgs
  <2>3. Len(t) = 1 /\ t[1].cmd = "CUSD" /\ t[1].arg = m
    BY <2>1, Single DEF Cmd
  <2>4. ~(Len(t) >= 8)
    BY ONLY <2>3
  <2> QED BY <2>2, <2>3, <2>4, QueueOther
<1> QED BY <1>1, <1>2

ReadTask(i) == IF conf.autodeletesms THEN <<Cmd("CMGR", i), Cmd("CMGD", i)>> ELSE <<Cmd("CMGR", i)>>

LEMMA QueueRead ==
  ASSUME NEW acc, NEW i \in Slots, NEW t, t = ReadTask(i)
  PROVE  Queueable(t, acc) /\ t[1].cmd = "CMGR" /\ t[1].arg = i
<1>1. t = <<Cmd("CMGR", i), Cmd("CMGD", i)>> \/ t = <<Cmd("CMGR", i)>>
  BY DEF ReadTask
<1>2. IsTask(t)
  BY <1>1 DEF IsTask, IsRead
<1>3. t[1].cmd = "CMGR" /\ t[1].arg = i
  BY <1>1, Pair, Single DEF Cmd
<1>4. ~(Len(t) >= 8)
  <2>1. CASE t = <<Cmd("CMGR", i), Cmd("CMGD", i)>>
    <3>1. Len(t) = 2 BY <2>1, Pair
    <3> QED BY ONLY <3>1
  <2>2. CASE t = <<Cmd("CMGR", i)>>
    <3>1. Len(t) = 1 BY <2>2, Single
    <3> QED BY ONLY <3>1
  <2> QED BY <1>1, <2>1, <2>2
<1> QED BY <1>2, <1>3, <1>4, QueueOther DEF MsgCmds

CcwaTask(v) == <<Cmd("CCWA_SET", v), Cmd("CCWA_STATUS", None)>>

LEMMA QueueCcwa ==
  ASSUME NEW acc, NEW v \in CcwaSettings, NEW t, t = CcwaTask(v)
  PROVE  Queueable(t, acc) /\ t[1].cmd = "CCWA_SET" /\ t[1].arg = v
<1>1. Len(t) = 2 /\ t[1].cmd = "CCWA_SET" /\ t[1].arg = v
  BY Pair DEF Cmd, CcwaTask
<1>2. IsTask(t)
  BY DEF IsTask, IsCcwa, CcwaTask
<1>3. ~(Len(t) >= 8)
  BY ONLY <1>1
<1> QED BY <1>1, <1>2, <1>3, QueueOther DEF MsgCmds

-----------------------------------------------------------------------------
(* Every action keeps the invariant.                                       *)

LEMMA InitIInv == Init => IInv
<1> SUFFICES ASSUME Init PROVE IInv
  OBVIOUS
<1>1. conf \in Shared
  BY ConfigsAssumption DEF Init
<1>2. net \in Net /\ net.accepted = {} /\ net.got = {}
  BY DEF Init, Net, Settings
<1>3. Core(s, executed, inbox, net.accepted, net.got)
  <2>1. Core(Down("none"), FALSE, <<>>, net.accepted, net.got)
    BY CoreDown
  <2> QED BY <2>1 DEF Init
<1>4. report \in [Msgs -> {"none", "queued", "Sent", "NotSent"}]
  BY DEF Init
<1> QED BY <1>1, <1>2, <1>3, <1>4 DEF IInv

LEMMA StepDisconnect ==
  ASSUME IInv, Disconnect(s.restart), UNCHANGED <<conf, net, report>>
  PROVE  IInv'
<1>1. s.restart \in {"none", "gracefully", "convenient", "now"}
  BY DEF IInv, Core, Driver
<1>2. Core(Down(s.restart), FALSE, <<>>, net.accepted, net.got)
  BY <1>1, CoreDown
<1>3. Core(s', executed', inbox', net'.accepted, net'.got)
  BY <1>2 DEF Disconnect
<1> QED BY <1>3 DEF IInv

LEMMA StepStop == ASSUME IInv, Stop PROVE IInv'
BY StepDisconnect DEF Stop

LEMMA StepConnect == ASSUME IInv, Connect PROVE IInv'
<1>1. /\ ~executed /\ inbox = <<>> /\ s \in Driver /\ s.queue = <<>>
      /\ ~s.has_voice /\ ~s.initialized /\ conf \in Shared /\ executed \in BOOLEAN
  BY DEF Connect, IInv, Core, Calm, Idle
<1>2. PICK t : t = [i \in DOMAIN InitCmds("AT") |-> Cmd(InitCmds("AT")[i], None)]
  OBVIOUS
<1>3. IsInit(t) /\ Len(t) >= 19 /\ IsTask(t) /\ Len(t) \in Nat /\ t[1].cmd \in InitNames
  BY <1>1, <1>2, WholeList, TaskType, Standing DEF IsTask
<1>4. TaskOK(t, {})
  BY <1>3, OtherNames DEF TaskOK, MsgCmds
<1>5. PICK q : q = Append(<<>>, t)
  OBVIOUS
<1>6. QueueOK(q, {}) /\ q # <<>> /\ q[1] = t
  <2>1. /\ QueueOK(Append(<<>>, t), {}) /\ Append(<<>>, t) # <<>>
        /\ Append(<<>>, t)[Len(<<>>) + 1] = t
    BY <1>3, <1>4, QueueEmpty, QueueAppend, ZenonT(40)
  <2>2. Len(<<>>) + 1 = 1
    OBVIOUS
  <2> QED BY <1>5, <2>1, <2>2
<1>7. s' = [s EXCEPT !.up = TRUE, !.restart = "none", !.queue = q]
  BY <1>1, <1>2, <1>5 DEF Connect, at_enque_initialization, Enque, Driver
<1>8. q \in Seq(Task)
  BY <1>6 DEF QueueOK
<1>9. /\ s' \in Driver /\ s'.up /\ s'.queue = q /\ ~s'.has_voice /\ ~s'.initialized
  BY <1>1, <1>7, <1>8 DEF Driver, Task, Entry
<1>10. Long(q)
  BY <1>3, <1>6 DEF Long
<1>11. net' \in Net /\ net'.accepted = {} /\ executed' = executed /\ inbox' = <<>>
  BY <1>1 DEF Connect, IInv, Net
<1>12. Progress(s', executed', {})
  BY <1>9, <1>10 DEF Progress
<1>13. Calm(s', executed', inbox') /\ Answers(s', executed', inbox', {}, net'.got)
  BY <1>1, <1>9, <1>11, EmptySeq, Len(<<>>) = 0 DEF Calm, Answers
<1>14. Core(s', executed', inbox', net'.accepted, net'.got)
  BY <1>1, <1>6, <1>9, <1>11, <1>12, <1>13 DEF Core
<1> QED BY <1>11, <1>14 DEF IInv, Connect

(* a step of the driver that leaves the modem and the reports alone *)
LEMMA StepDriver ==
  ASSUME IInv, conf' \in Shared, UNCHANGED <<net, report>>,
         Core(s', executed', inbox', net.accepted, net.got)
  PROVE  IInv'
<1>1. Core(s', executed', inbox', net'.accepted, net'.got)
  OBVIOUS
<1> QED BY <1>1 DEF IInv

LEMMA StepRequest ==
  ASSUME IInv, NEW when \in {"gracefully", "convenient", "now"}, Request(when)
  PROVE  IInv'
<1>0. Core(s, executed, inbox, net.accepted, net.got) /\ s \in Driver
  BY DEF IInv, Core
<1>1. PICK r : r = [s EXCEPT !.restart = when]
  OBVIOUS
<1>2. r \in Driver /\ s' = pvt_try_restate(r)
  BY <1>0, <1>1 DEF Driver, Request
<1>3. s' \in Driver /\ s' \in {r, [r EXCEPT !.restart = "now"]}
  BY <1>2, Restate
<1>4. s' = [s EXCEPT !.restart = s'.restart]
  BY <1>0, <1>1, <1>3 DEF Driver
<1>5. ~s.up => Idle(s')
  <2> SUFFICES ASSUME ~s.up PROVE Idle(s')
    OBVIOUS
  <2>1. Idle(s)
    BY <1>0 DEF Core, Calm
  <2> QED BY <1>0, <1>4, <2>1 DEF Idle, Driver
<1>6. /\ s'.up = s.up /\ s'.queue = s.queue /\ s'.has_voice = s.has_voice
      /\ s'.has_sms = s.has_sms /\ s'.initialized = s.initialized
  BY <1>0, <1>4 DEF Driver
<1>7. Core(s', executed, inbox, net.accepted, net.got)
  BY <1>0, <1>3, <1>5, <1>6, CoreFlags
<1>8. executed' = executed /\ inbox' = inbox /\ conf' = conf
  BY DEF Request
<1>9. Core(s', executed', inbox', net.accepted, net.got)
  BY <1>7, <1>8
<1> QED BY <1>8, <1>9, StepDriver DEF Request, IInv

(* a task is queued *)
LEMMA StepEnque ==
  ASSUME IInv, s.up, NEW t, Queueable(t, net.accepted), s' = Enque(s, t), conf' \in Shared,
         UNCHANGED <<executed, inbox, net>>,
         report' \in [Msgs -> {"none", "queued", "Sent", "NotSent"}]
  PROVE  IInv'
<1>1. Core(Enque(s, t), executed, inbox, net.accepted, net.got)
  BY CoreEnque DEF IInv, Queueable
<1>2. Core(s', executed', inbox', net'.accepted, net'.got)
  BY <1>1
<1> QED BY <1>2 DEF IInv

LEMMA StepPing == ASSUME IInv, Ping PROVE IInv'
<1>1. PICK t : t = <<Cmd("AT", None)>>
  OBVIOUS
<1>2. Queueable(t, net.accepted)
  BY <1>1, QueueSingle
<1>3. s.up /\ s' = Enque(s, t) /\ UNCHANGED <<conf, executed, inbox, net, report>>
  BY <1>1 DEF Ping
<1> QED BY <1>2, <1>3, StepEnque DEF IInv

(* a device that is ready was told the message format *)
LEMMA ReadyTold == ASSUME IInv, Ready PROVE s.up /\ "CMGF" \in net.accepted
BY DEF IInv, Core, Progress, Ready

LEMMA StepSend == ASSUME IInv, NEW m \in Msgs, Send(m) PROVE IInv'
<1>1. PICK t : t = MessageTask(m)
  OBVIOUS
<1>2. s.up /\ Queueable(t, net.accepted)
  BY <1>1, ReadyTold, QueueMessage DEF Send
<1>3. s' = Enque(s, t)
  BY <1>1 DEF Send, at_enque_message, MessageTask
<1>4. conf' \in Shared /\ UNCHANGED <<executed, inbox, net>>
  BY DEF Send, IInv
<1>5. report' \in [Msgs -> {"none", "queued", "Sent", "NotSent"}]
  BY DEF Send, IInv
<1> QED BY <1>2, <1>3, <1>4, <1>5, StepEnque

LEMMA StepCcwaSet == ASSUME IInv, NEW v \in CcwaSettings, send_ccwa_set(v) PROVE IInv'
<1>1. PICK t : t = CcwaTask(v)
  OBVIOUS
<1>2. Queueable(t, net.accepted)
  BY <1>1, QueueCcwa
<1>3. s.up /\ s' = Enque(s, t) /\ UNCHANGED <<executed, inbox, net, report>>
  BY <1>1 DEF send_ccwa_set, at_enque_set_ccwa, CcwaTask, Ready
<1>4. conf' \in Shared
  BY DEF send_ccwa_set, IInv, Shared
<1> QED BY <1>2, <1>3, <1>4, StepEnque DEF IInv

-----------------------------------------------------------------------------
(* The handlers.                                                           *)

LEMMA GotCore ==
  ASSUME IInv, NEW type, Got(type)
  PROVE  /\ s.up /\ inbox # <<>> /\ Head(inbox) \in Results /\ Head(inbox).type = type
         /\ s \in Driver /\ Core(s, executed, inbox, net.accepted, net.got)
         /\ Core(s, executed, Tail(inbox), net.accepted, net.got)
<1>1. Core(s, executed, inbox, net.accepted, net.got) /\ s \in Driver
  BY DEF IInv, Core
<1>2. s.up /\ inbox # <<>> /\ Head(inbox).type = type
  BY DEF Got
<1> QED BY <1>1, <1>2, CoreHead, CoreRead

LEMMA GotAnswer ==
  ASSUME IInv, NEW type \in {"OK", "ERROR", "PROMPT", "CMGR"}, Got(type)
  PROVE  /\ Final(Head(inbox)) /\ executed = TRUE
         /\ s.queue # <<>> /\ Current(s) = s.queue[1][1] /\ QueueOK(s.queue, net.accepted)
         /\ Honest(Head(inbox), Current(s), net.accepted, net.got)
         /\ Core(s, TRUE, inbox, net.accepted, net.got)
<1>1. Core(s, executed, inbox, net.accepted, net.got) /\ inbox # <<>> /\ Head(inbox).type = type
  BY GotCore
<1>2. Final(Head(inbox))
  BY <1>1 DEF Final
<1>3. /\ executed /\ s.queue # <<>> /\ Current(s) = s.queue[1][1]
      /\ Honest(Head(inbox), Current(s), net.accepted, net.got)
  BY <1>1, <1>2, CoreHead
<1>4. executed = TRUE /\ QueueOK(s.queue, net.accepted)
  BY <1>1, <1>3 DEF Core
<1>5. Core(s, TRUE, inbox, net.accepted, net.got)
  BY <1>1, <1>4
<1> QED BY <1>2, <1>3, <1>4, <1>5

(* an answer is handled *)
LEMMA StepAnswered ==
  ASSUME IInv, NEW type \in {"OK", "ERROR", "PROMPT", "CMGR"}, Got(type), Answered,
         Handled(s, s', net.accepted), conf' = conf,
         net' \in Net, net'.accepted = net.accepted, net'.got = net.got,
         report' \in [Msgs -> {"none", "queued", "Sent", "NotSent"}]
  PROVE  IInv'
<1>1. /\ Core(s, executed, inbox, net.accepted, net.got) /\ inbox # <<>> /\ Final(Head(inbox))
      /\ s.up
  BY GotCore, GotAnswer
<1>2. /\ s' \in Driver /\ s'.up /\ QueueOK(s'.queue, net.accepted)
      /\ Progress(s', FALSE, net.accepted)
  BY <1>1 DEF Handled
<1>3. Core(s', FALSE, Tail(inbox), net.accepted, net.got)
  BY <1>1, <1>2, CoreAnswered
<1>4. Core(s', executed', inbox', net'.accepted, net'.got)
  BY <1>3 DEF Answered
<1> QED BY <1>4 DEF IInv

LEMMA ReportType ==
  ASSUME IInv, NEW outcome \in {"Sent", "NotSent"}, Reported(outcome) \/ UNCHANGED report
  PROVE  report' \in [Msgs -> {"none", "queued", "Sent", "NotSent"}]
BY DEF IInv, Reported

LEMMA StepOk == ASSUME IInv, at_response_ok PROVE IInv'
<1>0. Got("OK") /\ UNCHANGED <<conf, net>>
  BY DEF at_response_ok
<1>1. CASE Expected(Current(s)) = "PROMPT"
  <2>1. inbox' = Tail(inbox) /\ UNCHANGED <<s, executed, report>>
    BY <1>1 DEF at_response_ok
  <2>2. Core(s, executed, Tail(inbox), net.accepted, net.got)
    BY <1>0, GotCore
  <2>3. Core(s', executed', inbox', net.accepted, net.got)
    BY <2>1, <2>2
  <2> QED BY <1>0, <2>1, <2>3, StepDriver DEF IInv
<1>2. CASE Expected(Current(s)) # "PROMPT"
  <2>1. s' = at_queue_remove_cmd(OkEffect(s, Current(s)), "OK") /\ Answered
    BY <1>2 DEF at_response_ok
  <2>2. /\ Core(s, TRUE, inbox, net.accepted, net.got) /\ s.up
        /\ Honest(Head(inbox), Current(s), net.accepted, net.got)
    BY <1>0, GotAnswer, GotCore
  <2>3. Current(s).cmd \in Settings => Current(s).cmd \in net.accepted
    BY <1>0, <2>2 DEF Honest, Got
  <2>4. Handled(s, s', net.accepted)
    BY <2>1, <2>2, <2>3, AfterOK
  <2>5. report' \in [Msgs -> {"none", "queued", "Sent", "NotSent"}]
    BY <1>2, ReportType DEF at_response_ok
  <2>6. net' \in Net /\ net'.accepted = net.accepted /\ net'.got = net.got
    BY <1>0 DEF IInv
  <2> QED BY <1>0, <2>1, <2>4, <2>5, <2>6, StepAnswered
<1> QED BY <1>1, <1>2

LEMMA StepError == ASSUME IInv, at_response_error PROVE IInv'
<1>0. Got("ERROR") /\ UNCHANGED <<conf, net>>
  BY DEF at_response_error
<1>1. CASE Current(s).cmd \in Fatal
  BY <1>0, <1>1, StepDisconnect DEF at_response_error
<1>2. CASE Current(s).cmd \notin Fatal
  <2>1. s' = at_queue_remove_cmd(ErrorEffect(s, Current(s)), "ERROR") /\ Answered
    BY <1>2 DEF at_response_error
  <2>2. /\ Core(s, TRUE, inbox, net.accepted, net.got) /\ s.up
        /\ Honest(Head(inbox), Current(s), net.accepted, net.got)
    BY <1>0, GotAnswer, GotCore
  <2>3. Current(s).cmd = "CVOICE" => "CVOICE" \notin net.accepted
    BY <1>0, <2>2 DEF Honest, Got
  <2>4. Handled(s, s', net.accepted)
    BY <1>2, <2>1, <2>2, <2>3, AfterError
  <2>5. report' \in [Msgs -> {"none", "queued", "Sent", "NotSent"}]
    BY <1>2, ReportType DEF at_response_error
  <2>6. net' \in Net /\ net'.accepted = net.accepted /\ net'.got = net.got
    BY <1>0 DEF IInv
  <2> QED BY <1>0, <2>1, <2>4, <2>5, <2>6, StepAnswered
<1> QED BY <1>1, <1>2

LEMMA StepPrompt == ASSUME IInv, at_response_sms_prompt PROVE IInv'
<1>0. /\ Got("PROMPT") /\ Answered /\ UNCHANGED <<conf, net, report>>
      /\ s' = at_queue_remove_cmd(s, "PROMPT")
  BY DEF at_response_sms_prompt
<1>1. /\ Core(s, TRUE, inbox, net.accepted, net.got) /\ Current(s) = s.queue[1][1]
      /\ Honest(Head(inbox), Current(s), net.accepted, net.got)
  BY <1>0, GotAnswer
<1>2. Current(s).cmd = "CMGS"
  BY <1>0, <1>1 DEF Honest, Got
<1>3. Justified(s.queue[1], "PROMPT", net.accepted)
  BY <1>1, <1>2 DEF Justified, Settings
<1>4. Handled(s, s', net.accepted)
  BY <1>0, <1>1, <1>2, <1>3, PlainAnswer
<1>5. /\ net' \in Net /\ net'.accepted = net.accepted /\ net'.got = net.got
      /\ report' \in [Msgs -> {"none", "queued", "Sent", "NotSent"}]
  BY <1>0 DEF IInv
<1> QED BY <1>0, <1>4, <1>5, StepAnswered

LEMMA StepCmgr == ASSUME IInv, at_response_cmgr PROVE IInv'
<1>0. /\ Got("CMGR") /\ Answered /\ UNCHANGED <<conf, report>>
      /\ net' = [net EXCEPT !.sim[Head(inbox).arg] = "read"]
  BY DEF at_response_cmgr
<1>1. /\ Core(s, TRUE, inbox, net.accepted, net.got) /\ Current(s) = s.queue[1][1]
      /\ Honest(Head(inbox), Current(s), net.accepted, net.got)
  BY <1>0, GotAnswer
<1>2. Current(s).cmd = "CMGR"
  BY <1>0, <1>1 DEF Honest, Got
<1>3. Justified(s.queue[1], "CMGR", net.accepted)
  BY <1>1, <1>2 DEF Justified, Settings
<1>4. PICK f : f = at_queue_remove_cmd(s, "CMGR")
  OBVIOUS
<1>5. Handled(s, f, net.accepted)
  BY <1>1, <1>2, <1>3, <1>4, PlainAnswer
<1>6. [f EXCEPT !.incoming = FALSE] \in Driver
  BY <1>5 DEF Handled, Driver
<1>7. s' = pvt_try_restate([f EXCEPT !.incoming = FALSE])
  BY <1>4 DEF at_response_cmgr
<1>8. s' \in Driver /\ s' \in {[f EXCEPT !.incoming = FALSE], [[f EXCEPT !.incoming = FALSE] EXCEPT !.restart = "now"]}
  BY <1>6, <1>7, Restate
<1>9. /\ s'.up = f.up /\ s'.queue = f.queue /\ s'.has_voice = f.has_voice
      /\ s'.has_sms = f.has_sms /\ s'.initialized = f.initialized
  BY <1>5, <1>8 DEF Handled, Driver
<1>10. Handled(s, s', net.accepted)
  BY <1>5, <1>8, <1>9 DEF Handled, Progress
<1>11. /\ net' \in Net /\ net'.accepted = net.accepted /\ net'.got = net.got
       /\ report' \in [Msgs -> {"none", "queued", "Sent", "NotSent"}]
  BY <1>0 DEF IInv, Net
<1> QED BY <1>0, <1>10, <1>11, StepAnswered

LEMMA ResultArg ==
  ASSUME NEW m \in Results
  PROVE  /\ m.type \in {"CMGR", "CMTI"} => m.arg \in Slots
         /\ m.type = "CREG" => m.arg \in BOOLEAN
BY DEF Results

LEMMA StepCmti == ASSUME IInv, at_response_cmti PROVE IInv'
<1>0. Got("CMTI") /\ inbox' = Tail(inbox) /\ UNCHANGED <<conf, executed, net, report>>
  BY DEF at_response_cmti
<1>1. /\ Core(s, executed, Tail(inbox), net.accepted, net.got) /\ s.up
      /\ Head(inbox) \in Results /\ Head(inbox).type = "CMTI"
  BY <1>0, GotCore
<1>2. PICK t : t = ReadTask(Head(inbox).arg)
  OBVIOUS
<1>3. Queueable(t, net.accepted)
  BY <1>1, <1>2, ResultArg, QueueRead
<1>4. Core(Enque(s, t), executed, Tail(inbox), net.accepted, net.got) /\ Enque(s, t).up
  BY <1>1, <1>3, CoreEnque DEF Queueable
<1>5. s' = s \/ s' = [Enque(s, t) EXCEPT !.incoming = TRUE]
  BY <1>2 DEF at_response_cmti, at_enque_retrive_sms, ReadTask
<1>6. CASE s' = s
  BY <1>0, <1>1, <1>6, StepDriver DEF IInv
<1>7. CASE s' = [Enque(s, t) EXCEPT !.incoming = TRUE]
  <2>1. PICK f : f = Enque(s, t)
    OBVIOUS
  <2>2. f \in Driver
    BY <1>4, <2>1 DEF Core
  <2>3. /\ s' \in Driver /\ s'.up = f.up /\ s'.queue = f.queue /\ s'.has_voice = f.has_voice
        /\ s'.has_sms = f.has_sms /\ s'.initialized = f.initialized
    BY <1>7, <2>1, <2>2 DEF Driver
  <2>4. Core(s', executed, Tail(inbox), net.accepted, net.got)
    BY <1>4, <2>1, <2>3, CoreFlags
  <2>5. Core(s', executed', inbox', net.accepted, net.got)
    BY <1>0, <2>4
  <2> QED BY <1>0, <2>5, StepDriver DEF IInv
<1> QED BY <1>5, <1>6, <1>7

(* f is the driver once the operator is asked for, and, perhaps, call      *)
(* waiting set                                                             *)
LEMMA StepCreg == ASSUME IInv, at_response_creg PROVE IInv'
<1>0. /\ Got("CREG") /\ inbox' = Tail(inbox) /\ UNCHANGED <<conf, executed, net, report>>
      /\ s' = CregEffect(s, Head(inbox).arg)
  BY DEF at_response_creg
<1>1. /\ Core(s, executed, Tail(inbox), net.accepted, net.got) /\ s.up
      /\ Head(inbox) \in Results /\ Head(inbox).type = "CREG"
  BY <1>0, GotCore
<1>2. PICK t : t = <<Cmd("COPS", None)>>
  OBVIOUS
<1>3. PICK a : a = Enque(s, t)
  OBVIOUS
<1>4. Core(a, executed, Tail(inbox), net.accepted, net.got) /\ a.up
  BY <1>1, <1>2, <1>3, QueueSingle, CoreEnque DEF Queueable
<1>5. PICK f : /\ Core(f, executed, Tail(inbox), net.accepted, net.got) /\ f.up
               /\ s' = [f EXCEPT !.registered = Head(inbox).arg]
  <2>1. CASE Head(inbox).arg /\ ~s.registered /\ conf.callwaiting # "auto"
    <3>1. PICK c : c = CcwaTask(conf.callwaiting)
      OBVIOUS
    <3>2. conf.callwaiting \in CcwaSettings
      BY <2>1 DEF IInv, Shared
    <3>3. Core(Enque(a, c), executed, Tail(inbox), net.accepted, net.got) /\ Enque(a, c).up
      BY <1>4, <3>1, <3>2, QueueCcwa, CoreEnque DEF Queueable
    <3>4. s' = [Enque(a, c) EXCEPT !.registered = Head(inbox).arg]
      BY <1>0, <1>2, <1>3, <2>1, <3>1 DEF CregEffect, at_enque_set_ccwa, CcwaTask
    <3> QED BY <3>3, <3>4
  <2>2. CASE ~(Head(inbox).arg /\ ~s.registered /\ conf.callwaiting # "auto")
    <3>1. s' = [a EXCEPT !.registered = Head(inbox).arg]
      BY <1>0, <1>2, <1>3, <2>2 DEF CregEffect
    <3> QED BY <1>4, <3>1
  <2> QED BY <2>1, <2>2
<1>6. f \in Driver /\ Head(inbox).arg \in BOOLEAN
  BY <1>1, <1>5, ResultArg DEF Core
<1>7. /\ s' \in Driver /\ s'.up = f.up /\ s'.queue = f.queue /\ s'.has_voice = f.has_voice
      /\ s'.has_sms = f.has_sms /\ s'.initialized = f.initialized
  BY <1>5, <1>6 DEF Driver
<1>8. Core(s', executed, Tail(inbox), net.accepted, net.got)
  BY <1>5, <1>7, CoreFlags
<1>9. Core(s', executed', inbox', net.accepted, net.got)
  BY <1>0, <1>8
<1> QED BY <1>0, <1>9, StepDriver DEF IInv

-----------------------------------------------------------------------------
(* The modem, the SIM and the network.                                     *)

LEMMA FirstArg ==
  ASSUME NEW t, IsTask(t)
  PROVE  /\ t[1].cmd \in MsgCmds => t[1].arg \in Msgs
         /\ t[1].cmd \in {"CMGR", "CMGD"} => t[1].arg \in Slots
         /\ t[1].cmd = "CCWA_SET" => t[1].arg \in CcwaSettings
<1>1. CASE IsInit(t)
  <2>1. t[1].cmd \in InitNames
    BY <1>1, Standing
  <2> QED BY <2>1, OtherNames DEF MsgCmds
<1>2. CASE IsSms(t)
  <2>1. PICK m \in Sms : t \in {<<Cmd("CMGS", m), Cmd("SMSTEXT", m)>>, <<Cmd("SMSTEXT", m)>>}
    BY <1>2 DEF IsSms
  <2>2. t[1] \in {Cmd("CMGS", m), Cmd("SMSTEXT", m)}
    BY <2>1, Single, Pair
  <2> QED BY <2>2 DEF Cmd, MsgCmds, Msgs
<1>3. CASE IsUssd(t)
  <2>1. PICK m \in Ussd : t = <<Cmd("CUSD", m)>>
    BY <1>3 DEF IsUssd
  <2> QED BY <2>1, Single DEF Cmd, MsgCmds, Msgs
<1>4. CASE IsRead(t)
  <2>1. PICK i \in Slots :
          t \in {<<Cmd("CMGR", i), Cmd("CMGD", i)>>, <<Cmd("CMGR", i)>>, <<Cmd("CMGD", i)>>}
    BY <1>4 DEF IsRead
  <2>2. t[1] \in {Cmd("CMGR", i), Cmd("CMGD", i)}
    BY <2>1, Single, Pair
  <2> QED BY <2>2 DEF Cmd, MsgCmds
<1>5. CASE IsCcwa(t)
  <2>1. PICK v \in CcwaSettings :
          t \in {<<Cmd("CCWA_SET", v), Cmd("CCWA_STATUS", None)>>, <<Cmd("CCWA_STATUS", None)>>}
    BY <1>5 DEF IsCcwa
  <2>2. t[1] \in {Cmd("CCWA_SET", v), Cmd("CCWA_STATUS", None)}
    BY <2>1, Single, Pair
  <2> QED BY <2>2 DEF Cmd, MsgCmds
<1> QED BY <1>1, <1>2, <1>3, <1>4, <1>5 DEF IsTask

LEMMA WireCore ==
  ASSUME IInv, OnWire
  PROVE  /\ Core(s, FALSE, inbox, net.accepted, net.got) /\ s.up /\ s.queue # <<>> /\ executed = FALSE
         /\ Current(s) = s.queue[1][1] /\ IsTask(s.queue[1]) /\ inbox \in Seq(Results)
<1>1. Core(s, executed, inbox, net.accepted, net.got) /\ executed \in BOOLEAN
  BY DEF IInv, Core
<1>2. executed = FALSE /\ s.up /\ s.queue # <<>>
  BY <1>1 DEF OnWire
<1>3. QueueOK(s.queue, net.accepted) /\ inbox \in Seq(Results)
  BY <1>1 DEF Core, Answers
<1>4. Current(s) = s.queue[1][1] /\ IsTask(s.queue[1])
  BY <1>2, <1>3, HeadTask DEF Current
<1>5. Core(s, FALSE, inbox, net.accepted, net.got)
  BY <1>1, <1>2
<1> QED BY <1>2, <1>3, <1>4, <1>5

(* the modem answers with m, after it perhaps said something else *)
LEMMA StepExecuted ==
  ASSUME IInv, OnWire, executed' = TRUE, UNCHANGED <<conf, s, report>>,
         NEW ib, Core(s, FALSE, ib, net.accepted, net.got),
         NEW m \in Results, inbox' = Append(ib, m), net' \in Net,
         net.accepted \subseteq net'.accepted,
         net'.accepted \subseteq net.accepted \cup {Current(s).cmd},
         Honest(m, Current(s), net'.accepted, net'.got)
  PROVE  IInv'
<1>1. s.up /\ s.queue # <<>>
  BY DEF OnWire
<1>2. Core(s, TRUE, Append(ib, m), net'.accepted, net'.got)
  BY <1>1, CoreExecuted
<1>3. Core(s', executed', inbox', net'.accepted, net'.got)
  BY <1>2
<1> QED BY <1>3 DEF IInv

LEMMA NetAccepted ==
  ASSUME IInv, OnWire, net' = AcceptEffect(Current(s))
  PROVE  /\ net' \in Net /\ net.accepted \subseteq net'.accepted
         /\ net'.accepted \subseteq net.accepted \cup {Current(s).cmd}
         /\ Current(s).cmd \in Settings => Current(s).cmd \in net'.accepted
         /\ Current(s).cmd \in {"SMSTEXT", "CUSD"} => Current(s).arg \in net'.got
<1>0. net \in Net
  BY DEF IInv
<1>1. IsTask(s.queue[1]) /\ Current(s) = s.queue[1][1]
  BY WireCore
<1>2. /\ Current(s).cmd \in MsgCmds => Current(s).arg \in Msgs
      /\ Current(s).cmd = "CMGD" => Current(s).arg \in Slots
      /\ Current(s).cmd = "CCWA_SET" => Current(s).arg \in CcwaSettings
  BY <1>1, FirstArg
<1>3. CASE Current(s).cmd \in {"SMSTEXT", "CUSD"}
  <2>1. net' = [net EXCEPT !.got = @ \cup {Current(s).arg}]
    BY <1>3 DEF AcceptEffect, Settings
  <2> QED BY <1>0, <1>2, <1>3, <2>1 DEF Net, Settings, MsgCmds
<1>4. CASE Current(s).cmd = "CMGD"
  <2>1. net' = [net EXCEPT !.sim[Current(s).arg] = "empty"]
    BY <1>4 DEF AcceptEffect, Settings
  <2> QED BY <1>0, <1>2, <1>4, <2>1 DEF Net, Settings
<1>5. CASE Current(s).cmd = "CCWA_SET"
  <2>1. net' = [net EXCEPT !.ccwa = Current(s).arg]
    BY <1>5 DEF AcceptEffect, Settings
  <2> QED BY <1>0, <1>2, <1>5, <2>1 DEF Net, Settings
<1>6. CASE Current(s).cmd \in Settings
  <2>1. net' = [net EXCEPT !.accepted = @ \cup {Current(s).cmd}]
    BY <1>6 DEF AcceptEffect, Settings
  <2> QED BY <1>0, <1>6, <2>1 DEF Net, Settings
<1>7. CASE Current(s).cmd \notin Settings \cup {"SMSTEXT", "CUSD", "CMGD", "CCWA_SET"}
  <2>1. net' = net
    BY <1>7 DEF AcceptEffect
  <2> QED BY <1>0, <1>7, <2>1
<1> QED BY <1>3, <1>4, <1>5, <1>6, <1>7

LEMMA AppendTwo ==
  ASSUME NEW ib \in Seq(Results), NEW x \in Results, NEW y \in Results
  PROVE  ib \o <<x, y>> = Append(Append(ib, x), y) /\ ib \o <<x>> = Append(ib, x)
OBVIOUS

LEMMA ResultType ==
  /\ \A type \in {"OK", "ERROR", "PROMPT"} : Msg(type, None) \in Results /\ Msg(type, None).type = type
  /\ \A i \in Slots, type \in {"CMGR", "CMTI"} :
       Msg(type, i) \in Results /\ Msg(type, i).type = type /\ Msg(type, i).arg = i
  /\ \A b \in BOOLEAN : Msg("CREG", b) \in Results /\ Msg("CREG", b).type = "CREG"
BY DEF Msg, Results

LEMMA StepAccepts == ASSUME IInv, ModemAccepts PROVE IInv'
<1>0. PICK c : c = Current(s)
  OBVIOUS
<1>1. OnWire /\ executed' = TRUE /\ UNCHANGED <<conf, s, report>> /\ net' = AcceptEffect(Current(s))
  BY DEF ModemAccepts
<1>2. /\ Core(s, FALSE, inbox, net.accepted, net.got) /\ inbox \in Seq(Results) /\ s.up
      /\ IsTask(s.queue[1]) /\ c = s.queue[1][1]
  BY <1>0, <1>1, WireCore
<1>3. /\ net' \in Net /\ net.accepted \subseteq net'.accepted
      /\ net'.accepted \subseteq net.accepted \cup {Current(s).cmd}
      /\ c.cmd \in Settings => c.cmd \in net'.accepted
      /\ c.cmd \in {"SMSTEXT", "CUSD"} => c.arg \in net'.got
  BY <1>0, <1>1, NetAccepted
<1>4. PICK ok : ok = Msg("OK", None)
  OBVIOUS
<1>5. ok \in Results /\ Honest(ok, c, net'.accepted, net'.got)
  BY <1>3, <1>4, ResultType DEF Honest
<1>6. CASE c.cmd = "CREG"
  <2>1. PICK b : b = Msg("CREG", net.reg)
    OBVIOUS
  <2>2. net.reg \in BOOLEAN
    BY DEF IInv, Net
  <2>3. b \in Results /\ ~Final(b)
    BY <2>1, <2>2, ResultType DEF Final
  <2>4. inbox' = inbox \o <<b, ok>>
    BY <1>0, <1>4, <1>6, <2>1 DEF ModemAccepts
  <2>5. inbox' = Append(Append(inbox, b), ok)
    BY <1>2, <1>5, <2>3, <2>4, AppendTwo
  <2>6. Core(s, FALSE, Append(inbox, b), net.accepted, net.got)
    BY <1>2, <2>3, CoreTold
  <2> QED BY <1>0, <1>1, <1>3, <1>5, <2>5, <2>6, StepExecuted
<1>7. CASE c.cmd = "CMGR"
  <2>1. PICK m : m = Msg("CMGR", c.arg)
    OBVIOUS
  <2>2. c.arg \in Slots
    BY <1>2, <1>7, FirstArg
  <2>3. m \in Results /\ Honest(m, c, net'.accepted, net'.got)
    BY <1>7, <2>1, <2>2, ResultType DEF Honest
  <2>4. inbox' = inbox \o <<m>>
    BY <1>0, <1>7, <2>1 DEF ModemAccepts
  <2>5. inbox' = Append(inbox, m)
    BY <1>2, <2>3, <2>4, AppendTwo
  <2> QED BY <1>0, <1>1, <1>2, <1>3, <2>3, <2>5, StepExecuted
<1>8. CASE c.cmd = "CMGS"
  <2>1. PICK m : m = Msg("PROMPT", None)
    OBVIOUS
  <2>2. m \in Results /\ Honest(m, c, net'.accepted, net'.got)
    BY <1>8, <2>1, ResultType DEF Honest
  <2>3. inbox' = inbox \o <<m>>
    BY <1>0, <1>8, <2>1 DEF ModemAccepts
  <2>4. inbox' = Append(inbox, m)
    BY <1>2, <2>2, <2>3, AppendTwo
  <2> QED BY <1>0, <1>1, <1>2, <1>3, <2>2, <2>4, StepExecuted
<1>9. CASE c.cmd \notin {"CREG", "CMGR", "CMGS"}
  <2>1. inbox' = inbox \o <<ok>>
    BY <1>0, <1>4, <1>9 DEF ModemAccepts
  <2>2. inbox' = Append(inbox, ok)
    BY <1>2, <1>5, <2>1, AppendTwo
  <2> QED BY <1>0, <1>1, <1>2, <1>3, <1>5, <2>2, StepExecuted
<1> QED BY <1>6, <1>7, <1>8, <1>9

LEMMA StepRefuses == ASSUME IInv, NEW cmd, ModemRefuses(cmd) PROVE IInv'
<1>0. PICK c : c = Current(s)
  OBVIOUS
<1>1. /\ OnWire /\ executed' = TRUE /\ UNCHANGED <<conf, s, report>>
      /\ inbox' = Append(inbox, Msg("ERROR", None))
  BY DEF ModemRefuses
<1>2. /\ Core(s, FALSE, inbox, net.accepted, net.got) /\ inbox \in Seq(Results)
      /\ IsTask(s.queue[1]) /\ c = s.queue[1][1] /\ s.queue # <<>>
  BY <1>0, <1>1, WireCore
<1>3. net' \in Net /\ net'.accepted = net.accepted /\ net'.got = net.got
  BY DEF ModemRefuses, IInv, Net
<1>4. c.cmd = "CVOICE" => "CVOICE" \notin net.accepted
  <2> SUFFICES ASSUME c.cmd = "CVOICE" PROVE "CVOICE" \notin net.accepted
    OBVIOUS
  <2>1. Len(s.queue[1]) = 8
    BY <1>2, Standing
  <2>2. Long(s.queue)
    BY <1>2, <2>1 DEF Long
  <2> QED BY <1>2, <2>2 DEF Core, Progress
<1>5. PICK m : m = Msg("ERROR", None)
  OBVIOUS
<1>6. m \in Results /\ Honest(m, c, net'.accepted, net'.got)
  BY <1>3, <1>4, <1>5, ResultType DEF Honest
<1>7. inbox' = Append(inbox, m)
  BY <1>1, <1>5
<1>8. net.accepted \subseteq net'.accepted /\ net'.accepted \subseteq net.accepted \cup {Current(s).cmd}
  BY <1>3
<1> QED BY <1>0, <1>1, <1>2, <1>3, <1>6, <1>7, <1>8, StepExecuted

LEMMA StepNothing == ASSUME IInv, ModemFindsNothing PROVE IInv'
<1>0. PICK c : c = Current(s)
  OBVIOUS
<1>1. /\ OnWire /\ executed' = TRUE /\ UNCHANGED <<conf, s, net, report>> /\ c.cmd = "CMGR"
      /\ inbox' = Append(inbox, Msg("OK", None))
  BY <1>0 DEF ModemFindsNothing
<1>2. Core(s, FALSE, inbox, net.accepted, net.got) /\ inbox \in Seq(Results)
  BY <1>1, WireCore
<1>3. PICK m : m = Msg("OK", None)
  OBVIOUS
<1>4. m \in Results /\ Honest(m, c, net'.accepted, net'.got)
  BY <1>1, <1>3, ResultType DEF Honest, Settings
<1>5. inbox' = Append(inbox, m)
  BY <1>1, <1>3
<1>6. /\ net' \in Net /\ net.accepted \subseteq net'.accepted
      /\ net'.accepted \subseteq net.accepted \cup {Current(s).cmd}
  BY <1>1 DEF IInv
<1> QED BY <1>0, <1>1, <1>2, <1>4, <1>5, <1>6, StepExecuted

(* an unsolicited code *)
LEMMA StepAnnounce ==
  ASSUME IInv, UNCHANGED <<conf, s, executed, report>>,
         net' \in Net, net'.accepted = net.accepted, net'.got = net.got,
         NEW m \in Results, ~Final(m), Announce(m)
  PROVE  IInv'
<1>1. Core(s, executed, inbox, net.accepted, net.got)
  BY DEF IInv
<1>2. Core(s, executed, inbox', net.accepted, net.got)
  <2>1. CASE s.up
    <3>1. Core(s, executed, Append(inbox, m), net.accepted, net.got)
      BY <1>1, <2>1, CoreTold
    <3> QED BY <2>1, <3>1 DEF Announce
  <2>2. CASE ~s.up
    BY <1>1, <2>2 DEF Announce
  <2> QED BY <2>1, <2>2
<1>3. Core(s', executed', inbox', net'.accepted, net'.got)
  BY <1>2
<1> QED BY <1>3 DEF IInv

LEMMA StepArrives == ASSUME IInv, NEW i \in Slots, MessageArrives(i) PROVE IInv'
<1>1. PICK m : m = Msg("CMTI", i)
  OBVIOUS
<1>2. m \in Results /\ ~Final(m)
  BY <1>1, ResultType DEF Final
<1>3. net' \in Net /\ net'.accepted = net.accepted /\ net'.got = net.got
  BY DEF MessageArrives, IInv, Net
<1>4. Announce(m) /\ UNCHANGED <<conf, s, executed, report>>
  BY <1>1 DEF MessageArrives
<1> QED BY <1>2, <1>3, <1>4, StepAnnounce

LEMMA StepRegistration == ASSUME IInv, RegistrationChanges PROVE IInv'
<1>0. PICK b \in BOOLEAN : b = net.reg
  BY DEF IInv, Net
<1>1. PICK m : m = Msg("CREG", ~b)
  OBVIOUS
<1>2. (~b) \in BOOLEAN
  BY Zenon
<1>3. m \in Results /\ ~Final(m)
  BY <1>1, <1>2, ResultType DEF Final
<1>4. net' \in Net /\ net'.accepted = net.accepted /\ net'.got = net.got
  BY DEF RegistrationChanges, IInv, Net
<1>5. Announce(m) /\ UNCHANGED <<conf, s, executed, report>>
  BY <1>0, <1>1 DEF RegistrationChanges
<1> QED BY <1>3, <1>4, <1>5, StepAnnounce

LEMMA NextIInv == IInv /\ [Next]_vars => IInv'
<1> SUFFICES ASSUME IInv, [Next]_vars PROVE IInv'
  OBVIOUS
<1>1. CASE Connect
  BY <1>1, StepConnect
<1>2. CASE Lost
  BY <1>2, StepDisconnect DEF Lost
<1>3. CASE Stop
  BY <1>3, StepStop
<1>4. CASE Ping
  BY <1>4, StepPing
<1>5. CASE Handle
  <2>1. CASE at_response_ok BY <2>1, StepOk
  <2>2. CASE at_response_error BY <2>2, StepError
  <2>3. CASE at_response_sms_prompt BY <2>3, StepPrompt
  <2>4. CASE at_response_cmgr BY <2>4, StepCmgr
  <2>5. CASE at_response_cmti BY <2>5, StepCmti
  <2>6. CASE at_response_creg BY <2>6, StepCreg
  <2> QED BY <1>5, <2>1, <2>2, <2>3, <2>4, <2>5, <2>6 DEF Handle
<1>6. CASE \E when \in {"gracefully", "convenient", "now"} : Request(when)
  BY <1>6, StepRequest
<1>7. CASE \E m \in Msgs : Send(m)
  BY <1>7, StepSend
<1>8. CASE \E value \in CcwaSettings : send_ccwa_set(value)
  BY <1>8, StepCcwaSet
<1>9. CASE ModemAccepts
  BY <1>9, StepAccepts
<1>10. CASE ModemFindsNothing
  BY <1>10, StepNothing
<1>11. CASE \E c \in Refuses : ModemRefuses(c)
  BY <1>11, StepRefuses
<1>12. CASE \E i \in Slots : MessageArrives(i)
  BY <1>12, StepArrives
<1>13. CASE RegistrationChanges
  BY <1>13, StepRegistration
<1>14. CASE UNCHANGED vars
  <2>1. Core(s', executed', inbox', net'.accepted, net'.got)
    BY <1>14 DEF vars, IInv
  <2> QED BY <1>14, <2>1 DEF vars, IInv
<1> QED
  BY <1>1, <1>2, <1>3, <1>4, <1>5, <1>6, <1>7, <1>8, <1>9, <1>10, <1>11, <1>12, <1>13, <1>14 DEF Next

(* The invariant: answers belong to the command at the head, what is left  *)
(* of the list tells what the modem has accepted, and the flags say so.    *)
THEOREM Invariance == Spec => []IInv
<1>1. Init => IInv
  BY InitIInv
<1>2. IInv /\ [Next]_vars => IInv'
  BY NextIInv
<1> QED BY <1>1, <1>2, PTL DEF Spec

-----------------------------------------------------------------------------
(* What follows from it.                                                   *)

(* The driver's record, the results and the modem have their types, and no *)
(* task of the queue is empty.                                             *)
THEOREM TypeCorrect == Spec => []TypeOK
<1>1. IInv => TypeOK
  <2> SUFFICES ASSUME IInv PROVE TypeOK
    OBVIOUS
  <2>1. /\ s \in Driver /\ executed \in BOOLEAN /\ inbox \in Seq(Results)
        /\ QueueOK(s.queue, net.accepted)
    BY DEF IInv, Core, Answers
  <2>2. \A i \in DOMAIN s.queue : s.queue[i] # <<>>
    <3>1. DOMAIN s.queue = 1 .. Len(s.queue)
      BY <2>1 DEF QueueOK
    <3> QED BY <2>1, <3>1, TaskType DEF QueueOK
  <2> QED BY <2>1, <2>2 DEF IInv, TypeOK
<1> QED BY <1>1, Invariance, PTL

(* A device that says it is ready was set up on this connection, whatever  *)
(* the modem refused and however often the connection was lost before, and *)
(* has_voice and has_sms are what the modem said (at_response_ok,          *)
(* at_response_error).                                                     *)
THEOREM Readiness == Spec => []ReadyMeansTold
<1>1. IInv => ReadyMeansTold
  <2> SUFFICES ASSUME IInv, s.initialized
               PROVE  /\ {"CMGF", "CPMS", "CNMI"} \subseteq net.accepted /\ s.has_sms
                      /\ (s.has_voice <=> "CVOICE" \in net.accepted)
    BY DEF ReadyMeansTold
  <2>1. Progress(s, executed, net.accepted) /\ Calm(s, executed, inbox)
    BY DEF IInv, Core
  <2>2. s.up
    BY <2>1 DEF Calm, Idle
  <2> QED BY <2>1, <2>2 DEF Progress
<1> QED BY <1>1, Invariance, PTL

(* No message waits for a modem that was not told the message format: what *)
(* send2 tested still holds when the queue gets to the message.            *)
THEOREM MessageFormat == Spec => []MessageNeedsFormat
<1>1. IInv => MessageNeedsFormat
  <2> SUFFICES ASSUME IInv, Queued("CMGS") \/ Queued("SMSTEXT") \/ Queued("CUSD")
               PROVE  "CMGF" \in net.accepted
    BY DEF MessageNeedsFormat
  <2>1. QueueOK(s.queue, net.accepted)
    BY DEF IInv, Core
  <2>2. PICK i \in DOMAIN s.queue : \E j \in DOMAIN s.queue[i] : s.queue[i][j].cmd \in MsgCmds
    BY DEF Queued, MsgCmds
  <2>3. i \in 1 .. Len(s.queue)
    BY <2>1 DEF QueueOK
  <2>4. s.queue[i][1].cmd \in MsgCmds
    BY <2>1, <2>2, <2>3, MessageFirst DEF QueueOK
  <2> QED BY <2>1, <2>3, <2>4 DEF QueueOK, TaskOK
<1> QED BY <1>1, Invariance, PTL

-----------------------------------------------------------------------------
(* What Service delivers: a message is deleted from the SIM only after it  *)
(* was read, its sender is told the truth once, and the network has the    *)
(* call waiting setting that the driver shows.  What each action does to   *)
(* the queue, the modem and the reports is one of a few kinds of step      *)
(* (Kinds); each of the three arguments goes over the kinds.               *)

-----------------------------------------------------------------------------
(* What can become of the queue.                                           *)

(* tasks are added behind the others, with first commands from N *)
Grown(q, p, N) ==
  /\ Len(p) >= Len(q)
  /\ \A i \in 1 .. Len(q) : p[i] = q[i]
  /\ \A i \in 1 .. Len(p) : i \in 1 .. Len(q) \/ p[i][1] \in N

(* the first task leaves, perhaps with the rest of the initialization      *)
(* added                                                                   *)
Plain == {c \in Entry : c.cmd \notin MsgCmds \cup {"CMGD", "CCWA_SET"}}
Shrunk(q, p) ==
  /\ Len(p) >= Len(q) - 1
  /\ \A i \in 1 .. Len(q) - 1 : p[i] = q[i + 1]
  /\ \A i \in 1 .. Len(p) : i \in 1 .. Len(q) - 1 \/ p[i][1] \in Plain

(* the first task goes on *)
Goes(q, p) ==
  /\ Len(p) = Len(q) /\ p # <<>> /\ Follows(q[1], p[1])
  /\ \A i \in 2 .. Len(q) : p[i] = q[i]

LEMMA QueueLen == ASSUME NEW q, NEW acc, QueueOK(q, acc) PROVE Len(q) \in Nat /\ (q # <<>> <=> Len(q) >= 1)
<1>1. q \in Seq(Task)
  BY DEF QueueOK
<1> QED BY <1>1, EmptySeq

LEMMA FirstEntry ==
  ASSUME NEW q, NEW acc, QueueOK(q, acc), NEW i \in 1 .. Len(q)
  PROVE  IsTask(q[i]) /\ q[i][1] \in Entry
<1>1. IsTask(q[i])
  BY DEF QueueOK
<1>2. q[i] \in Task /\ q[i] # <<>>
  BY <1>1, TaskType
<1> QED BY <1>1, <1>2 DEF Task

LEMMA GrownOnce ==
  ASSUME NEW q, NEW acc, QueueOK(q, acc), NEW t, Queueable(t, acc), NEW N, t[1] \in N,
         NEW p, p = Append(q, t)
  PROVE  Grown(q, p, N) /\ QueueOK(p, acc) /\ Len(p) = Len(q) + 1 /\ p[Len(p)] = t /\ Len(q) \in Nat
<1>1. /\ QueueOK(p, acc) /\ Len(p) = Len(q) + 1 /\ Len(q) \in Nat
      /\ \A i \in 1 .. Len(q) : p[i] = q[i]
      /\ p[Len(q) + 1] = t
  BY QueueAppend DEF Queueable
<1>2. \A i \in 1 .. Len(p) : i \in 1 .. Len(q) \/ i = Len(q) + 1
  BY <1>1
<1>3. Len(p) >= Len(q)
  BY <1>1
<1>4. \A i \in 1 .. Len(p) : i \in 1 .. Len(q) \/ p[i][1] \in N
  BY <1>1, <1>2
<1> QED BY <1>1, <1>3, <1>4 DEF Grown

LEMMA GrownTwice ==
  ASSUME NEW q, NEW a, NEW p, Len(q) \in Nat, Len(a) \in Nat, Len(p) \in Nat,
         NEW N, Grown(q, a, N), Grown(a, p, N)
  PROVE  Grown(q, p, N)
<1>1. Len(p) >= Len(q) /\ \A i \in 1 .. Len(q) : i \in 1 .. Len(a)
  BY DEF Grown
<1>2. \A i \in 1 .. Len(q) : p[i] = q[i]
  BY <1>1 DEF Grown
<1>3. \A i \in 1 .. Len(p) : i \in 1 .. Len(q) \/ p[i][1] \in N
  BY DEF Grown
<1> QED BY <1>1, <1>2, <1>3 DEF Grown

LEMMA FirstPlain ==
  ASSUME NEW t, IsTask(t), t[1].cmd \notin MsgCmds \cup {"CMGD", "CCWA_SET"}
  PROVE  t[1] \in Plain
<1>1. t \in Task /\ t # <<>>
  BY TaskType
<1>2. t[1] \in Entry
  BY <1>1 DEF Task
<1> QED BY <1>2 DEF Plain

(* what an answer makes of the queue *)
LEMMA RemovedShape ==
  ASSUME NEW r \in Driver, NEW acc, QueueOK(r.queue, acc), r.queue # <<>>, NEW res,
         Justified(r.queue[1], res, acc),
         NEW f, f = at_queue_remove_cmd(r, res)
  PROVE  /\ f = [r EXCEPT !.queue = f.queue]
         /\ Ends(r.queue[1], res) => Shrunk(r.queue, f.queue)
         /\ ~Ends(r.queue[1], res) => Goes(r.queue, f.queue)
<1>1. /\ f = [r EXCEPT !.queue = f.queue]
      /\ Ends(r.queue[1], res) => f.queue = Tail(r.queue)
      /\ ~Ends(r.queue[1], res) => Len(r.queue[1]) # 1 /\ f.queue = Advanced(r.queue)
  BY RemoveIs
<1>2. IsTask(r.queue[1]) /\ TaskOK(r.queue[1], acc)
  BY HeadTask
<1>3. ASSUME Ends(r.queue[1], res) PROVE Shrunk(r.queue, f.queue)
  <2>1. PICK p : p = Tail(r.queue)
    OBVIOUS
  <2>2. /\ Len(p) = Len(r.queue) - 1 /\ Len(r.queue) \in Nat \ {0}
        /\ \A i \in 1 .. Len(p) : p[i] = r.queue[i + 1]
    BY <2>1, QueueDrop
  <2>3. Shrunk(r.queue, p)
    BY <2>2 DEF Shrunk
  <2> QED BY <1>1, <1>3, <2>1, <2>3
<1>4. ASSUME ~Ends(r.queue[1], res) PROVE Goes(r.queue, f.queue)
  <2>1. PICK p : p = Advanced(r.queue)
    OBVIOUS
  <2>2. Len(r.queue[1]) # 1 /\ f.queue = p
    BY <1>1, <1>4, <2>1
  <2>3. TaskOK(Tail(r.queue[1]), acc)
    BY <1>2, <1>4, <2>2, GoesOn DEF Justified
  <2>4. /\ Len(p) = Len(r.queue) /\ p # <<>> /\ p[1] = Tail(r.queue[1])
        /\ \A i \in 2 .. Len(r.queue) : p[i] = r.queue[i]
        /\ Follows(r.queue[1], Tail(r.queue[1]))
    BY <2>1, <2>2, <2>3, QueueAdvance, SMTT(30)
  <2> QED BY <2>2, <2>4 DEF Goes
<1> QED BY <1>1, <1>3, <1>4

-----------------------------------------------------------------------------
(* The kinds of step.                                                      *)

NoErrors(b) == \A k \in 1 .. Len(b) : b[k].type # "ERROR"
SameNet == net'.got = net.got /\ net'.ccwa = net.ccwa /\ net'.sim = net.sim

(* at most a message arrives *)
Quiet ==
  /\ s'.queue = s.queue /\ executed' = executed /\ s'.registered = s.registered
  /\ UNCHANGED <<conf, report>> /\ net'.got = net.got /\ net'.ccwa = net.ccwa
  /\ \A i \in Slots : net'.sim[i] = net.sim[i] \/ net.sim[i] = "empty"
  /\ NoErrors(inbox) => NoErrors(inbox')

(* the device goes down *)
Gone ==
  /\ s'.queue = <<>> /\ ~executed' /\ ~s'.registered /\ SameNet /\ UNCHANGED <<conf, report>>

(* tasks are queued: any but a message or call waiting, a message, call    *)
(* waiting                                                                 *)
Queues(N) ==
  /\ Grown(s.queue, s'.queue, N) /\ executed' = executed /\ SameNet
  /\ NoErrors(inbox) => NoErrors(inbox')
QueuesPlain ==
  /\ Queues(Plain) /\ UNCHANGED <<conf, report>>
  /\ s'.registered => s.registered \/ conf.callwaiting = "auto"
QueuesMessage(m) ==
  /\ Queues({c \in Entry : c.cmd \in {"CMGS", "CUSD"} /\ c.arg = m})
  /\ Len(s'.queue) = Len(s.queue) + 1
  /\ report[m] = "none" /\ report' = [report EXCEPT ![m] = "queued"]
  /\ conf' = conf /\ s'.registered = s.registered
QueuesCcwa ==
  /\ Queues({c \in Entry : c.cmd \notin MsgCmds \cup {"CMGD"}})
  /\ Len(s'.queue) >= 1 /\ Len(s'.queue) > Len(s.queue)
  /\ s'.queue[Len(s'.queue)][1] = Cmd("CCWA_SET", conf'.callwaiting)
  /\ UNCHANGED report

(* a command is answered *)
Answer(res) ==
  /\ executed /\ ~executed' /\ s.queue # <<>> /\ conf' = conf /\ s'.registered = s.registered
  /\ Ends(s.queue[1], res) => Shrunk(s.queue, s'.queue)
  /\ ~Ends(s.queue[1], res) => Goes(s.queue, s'.queue)
  /\ net'.got = net.got /\ net'.ccwa = net.ccwa
Carrier == s.queue[1][1]
OkAnswer ==
  /\ Answer("OK") /\ SameNet /\ Carrier.cmd # "CMGS"
  /\ IF Carrier.cmd \in {"SMSTEXT", "CUSD"}
     THEN Carrier.arg \in net.got /\ report' = [report EXCEPT ![Carrier.arg] = "Sent"]
     ELSE UNCHANGED report
ErrorAnswer ==
  /\ Answer("ERROR") /\ SameNet /\ ~NoErrors(inbox)
  /\ IF Carrier.cmd \in MsgCmds THEN report' = [report EXCEPT ![Carrier.arg] = "NotSent"]
                                ELSE UNCHANGED report
PromptAnswer == Answer("PROMPT") /\ SameNet /\ UNCHANGED report /\ Carrier.cmd = "CMGS"
CmgrAnswer ==
  /\ Answer("CMGR") /\ UNCHANGED report /\ Carrier.cmd = "CMGR"
  /\ net'.sim = [net.sim EXCEPT ![Carrier.arg] = "read"]

(* the modem executes a command, or refuses it *)
Executes ==
  /\ ~executed /\ executed' /\ s.queue # <<>> /\ UNCHANGED <<conf, s, report>>
  /\ NoErrors(inbox)
Accepted == Executes /\ net' = AcceptEffect(Carrier) /\ NoErrors(inbox')
Refused ==
  /\ Executes /\ net'.got = net.got /\ net'.sim = net.sim
  /\ net'.ccwa = IF Carrier.cmd = "CCWA_SET" THEN "refused" ELSE net.ccwa

LEMMA StillNoErrors ==
  ASSUME NEW b \in Seq(Results)
  PROVE  /\ b # <<>> /\ NoErrors(b) => NoErrors(Tail(b))
         /\ \A m \in Results : NoErrors(b) /\ m.type # "ERROR" => NoErrors(Append(b, m))
<1>1. ASSUME b # <<>>, NoErrors(b) PROVE NoErrors(Tail(b))
  BY <1>1, InboxTail DEF NoErrors
<1>2. ASSUME NEW m \in Results, NoErrors(b), m.type # "ERROR" PROVE NoErrors(Append(b, m))
  <2>1. PICK a : a = Append(b, m)
    OBVIOUS
  <2>2. \A i \in 1 .. Len(a) : (i \in 1 .. Len(b) /\ a[i] = b[i]) \/ a[i] = m
    BY <2>1, InboxAppend
  <2>3. NoErrors(a)
    BY <1>2, <2>2 DEF NoErrors
  <2> QED BY <2>1, <2>3
<1> QED BY <1>1, <1>2

(* what all arguments know of the state *)
LEMMA Known ==
  ASSUME IInv
  PROVE  /\ QueueOK(s.queue, net.accepted) /\ s \in Driver /\ inbox \in Seq(Results) /\ net \in Net
         /\ executed \in BOOLEAN /\ conf \in Shared
         /\ report \in [Msgs -> {"none", "queued", "Sent", "NotSent"}]
         /\ ~s.up => ~s.registered /\ s.queue = <<>> /\ ~executed
BY DEF IInv, Core, Calm, Answers, Idle

(* a task is queued behind others *)
LEMMA QueuesOne ==
  ASSUME IInv, NEW t, Queueable(t, net.accepted), NEW N, t[1] \in N,
         s'.queue = Append(s.queue, t), executed' = executed, SameNet,
         inbox' = inbox \/ (inbox # <<>> /\ inbox' = Tail(inbox))
  PROVE  /\ Queues(N) /\ Len(s'.queue) = Len(s.queue) + 1 /\ Len(s.queue) \in Nat
         /\ s'.queue[Len(s'.queue)] = t
<1>0. PICK p : p = Append(s.queue, t)
  OBVIOUS
<1>1. /\ Grown(s.queue, p, N) /\ Len(p) = Len(s.queue) + 1 /\ Len(s.queue) \in Nat
      /\ p[Len(p)] = t
  <2>1. QueueOK(s.queue, net.accepted)
    BY Known
  <2>2. Grown(s.queue, p, N)
    BY <1>0, <2>1, GrownOnce
  <2>3. Len(p) = Len(s.queue) + 1 /\ Len(s.queue) \in Nat /\ p[Len(p)] = t
    BY <1>0, <2>1, GrownOnce
  <2> QED BY <2>2, <2>3
<1>2. NoErrors(inbox) => NoErrors(inbox')
  BY Known, StillNoErrors
<1>3. s'.queue = p
  BY <1>0
<1> QED BY <1>1, <1>2, <1>3 DEF Queues

LEMMA EnqueIs ==
  ASSUME NEW r \in Driver, NEW t
  PROVE  /\ Enque(r, t).queue = Append(r.queue, t) /\ Enque(r, t).registered = r.registered
         /\ Enque(r, t).up = r.up
BY DEF Enque, Driver

(* Each action is of one of the kinds. *)
LEMMA KindConnect == ASSUME IInv, Connect PROVE QueuesPlain
<1>1. PICK t : t = [i \in DOMAIN InitCmds("AT") |-> Cmd(InitCmds("AT")[i], None)]
  OBVIOUS
<1>2. IsInit(t) /\ IsTask(t) /\ t[1].cmd \in InitNames
  BY <1>1, Known, WholeList, Standing DEF IsTask
<1>3. t[1] \in Plain
  BY <1>2, FirstPlain, OtherNames DEF MsgCmds
<1>4. s.queue = <<>> /\ s' = Enque([s EXCEPT !.up = TRUE, !.restart = "none"], t)
  BY <1>1, Known DEF Connect, at_enque_initialization
<1>5. s'.queue = Append(<<>>, t) /\ s'.registered = s.registered
  BY <1>4, Known DEF Enque, Driver
<1>6. Append(<<>>, t) = <<t>>
  OBVIOUS
<1>7. Grown(s.queue, s'.queue, Plain)
  <2>1. s'.queue = <<t>> /\ Len(<<>>) = 0
    BY <1>5, <1>6
  <2>2. s'.queue[1] = t /\ Len(s'.queue) = 1
    BY <2>1, Single
  <2> QED BY <1>3, <1>4, <2>1, <2>2 DEF Grown
<1>8. /\ executed' = executed /\ SameNet /\ UNCHANGED <<conf, report, inbox>>
  BY Known DEF Connect, SameNet, Net
<1> QED BY <1>5, <1>7, <1>8 DEF QueuesPlain, Queues

LEMMA KindDown == ASSUME IInv, Disconnect(s.restart), UNCHANGED <<conf, net, report>> PROVE Gone
BY DEF Disconnect, Down, Gone, SameNet

LEMMA KindRequest == ASSUME IInv, NEW when \in {"gracefully", "convenient", "now"}, Request(when) PROVE Quiet
<1>1. s'.queue = s.queue /\ s'.registered = s.registered
  BY Known DEF Request, pvt_try_restate, Driver
<1> QED BY <1>1 DEF Request, Quiet

LEMMA KindPing == ASSUME IInv, Ping PROVE QueuesPlain
<1>1. PICK t : t = <<Cmd("AT", None)>>
  OBVIOUS
<1>2. Queueable(t, net.accepted) /\ t[1].cmd = "AT"
  BY <1>1, QueueSingle, Single DEF Cmd
<1>3. t[1] \in Plain
  BY <1>2, FirstPlain DEF Queueable, MsgCmds
<1>4. s' = Enque(s, t) /\ UNCHANGED <<conf, executed, inbox, net, report>>
  BY <1>1 DEF Ping
<1>5. s'.queue = Append(s.queue, t) /\ s'.registered = s.registered
  BY <1>4, Known, EnqueIs
<1>6. Queues(Plain)
  BY <1>2, <1>3, <1>4, <1>5, QueuesOne DEF SameNet
<1> QED BY <1>4, <1>5, <1>6 DEF QueuesPlain

LEMMA KindSend == ASSUME IInv, NEW m \in Msgs, Send(m) PROVE QueuesMessage(m)
<1>1. PICK t : t = MessageTask(m)
  OBVIOUS
<1>2. Queueable(t, net.accepted) /\ t[1].cmd \in {"CMGS", "CUSD"} /\ t[1].arg = m
  BY <1>1, ReadyTold, QueueMessage DEF Send
<1>3. t[1] \in {c \in Entry : c.cmd \in {"CMGS", "CUSD"} /\ c.arg = m}
  <2>1. t \in Task /\ t # <<>>
    BY <1>2, TaskType DEF Queueable
  <2>2. t[1] \in Entry
    BY <2>1 DEF Task
  <2> QED BY <1>2, <2>2
<1>4. /\ s' = Enque(s, t) /\ UNCHANGED <<conf, executed, inbox, net>>
      /\ report[m] = "none" /\ report' = [report EXCEPT ![m] = "queued"]
  BY <1>1 DEF Send, at_enque_message, MessageTask
<1>5. s'.queue = Append(s.queue, t) /\ s'.registered = s.registered
  BY <1>4, Known, EnqueIs
<1>6. /\ Queues({c \in Entry : c.cmd \in {"CMGS", "CUSD"} /\ c.arg = m})
      /\ Len(s'.queue) = Len(s.queue) + 1
  BY <1>2, <1>3, <1>4, <1>5, QueuesOne DEF SameNet
<1> QED BY <1>4, <1>5, <1>6 DEF QueuesMessage

LEMMA FirstCcwa ==
  ASSUME NEW v \in CcwaSettings, NEW t, t = CcwaTask(v)
  PROVE  t[1] = Cmd("CCWA_SET", v) /\ t[1] \in {c \in Entry : c.cmd \notin MsgCmds \cup {"CMGD"}}
<1>1. t[1] = Cmd("CCWA_SET", v)
  BY Pair DEF CcwaTask
<1>2. Cmd("CCWA_SET", v) \in Entry
  BY EntryType, NoneIsArg, MoreCommands
<1> QED BY <1>1, <1>2 DEF Cmd, MsgCmds

LEMMA KindCcwaSet == ASSUME IInv, NEW v \in CcwaSettings, send_ccwa_set(v) PROVE QueuesCcwa
<1>1. PICK t : t = CcwaTask(v)
  OBVIOUS
<1>2. Queueable(t, net.accepted)
  BY <1>1, QueueCcwa
<1>3. t[1] = Cmd("CCWA_SET", v) /\ t[1] \in {c \in Entry : c.cmd \notin MsgCmds \cup {"CMGD"}}
  BY <1>1, FirstCcwa
<1>4. /\ s' = Enque(s, t) /\ UNCHANGED <<executed, inbox, net, report>>
      /\ conf' = [conf EXCEPT !.callwaiting = v]
  BY <1>1 DEF send_ccwa_set, at_enque_set_ccwa, CcwaTask
<1>5. s'.queue = Append(s.queue, t) /\ conf'.callwaiting = v
  BY <1>4, Known, EnqueIs DEF Shared
<1>6. /\ Queues({c \in Entry : c.cmd \notin MsgCmds \cup {"CMGD"}})
      /\ Len(s'.queue) = Len(s.queue) + 1 /\ Len(s.queue) \in Nat
      /\ s'.queue[Len(s'.queue)] = t
  BY <1>2, <1>3, <1>4, <1>5, QueuesOne DEF SameNet
<1>7. Len(s'.queue) >= 1 /\ Len(s'.queue) > Len(s.queue)
  BY <1>6
<1> QED BY <1>3, <1>4, <1>5, <1>6, <1>7 DEF QueuesCcwa

(* a task ended or went on *)
LEMMA AnswerIs ==
  ASSUME IInv, NEW type \in {"OK", "ERROR", "PROMPT", "CMGR"}, Got(type), Answered,
         Justified(s.queue[1], type, net.accepted),
         s'.queue = at_queue_remove_cmd(s, type).queue, s'.registered = s.registered,
         conf' = conf, net'.got = net.got, net'.ccwa = net.ccwa
  PROVE  Answer(type)
<1>1. executed = TRUE /\ s.queue # <<>> /\ QueueOK(s.queue, net.accepted)
  BY GotAnswer
<1>2. PICK f : f = at_queue_remove_cmd(s, type)
  OBVIOUS
<1>3. /\ Ends(s.queue[1], type) => Shrunk(s.queue, f.queue)
      /\ ~Ends(s.queue[1], type) => Goes(s.queue, f.queue)
  BY <1>1, <1>2, Known, RemovedShape
<1>4. s'.queue = f.queue
  BY <1>2
<1> QED BY <1>1, <1>3, <1>4 DEF Answer, Answered

(* flags do not change what an answer makes of the queue *)
LEMMA RemoveFlags ==
  ASSUME NEW r \in Driver, NEW e \in Driver, e.queue = r.queue, NEW res
  PROVE  /\ at_queue_remove_cmd(e, res).queue = at_queue_remove_cmd(r, res).queue
         /\ at_queue_remove_cmd(e, res).registered = e.registered
BY DEF at_queue_remove_cmd, Driver

LEMMA KindOk == ASSUME IInv, at_response_ok PROVE Quiet \/ OkAnswer
<1>0. Got("OK") /\ UNCHANGED <<conf, net>>
  BY DEF at_response_ok
<1>1. CASE Expected(Current(s)) = "PROMPT"
  <2>1. inbox' = Tail(inbox) /\ UNCHANGED <<s, executed, report>> /\ inbox # <<>>
    BY <1>0, <1>1 DEF at_response_ok, Got
  <2>2. NoErrors(inbox) => NoErrors(inbox')
    BY <2>1, Known, StillNoErrors
  <2> QED BY <1>0, <2>1, <2>2 DEF Quiet
<1>2. CASE Expected(Current(s)) # "PROMPT"
  <2>1. s' = at_queue_remove_cmd(OkEffect(s, Current(s)), "OK") /\ Answered
    BY <1>2 DEF at_response_ok
  <2>2. /\ s.queue # <<>> /\ Current(s) = s.queue[1][1]
        /\ Honest(Head(inbox), Current(s), net.accepted, net.got)
    BY <1>0, GotAnswer
  <2>3. PICK e : e = OkEffect(s, Current(s))
    OBVIOUS
  <2>4. e \in Driver /\ e.queue = s.queue /\ e.registered = s.registered
    BY <2>3, Known DEF OkEffect, pvt_try_restate, Driver
  <2>5. s'.queue = at_queue_remove_cmd(s, "OK").queue /\ s'.registered = s.registered
    BY <2>1, <2>3, <2>4, Known, RemoveFlags
  <2>6. Justified(s.queue[1], "OK", net.accepted)
    BY <1>0, <2>2 DEF Justified, Honest, Got
  <2>7. Answer("OK")
    BY <1>0, <2>1, <2>5, <2>6, AnswerIs
  <2>8. Carrier = Current(s) /\ Carrier.cmd # "CMGS"
    BY <1>2, <2>2 DEF Carrier, Expected
  <2>9. Carrier.cmd \in {"SMSTEXT", "CUSD"} => Carrier.arg \in net.got
    BY <1>0, <2>2, <2>8 DEF Honest, Got
  <2>10. IF Carrier.cmd \in {"SMSTEXT", "CUSD"}
         THEN report' = [report EXCEPT ![Carrier.arg] = "Sent"] ELSE UNCHANGED report
    BY <1>2, <2>8 DEF at_response_ok, Reported
  <2>11. OkAnswer
    BY <1>0, <2>7, <2>8, <2>9, <2>10 DEF OkAnswer, SameNet
  <2> QED BY <2>11
<1> QED BY <1>1, <1>2

(* The rest of the initialization that is queued after a refused CVOICE is *)
(* behind all others, and CVOICE leaves with its task.                     *)
LEMMA VoiceRefused ==
  ASSUME NEW r \in Driver, NEW acc, QueueOK(r.queue, acc), r.queue # <<>>,
         r.queue[1][1].cmd = "CVOICE",
         NEW f, f = at_queue_remove_cmd(ErrorEffect(r, Current(r)), "ERROR")
  PROVE  Shrunk(r.queue, f.queue) /\ f.registered = r.registered
<1>1. PICK t : t = [i \in DOMAIN InitCmds("CMGF") |-> Cmd(InitCmds("CMGF")[i], None)]
  OBVIOUS
<1>2. IsInit(t) /\ IsTask(t) /\ Len(t) = 5 /\ t[1].cmd \in InitNames
  BY <1>1, RestOfList, Standing DEF IsTask
<1>3. TaskOK(t, acc) /\ ~HeadOnly(t) /\ t[1] \in Plain
  BY <1>2, OtherNames, FirstPlain DEF TaskOK, HeadOnly, MsgCmds
<1>4. PICK a : a = Append(r.queue, t)
  OBVIOUS
<1>5. /\ QueueOK(a, acc) /\ a # <<>> /\ a[1] = r.queue[1] /\ Len(a) = Len(r.queue) + 1
      /\ Len(r.queue) \in Nat \ {0} /\ a[Len(r.queue) + 1] = t
      /\ \A i \in 1 .. Len(r.queue) : a[i] = r.queue[i]
  BY <1>2, <1>3, <1>4, QueueAppend, HeadTask
<1>6. Current(r) = r.queue[1][1]
  BY HeadTask DEF Current
<1>7. PICK e : e = ErrorEffect(r, Current(r))
  OBVIOUS
<1>8. e = [r EXCEPT !.has_voice = FALSE, !.queue = a]
  BY <1>1, <1>4, <1>6, <1>7 DEF ErrorEffect, at_enque_initialization, Enque, Driver
<1>9. e \in Driver /\ e.queue = a /\ e.registered = r.registered
  BY <1>5, <1>8 DEF Driver, QueueOK, Task, Entry
<1>10. Head(e.queue) = a[1] /\ Head(a[1]) = a[1][1]
  BY <1>5, <1>9, HeadTask
<1>11. f = [e EXCEPT !.queue = Tail(a)]
  BY <1>5, <1>7, <1>9, <1>10 DEF at_queue_remove_cmd, Expected, Ignorable
<1>12. PICK p : p = Tail(a)
  OBVIOUS
<1>13. Len(p) = Len(a) - 1 /\ \A i \in 1 .. Len(p) : p[i] = a[i + 1]
  BY <1>5, <1>12, QueueDrop
<1>14. Len(p) = Len(r.queue) /\ p[Len(r.queue)] = t
  BY <1>5, <1>13
<1>15. /\ \A i \in 1 .. Len(r.queue) - 1 : p[i] = r.queue[i + 1]
       /\ \A i \in 1 .. Len(p) : i \in 1 .. Len(r.queue) - 1 \/ i = Len(r.queue)
  <2>1. \A i \in 1 .. Len(r.queue) - 1 : i \in 1 .. Len(p) /\ i + 1 \in 1 .. Len(r.queue)
    BY <1>5, <1>14
  <2> QED BY <1>5, <1>13, <1>14, <2>1
<1>16. Shrunk(r.queue, p)
  BY <1>3, <1>5, <1>14, <1>15 DEF Shrunk
<1> QED BY <1>9, <1>11, <1>12, <1>16 DEF Driver

LEMMA KindError == ASSUME IInv, at_response_error PROVE Gone \/ ErrorAnswer
<1>0. Got("ERROR") /\ UNCHANGED <<conf, net>>
  BY DEF at_response_error
<1>1. CASE Current(s).cmd \in Fatal
  BY <1>0, <1>1, KindDown DEF at_response_error
<1>2. CASE Current(s).cmd \notin Fatal
  <2>1. s' = at_queue_remove_cmd(ErrorEffect(s, Current(s)), "ERROR") /\ Answered
    BY <1>2 DEF at_response_error
  <2>2. s.queue # <<>> /\ Current(s) = s.queue[1][1] /\ executed = TRUE
    BY <1>0, GotAnswer
  <2>3. Carrier = Current(s)
    BY <2>2 DEF Carrier
  <2>4. ~NoErrors(inbox)
    <3>1. inbox # <<>> /\ Head(inbox).type = "ERROR" /\ inbox \in Seq(Results)
      BY <1>0, Known DEF Got
    <3>2. Head(inbox) = inbox[1] /\ 1 \in 1 .. Len(inbox)
      BY <3>1, InboxTail
    <3> QED BY <3>1, <3>2 DEF NoErrors
  <2>5. IF Carrier.cmd \in MsgCmds THEN report' = [report EXCEPT ![Carrier.arg] = "NotSent"]
                                   ELSE UNCHANGED report
    BY <1>2, <2>3 DEF at_response_error, Reported, MsgCmds
  <2>6. Answer("ERROR")
    <3>1. CASE Carrier.cmd = "CVOICE"
      <4>1. Ends(s.queue[1], "ERROR")
        BY <3>1 DEF Ends, Expected, Ignorable, Carrier
      <4>2. Shrunk(s.queue, s'.queue) /\ s'.registered = s.registered
        BY <2>1, <2>2, <3>1, Known, VoiceRefused DEF Carrier
      <4> QED BY <1>0, <2>1, <2>2, <4>1, <4>2 DEF Answer, Answered
    <3>2. CASE Carrier.cmd # "CVOICE"
      <4>1. PICK e : e = ErrorEffect(s, Current(s))
        OBVIOUS
      <4>2. \/ e = s \/ e = pvt_try_restate(s) \/ e = pvt_try_restate([s EXCEPT !.incoming = FALSE])
        BY <2>3, <3>2, <4>1 DEF ErrorEffect
      <4>3. e \in Driver /\ e.queue = s.queue /\ e.registered = s.registered
        <5>1. CASE e = s
          BY <5>1, Known
        <5>2. CASE e = pvt_try_restate(s)
          BY <5>2, Known, Restate DEF Driver
        <5>3. CASE e = pvt_try_restate([s EXCEPT !.incoming = FALSE])
          <6>1. PICK r : r = [s EXCEPT !.incoming = FALSE]
            OBVIOUS
          <6>2. r \in Driver /\ r.queue = s.queue /\ r.registered = s.registered
            BY <6>1, Known DEF Driver
          <6>3. e \in Driver /\ e \in {r, [r EXCEPT !.restart = "now"]}
            BY <5>3, <6>1, <6>2, Restate
          <6> QED BY <6>2, <6>3 DEF Driver
        <5> QED BY <4>2, <5>1, <5>2, <5>3
      <4>4. s'.queue = at_queue_remove_cmd(s, "ERROR").queue /\ s'.registered = s.registered
        BY <2>1, <4>1, <4>3, Known, RemoveFlags
      <4>5. Justified(s.queue[1], "ERROR", net.accepted)
        BY <3>2 DEF Justified, Ends, Expected, Ignorable, Settings, Carrier
      <4> QED BY <1>0, <2>1, <4>4, <4>5, AnswerIs
    <3> QED BY <3>1, <3>2
  <2> QED BY <1>0, <2>4, <2>5, <2>6 DEF ErrorAnswer, SameNet
<1> QED BY <1>1, <1>2

LEMMA KindPrompt == ASSUME IInv, at_response_sms_prompt PROVE PromptAnswer
<1>0. /\ Got("PROMPT") /\ Answered /\ UNCHANGED <<conf, net, report>>
      /\ s' = at_queue_remove_cmd(s, "PROMPT")
  BY DEF at_response_sms_prompt
<1>1. Current(s) = s.queue[1][1] /\ Honest(Head(inbox), Current(s), net.accepted, net.got)
  BY <1>0, GotAnswer
<1>2. Carrier.cmd = "CMGS"
  BY <1>0, <1>1 DEF Honest, Got, Carrier
<1>3. Justified(s.queue[1], "PROMPT", net.accepted)
  BY <1>2 DEF Justified, Settings, Carrier
<1>4. s'.registered = s.registered
  BY <1>0, Known, RemoveFlags
<1>5. Answer("PROMPT")
  BY <1>0, <1>3, <1>4, AnswerIs
<1> QED BY <1>0, <1>2, <1>5 DEF PromptAnswer, SameNet

LEMMA KindCmgr == ASSUME IInv, at_response_cmgr PROVE CmgrAnswer
<1>0. /\ Got("CMGR") /\ Answered /\ UNCHANGED <<conf, report>>
      /\ net' = [net EXCEPT !.sim[Head(inbox).arg] = "read"]
  BY DEF at_response_cmgr
<1>1. Current(s) = s.queue[1][1] /\ Honest(Head(inbox), Current(s), net.accepted, net.got)
  BY <1>0, GotAnswer
<1>2. Carrier.cmd = "CMGR" /\ Head(inbox).arg = Carrier.arg
  BY <1>0, <1>1 DEF Honest, Got, Carrier
<1>3. Justified(s.queue[1], "CMGR", net.accepted)
  BY <1>2 DEF Justified, Settings, Carrier
<1>4. PICK f : f = at_queue_remove_cmd(s, "CMGR")
  OBVIOUS
<1>5. f = [s EXCEPT !.queue = f.queue] /\ f.registered = s.registered
  BY <1>4, Known DEF at_queue_remove_cmd, Driver
<1>6. s'.queue = f.queue /\ s'.registered = f.registered
  BY <1>4, <1>5, Known DEF at_response_cmgr, pvt_try_restate, Driver
<1>7. net'.sim = [net.sim EXCEPT ![Carrier.arg] = "read"] /\ net'.got = net.got /\ net'.ccwa = net.ccwa
  BY <1>0, <1>2, Known DEF Net
<1>8. Answer("CMGR")
  BY <1>0, <1>3, <1>4, <1>5, <1>6, <1>7, AnswerIs
<1> QED BY <1>0, <1>2, <1>7, <1>8 DEF CmgrAnswer

LEMMA KindCmti == ASSUME IInv, at_response_cmti PROVE Quiet \/ QueuesPlain
<1>0. Got("CMTI") /\ inbox' = Tail(inbox) /\ inbox # <<>> /\ UNCHANGED <<conf, executed, net, report>>
  BY DEF at_response_cmti, Got
<1>1. Head(inbox) \in Results /\ Head(inbox).type = "CMTI"
  BY <1>0, GotCore
<1>2. PICK t : t = ReadTask(Head(inbox).arg)
  OBVIOUS
<1>3. Queueable(t, net.accepted) /\ t[1].cmd = "CMGR"
  BY <1>1, <1>2, ResultArg, QueueRead
<1>4. t[1] \in Plain
  BY <1>3, FirstPlain DEF Queueable, MsgCmds
<1>5. s' = s \/ s' = [Enque(s, t) EXCEPT !.incoming = TRUE]
  BY <1>2 DEF at_response_cmti, at_enque_retrive_sms, ReadTask
<1>6. CASE s' = s
  <2>1. NoErrors(inbox) => NoErrors(inbox')
    BY <1>0, Known, StillNoErrors
  <2> QED BY <1>0, <1>6, <2>1 DEF Quiet
<1>7. CASE s' = [Enque(s, t) EXCEPT !.incoming = TRUE]
  <2>1. s'.queue = Append(s.queue, t) /\ s'.registered = s.registered
    BY <1>7, Known DEF Enque, Driver
  <2>2. Queues(Plain)
    BY <1>0, <1>3, <1>4, <2>1, QueuesOne DEF SameNet
  <2> QED BY <1>0, <2>1, <2>2 DEF QueuesPlain
<1> QED BY <1>5, <1>6, <1>7

LEMMA KindCreg == ASSUME IInv, at_response_creg PROVE QueuesPlain \/ QueuesCcwa
<1>0. /\ Got("CREG") /\ inbox' = Tail(inbox) /\ inbox # <<>>
      /\ UNCHANGED <<conf, executed, net, report>>
      /\ s' = CregEffect(s, Head(inbox).arg)
  BY DEF at_response_creg, Got
<1>1. Head(inbox) \in Results /\ Head(inbox).type = "CREG"
  BY <1>0, GotCore
<1>2. PICK t : t = <<Cmd("COPS", None)>>
  OBVIOUS
<1>3. Queueable(t, net.accepted) /\ t[1].cmd = "COPS"
  BY <1>2, QueueSingle, Single DEF Cmd
<1>4. t[1] \in Plain
  BY <1>3, FirstPlain DEF Queueable, MsgCmds
<1>5. CASE Head(inbox).arg /\ ~s.registered /\ conf.callwaiting # "auto"
  <2>1. PICK c, a, p : /\ c = CcwaTask(conf.callwaiting) /\ a = Append(s.queue, t)
                       /\ p = Append(a, c)
    OBVIOUS
  <2>2. conf.callwaiting \in CcwaSettings
    BY <1>5, Known DEF Shared
  <2>3. PICK N : N = {x \in Entry : x.cmd \notin MsgCmds \cup {"CMGD"}}
    OBVIOUS
  <2>4. Plain \subseteq N /\ t[1] \in N
    BY <1>4, <2>3 DEF Plain
  <2>5. Queueable(c, net.accepted) /\ c[1] = Cmd("CCWA_SET", conf.callwaiting) /\ c[1] \in N
    BY <2>1, <2>2, <2>3, QueueCcwa, FirstCcwa
  <2>6. s'.queue = p
    BY <1>0, <1>2, <1>5, <2>1, Known DEF CregEffect, at_enque_set_ccwa, CcwaTask, Enque, Driver
  <2>7. /\ Grown(s.queue, a, N) /\ QueueOK(a, net.accepted) /\ Len(a) = Len(s.queue) + 1
        /\ Len(s.queue) \in Nat
    <3>1. QueueOK(s.queue, net.accepted)
      BY Known
    <3>2. Grown(s.queue, a, N)
      BY <1>3, <2>1, <2>4, <3>1, GrownOnce
    <3>3. QueueOK(a, net.accepted) /\ Len(a) = Len(s.queue) + 1 /\ Len(s.queue) \in Nat
      BY <1>3, <2>1, <3>1, QueueAppend DEF Queueable
    <3> QED BY <3>2, <3>3
  <2>8. Grown(a, p, N) /\ Len(p) = Len(a) + 1 /\ p[Len(p)] = c
    <3>1. Grown(a, p, N)
      BY <2>1, <2>5, <2>7, GrownOnce
    <3>2. Len(p) = Len(a) + 1 /\ p[Len(p)] = c
      BY <2>1, <2>5, <2>7, GrownOnce
    <3> QED BY <3>1, <3>2
  <2>9. Grown(s.queue, p, N)
    <3>1. Len(a) \in Nat /\ Len(p) \in Nat
      BY <2>7, <2>8
    <3> QED BY <2>7, <2>8, <3>1, GrownTwice
  <2>10. NoErrors(inbox) => NoErrors(inbox')
    BY <1>0, Known, StillNoErrors
  <2>11. Len(p) >= 1 /\ Len(p) > Len(s.queue)
    BY <2>7, <2>8
  <2>12. Queues(N)
    BY <1>0, <2>6, <2>9, <2>10 DEF Queues, SameNet
  <2>13. QueuesCcwa
    BY <1>0, <2>3, <2>5, <2>6, <2>8, <2>11, <2>12 DEF QueuesCcwa
  <2> QED BY <2>13
<1>6. CASE ~(Head(inbox).arg /\ ~s.registered /\ conf.callwaiting # "auto")
  <2>1. s' = [Enque(s, t) EXCEPT !.registered = Head(inbox).arg]
    BY <1>0, <1>2, <1>6 DEF CregEffect
  <2>2. s'.queue = Append(s.queue, t) /\ s'.registered = Head(inbox).arg
    BY <2>1, Known DEF Enque, Driver
  <2>3. Queues(Plain)
    BY <1>0, <1>3, <1>4, <2>2, QueuesOne DEF SameNet
  <2> QED BY <1>0, <1>6, <2>2, <2>3 DEF QueuesPlain
<1> QED BY <1>5, <1>6

LEMMA WireExecutes ==
  ASSUME IInv, OnWire, executed' = TRUE, UNCHANGED <<conf, s, report>>
  PROVE  Executes /\ Carrier = Current(s) /\ inbox \in Seq(Results) /\ IsTask(s.queue[1])
<1>1. /\ Core(s, FALSE, inbox, net.accepted, net.got) /\ s.queue # <<>> /\ executed = FALSE
      /\ Current(s) = s.queue[1][1] /\ inbox \in Seq(Results) /\ IsTask(s.queue[1])
  BY WireCore
<1>2. NoErrors(inbox)
  BY <1>1 DEF Core, Answers, Final, NoErrors
<1> QED BY <1>1, <1>2 DEF Executes, Carrier

LEMMA KindAccepts == ASSUME IInv, ModemAccepts PROVE Accepted
<1>0. PICK c, ok : c = Current(s) /\ ok = Msg("OK", None)
  OBVIOUS
<1>1. OnWire /\ executed' = TRUE /\ UNCHANGED <<conf, s, report>> /\ net' = AcceptEffect(Current(s))
  BY DEF ModemAccepts
<1>2. Executes /\ Carrier = c /\ inbox \in Seq(Results) /\ IsTask(s.queue[1]) /\ NoErrors(inbox)
  BY <1>0, <1>1, WireExecutes DEF Executes
<1>3. ok \in Results /\ ok.type # "ERROR"
  BY <1>0, ResultType
<1>4. NoErrors(inbox')
  <2>1. CASE c.cmd = "CREG"
    <3>1. PICK b : b = Msg("CREG", net.reg)
      OBVIOUS
    <3>2. net.reg \in BOOLEAN
      BY Known DEF Net
    <3>3. b \in Results /\ b.type # "ERROR"
      BY <3>1, <3>2, ResultType
    <3>4. inbox' = inbox \o <<b, ok>>
      BY <1>0, <2>1, <3>1 DEF ModemAccepts
    <3>5. inbox' = Append(Append(inbox, b), ok)
      BY <1>2, <1>3, <3>3, <3>4, AppendTwo
    <3>6. NoErrors(Append(inbox, b)) /\ Append(inbox, b) \in Seq(Results)
      BY <1>2, <3>3, StillNoErrors, InboxAppend
    <3> QED BY <1>3, <3>5, <3>6, StillNoErrors
  <2>2. CASE c.cmd = "CMGR"
    <3>1. PICK m : m = Msg("CMGR", c.arg)
      OBVIOUS
    <3>2. c.arg \in Slots
      BY <1>2, <2>2, FirstArg DEF Carrier
    <3>3. m \in Results /\ m.type # "ERROR"
      BY <3>1, <3>2, ResultType
    <3>4. inbox' = inbox \o <<m>>
      BY <1>0, <2>2, <3>1 DEF ModemAccepts
    <3>5. inbox' = Append(inbox, m)
      BY <1>2, <3>3, <3>4, AppendTwo
    <3> QED BY <1>2, <3>3, <3>5, StillNoErrors
  <2>3. CASE c.cmd = "CMGS"
    <3>1. PICK m : m = Msg("PROMPT", None)
      OBVIOUS
    <3>2. m \in Results /\ m.type # "ERROR"
      BY <3>1, ResultType
    <3>3. inbox' = inbox \o <<m>>
      BY <1>0, <2>3, <3>1 DEF ModemAccepts
    <3>4. inbox' = Append(inbox, m)
      BY <1>2, <3>2, <3>3, AppendTwo
    <3> QED BY <1>2, <3>2, <3>4, StillNoErrors
  <2>4. CASE c.cmd \notin {"CREG", "CMGR", "CMGS"}
    <3>1. inbox' = inbox \o <<ok>>
      BY <1>0, <2>4 DEF ModemAccepts
    <3>2. inbox' = Append(inbox, ok)
      BY <1>2, <1>3, <3>1, AppendTwo
    <3> QED BY <1>2, <1>3, <3>2, StillNoErrors
  <2> QED BY <2>1, <2>2, <2>3, <2>4
<1> QED BY <1>0, <1>1, <1>2, <1>4 DEF Accepted

LEMMA KindRefuses == ASSUME IInv, NEW cmd, ModemRefuses(cmd) PROVE Refused
<1>1. OnWire /\ executed' = TRUE /\ UNCHANGED <<conf, s, report>> /\ Current(s).cmd = cmd
  BY DEF ModemRefuses
<1>2. Executes /\ Carrier.cmd = cmd
  BY <1>1, WireExecutes
<1>3. /\ net'.got = net.got /\ net'.sim = net.sim
      /\ net'.ccwa = IF cmd = "CCWA_SET" THEN "refused" ELSE net.ccwa
  BY Known DEF ModemRefuses, Net
<1> QED BY <1>2, <1>3 DEF Refused

LEMMA KindNothing == ASSUME IInv, ModemFindsNothing PROVE Refused
<1>1. /\ OnWire /\ executed' = TRUE /\ UNCHANGED <<conf, s, report>> /\ net' = net
      /\ Current(s).cmd = "CMGR"
  BY DEF ModemFindsNothing
<1>2. Executes /\ Carrier.cmd = "CMGR"
  BY <1>1, WireExecutes
<1> QED BY <1>1, <1>2 DEF Refused

LEMMA Announced ==
  ASSUME IInv, NEW m \in Results, m.type # "ERROR", Announce(m), NoErrors(inbox)
  PROVE  NoErrors(inbox')
<1>1. inbox' = inbox \/ inbox' = Append(inbox, m)
  BY DEF Announce
<1> QED BY <1>1, Known, StillNoErrors

LEMMA KindArrives == ASSUME IInv, NEW i \in Slots, MessageArrives(i) PROVE Quiet
<1>1. PICK m : m = Msg("CMTI", i)
  OBVIOUS
<1>2. m \in Results /\ m.type # "ERROR"
  BY <1>1, ResultType
<1>3. Announce(m) /\ UNCHANGED <<conf, s, executed, report>>
  BY <1>1 DEF MessageArrives
<1>4. /\ net'.got = net.got /\ net'.ccwa = net.ccwa
      /\ \A j \in Slots : net'.sim[j] = net.sim[j] \/ net.sim[j] = "empty"
  BY Known DEF MessageArrives, Net
<1>5. NoErrors(inbox) => NoErrors(inbox')
  BY <1>2, <1>3, Announced
<1> QED BY <1>3, <1>4, <1>5 DEF Quiet

LEMMA KindRegistration == ASSUME IInv, RegistrationChanges PROVE Quiet
<1>0. PICK b \in BOOLEAN : b = net.reg
  BY Known DEF Net
<1>1. PICK m : m = Msg("CREG", ~b)
  OBVIOUS
<1>2. (~b) \in BOOLEAN
  BY Zenon
<1>3. m \in Results /\ m.type # "ERROR"
  BY <1>1, <1>2, ResultType
<1>4. Announce(m) /\ UNCHANGED <<conf, s, executed, report>>
  BY <1>0, <1>1 DEF RegistrationChanges
<1>5. net'.got = net.got /\ net'.ccwa = net.ccwa /\ net'.sim = net.sim
  BY Known DEF RegistrationChanges, Net
<1>6. NoErrors(inbox) => NoErrors(inbox')
  BY <1>3, <1>4, Announced
<1> QED BY <1>4, <1>5, <1>6 DEF Quiet

LEMMA Kinds ==
  ASSUME IInv, [Next]_vars
  PROVE  \/ Quiet \/ Gone
         \/ QueuesPlain \/ (\E m \in Msgs : QueuesMessage(m)) \/ QueuesCcwa
         \/ OkAnswer \/ ErrorAnswer \/ PromptAnswer \/ CmgrAnswer
         \/ Accepted \/ Refused
<1>1. CASE Connect
  BY <1>1, KindConnect
<1>2. CASE Lost \/ Stop
  BY <1>2, KindDown DEF Lost, Stop
<1>3. CASE Ping
  BY <1>3, KindPing
<1>4. CASE Handle
  BY <1>4, KindOk, KindError, KindPrompt, KindCmgr, KindCmti, KindCreg DEF Handle
<1>5. CASE \E when \in {"gracefully", "convenient", "now"} : Request(when)
  BY <1>5, KindRequest
<1>6. CASE \E m \in Msgs : Send(m)
  BY <1>6, KindSend
<1>7. CASE \E value \in CcwaSettings : send_ccwa_set(value)
  BY <1>7, KindCcwaSet
<1>8. CASE ModemAccepts \/ ModemFindsNothing \/ \E c \in Refuses : ModemRefuses(c)
  BY <1>8, KindAccepts, KindNothing, KindRefuses
<1>9. CASE (\E i \in Slots : MessageArrives(i)) \/ RegistrationChanges
  BY <1>9, KindArrives, KindRegistration
<1>10. CASE UNCHANGED vars
  BY <1>10 DEF vars, Quiet
<1> QED BY <1>1, <1>2, <1>3, <1>4, <1>5, <1>6, <1>7, <1>8, <1>9, <1>10 DEF Next

-----------------------------------------------------------------------------
(* Messages are read before they are deleted.                              *)

(* a deletion that is to be executed next is of a message that was read *)
DInv ==
  s.queue # <<>> /\ ~executed /\ Carrier.cmd = "CMGD" => net.sim[Carrier.arg] = "read"

LEMMA GrownFirst ==
  ASSUME NEW q, NEW acc, QueueOK(q, acc), NEW p, NEW more, QueueOK(p, more), NEW N, Grown(q, p, N)
  PROVE  /\ q # <<>> => p # <<>> /\ p[1] = q[1]
         /\ q = <<>> /\ p # <<>> => p[1][1] \in N
<1>1. /\ Len(q) \in Nat /\ Len(p) \in Nat /\ (q # <<>> <=> Len(q) >= 1) /\ (p # <<>> <=> Len(p) >= 1)
  BY QueueLen
<1> QED BY <1>1 DEF Grown

LEMMA ShrunkFirst ==
  ASSUME NEW q, NEW acc, QueueOK(q, acc), NEW p, NEW more, QueueOK(p, more), Shrunk(q, p), p # <<>>
  PROVE  p[1][1].cmd \notin {"CMGD", "SMSTEXT"}
<1>1. /\ Len(q) \in Nat /\ Len(p) \in Nat /\ 1 \in 1 .. Len(p)
  BY QueueLen
<1>2. CASE 1 \in 1 .. Len(q) - 1
  <2>1. p[1] = q[2] /\ 2 \in 1 .. Len(q)
    BY <1>1, <1>2 DEF Shrunk
  <2>2. ~HeadOnly(q[2])
    BY <2>1 DEF QueueOK
  <2> QED BY <2>1, <2>2 DEF HeadOnly
<1>3. CASE 1 \notin 1 .. Len(q) - 1
  BY <1>1, <1>3 DEF Shrunk, Plain, MsgCmds
<1> QED BY <1>2, <1>3

Spares == \A i \in Slots : net.sim[i] = "new" => net'.sim[i] # "empty"

LEMMA AnswerSpares ==
  ASSUME IInv, IInv', NEW res, Answer(res),
         Carrier.cmd = "CMGR" /\ res = "CMGR" => net'.sim[Carrier.arg] = "read"
  PROVE  DInv'
<1> SUFFICES ASSUME s'.queue # <<>>, s'.queue[1][1].cmd = "CMGD"
             PROVE  net'.sim[s'.queue[1][1].arg] = "read"
  BY DEF DInv, Carrier
<1>1. QueueOK(s.queue, net.accepted) /\ QueueOK(s'.queue, net'.accepted)
  BY Known DEF IInv, Core
<1>2. ~Shrunk(s.queue, s'.queue)
  BY <1>1, ShrunkFirst
<1>3. ~Ends(s.queue[1], res) /\ Goes(s.queue, s'.queue)
  BY <1>2 DEF Answer
<1>4. Carrier.cmd = "CMGR" /\ s'.queue[1][1].arg = Carrier.arg
  BY <1>3 DEF Goes, Follows, Carrier
<1>5. res = "CMGR"
  BY <1>3, <1>4 DEF Ends, Expected, Ignorable, Carrier
<1> QED BY <1>4, <1>5

LEMMA DInvKept == ASSUME IInv, IInv', DInv, [Next]_vars PROVE DInv' /\ Spares
<1>1. /\ QueueOK(s.queue, net.accepted) /\ QueueOK(s'.queue, net'.accepted)
      /\ net \in Net
  BY Known DEF IInv, Core
<1>2. s.queue # <<>> => /\ Carrier.cmd \in {"CMGR", "CMGD"} => Carrier.arg \in Slots
                        /\ Carrier.cmd \in MsgCmds => Carrier.arg \in Msgs
  <2> SUFFICES ASSUME s.queue # <<>>
               PROVE  /\ Carrier.cmd \in {"CMGR", "CMGD"} => Carrier.arg \in Slots
                      /\ Carrier.cmd \in MsgCmds => Carrier.arg \in Msgs
    OBVIOUS
  <2>1. IsTask(s.queue[1])
    BY <1>1, HeadTask
  <2> QED BY <2>1, FirstArg DEF Carrier
<1>3. CASE Quiet
  BY <1>2, <1>3 DEF Quiet, DInv, Carrier, Spares
<1>4. CASE Gone
  BY <1>4 DEF Gone, DInv, Spares, SameNet
<1>5. ASSUME NEW N, Queues(N), \A c \in N : c.cmd # "CMGD" PROVE DInv' /\ Spares
  <2>1. /\ s.queue # <<>> => s'.queue # <<>> /\ s'.queue[1] = s.queue[1]
        /\ s.queue = <<>> /\ s'.queue # <<>> => s'.queue[1][1] \in N
    BY <1>1, <1>5, GrownFirst DEF Queues
  <2> QED BY <1>5, <2>1 DEF DInv, Carrier, Queues, SameNet, Spares
<1>6. CASE QueuesPlain
  BY <1>5, <1>6 DEF QueuesPlain, Plain
<1>7. CASE \E m \in Msgs : QueuesMessage(m)
  <2>1. PICK m \in Msgs : Queues({c \in Entry : c.cmd \in {"CMGS", "CUSD"} /\ c.arg = m})
    BY <1>7 DEF QueuesMessage
  <2> QED BY <1>5, <2>1
<1>8. CASE QueuesCcwa
  <2>1. Queues({c \in Entry : c.cmd \notin MsgCmds \cup {"CMGD"}})
    BY <1>8 DEF QueuesCcwa
  <2> QED BY <1>5, <2>1
<1>9. CASE OkAnswer \/ ErrorAnswer \/ PromptAnswer
  <2>1. /\ Answer("OK") \/ Answer("ERROR") \/ Answer("PROMPT")
        /\ SameNet
    BY <1>9 DEF OkAnswer, ErrorAnswer, PromptAnswer
  <2>2. DInv'
    BY <2>1, AnswerSpares
  <2> QED BY <2>1, <2>2 DEF SameNet, Spares
<1>10. CASE CmgrAnswer
  <2>1. /\ Answer("CMGR") /\ Carrier.cmd = "CMGR" /\ Carrier.arg \in Slots
        /\ net'.sim = [net.sim EXCEPT ![Carrier.arg] = "read"]
    BY <1>2, <1>10 DEF CmgrAnswer, Answer
  <2>2. net'.sim[Carrier.arg] = "read" /\ Spares
    BY <1>1, <2>1 DEF Net, Spares
  <2>3. DInv'
    BY <2>1, <2>2, AnswerSpares
  <2> QED BY <2>2, <2>3
<1>11. CASE Accepted
  <2>1. DInv'
    BY <1>11 DEF Accepted, Executes, DInv
  <2>2. CASE Carrier.cmd = "CMGD"
    <3>1. net' = [net EXCEPT !.sim[Carrier.arg] = "empty"]
      BY <1>11, <2>2 DEF Accepted, AcceptEffect, Settings
    <3>2. net.sim[Carrier.arg] = "read"
      BY <1>11, <2>2 DEF Accepted, Executes, DInv
    <3> QED BY <1>1, <2>1, <3>1, <3>2 DEF Spares, Net
  <2>3. CASE Carrier.cmd # "CMGD"
    <3>1. net'.sim = net.sim
      BY <1>1, <1>11, <2>3 DEF Accepted, AcceptEffect, Net
    <3> QED BY <2>1, <3>1 DEF Spares
  <2> QED BY <2>2, <2>3
<1>12. CASE Refused
  BY <1>12 DEF Refused, Executes, DInv, Spares
<1> QED BY <1>3, <1>4, <1>6, <1>7, <1>8, <1>9, <1>10, <1>11, <1>12, Kinds

(* A message is deleted from the SIM only after the driver has had its     *)
(* text, through refusals, empty answers and lost connections              *)
(* (at_enque_retrive_sms with autodeletesms, at_response_cmgr).            *)
THEOREM Deletion == Spec => DeletesOnlyRead
<1>1. Init => DInv
  BY DEF Init, Down, DInv
<1>2. IInv /\ IInv' /\ DInv /\ [Next]_vars => DInv' /\ [Spares]_vars
  BY DInvKept
<1>3. Spec => [][Spares]_vars
  BY <1>1, <1>2, Invariance, PTL DEF Spec
<1>4. [Spares]_vars <=> [\A i \in Slots : net.sim[i] = "new" => net'.sim[i] # "empty"]_vars
  BY DEF Spares
<1> QED BY <1>3, <1>4, PTL DEF DeletesOnlyRead

-----------------------------------------------------------------------------
(* The sender of a message is told the truth, once.                        *)

(* a task has the message m to send *)
Carries(t, m) == t[1].cmd \in MsgCmds /\ t[1].arg = m

(* A message that is queued is in one task, and its sender was told        *)
(* nothing; when the modem has sent it already, its task is at the head    *)
(* and the answer, if there is one, is not a refusal.                      *)
RInv ==
  /\ \A i \in 1 .. Len(s.queue), m \in Msgs : Carries(s.queue[i], m) =>
       /\ report[m] = "queued"
       /\ \A j \in 1 .. Len(s.queue) : Carries(s.queue[j], m) => i = j
       /\ m \in net.got => /\ i = 1 /\ executed /\ s.queue[1][1].cmd # "CMGS"
                           /\ NoErrors(inbox)
  /\ \A m \in Msgs : /\ report[m] = "Sent" => m \in net.got
                     /\ report[m] \in {"none", "NotSent"} => m \notin net.got

Truthful ==
  \A m \in Msgs :
    /\ report'[m] = "Sent" => m \in net'.got
    /\ report'[m] = "NotSent" => m \notin net'.got
    /\ report[m] \in {"Sent", "NotSent"} => report'[m] = report[m]

(* nothing is queued and nobody told, whatever becomes of the others *)
LEMMA RInvQueues ==
  ASSUME IInv, IInv', RInv, NEW N, Queues(N), \A c \in N : c.cmd \notin MsgCmds, UNCHANGED report
  PROVE  RInv' /\ Truthful
<1>1. /\ Len(s'.queue) \in Nat /\ Len(s.queue) \in Nat
      /\ \A i \in 1 .. Len(s'.queue), m \in Msgs : Carries(s'.queue[i], m) =>
           i \in 1 .. Len(s.queue) /\ s'.queue[i] = s.queue[i]
  <2>1. Len(s'.queue) \in Nat /\ Len(s.queue) \in Nat
    BY Known, QueueLen DEF IInv, Core
  <2> QED BY <2>1 DEF Queues, Grown, Carries
<1>2. /\ net'.got = net.got /\ executed' = executed /\ report' = report
      /\ NoErrors(inbox) => NoErrors(inbox')
  BY DEF Queues, SameNet
<1>3. ASSUME NEW i \in 1 .. Len(s'.queue), NEW m \in Msgs, Carries(s'.queue[i], m)
      PROVE  /\ report'[m] = "queued"
             /\ \A j \in 1 .. Len(s'.queue) : Carries(s'.queue[j], m) => i = j
             /\ m \in net'.got => /\ i = 1 /\ executed' /\ s'.queue[1][1].cmd # "CMGS"
                                  /\ NoErrors(inbox')
  <2>1. i \in 1 .. Len(s.queue) /\ s'.queue[i] = s.queue[i] /\ Carries(s.queue[i], m)
    BY <1>1, <1>3
  <2>2. \A j \in 1 .. Len(s'.queue) : Carries(s'.queue[j], m) => i = j
    BY <1>1, <2>1 DEF RInv
  <2> QED BY <1>2, <2>1, <2>2 DEF RInv
<1> QED BY <1>2, <1>3 DEF RInv, Truthful

(* what is left of the queue after an answer *)
LEMMA LeftCarries ==
  ASSUME IInv, IInv', RInv, NEW res, Answer(res), res = "PROMPT" \/ Carrier.cmd # "CMGS" \/ Ends(s.queue[1], res),
         NEW i \in 1 .. Len(s'.queue), NEW m \in Msgs, Carries(s'.queue[i], m)
  PROVE  /\ report[m] = "queued" /\ m \notin net.got
         /\ \A j \in 1 .. Len(s'.queue) : Carries(s'.queue[j], m) => i = j
         /\ Carries(s.queue[1], m) => ~Ends(s.queue[1], res)
<1>1. /\ QueueOK(s.queue, net.accepted) /\ Len(s.queue) \in Nat /\ Len(s'.queue) \in Nat
      /\ 1 \in 1 .. Len(s.queue)
  <2>1. QueueOK(s.queue, net.accepted) /\ QueueOK(s'.queue, net'.accepted) /\ s.queue # <<>>
    BY Known DEF IInv, Core, Answer
  <2> QED BY <2>1, QueueLen
<1>2. CASE Ends(s.queue[1], res)
  <2>1. \A k \in 1 .. Len(s'.queue) : Carries(s'.queue[k], m) =>
          k + 1 \in 1 .. Len(s.queue) /\ Carries(s.queue[k + 1], m) /\ k + 1 # 1
    <3> SUFFICES ASSUME NEW k \in 1 .. Len(s'.queue), Carries(s'.queue[k], m)
                 PROVE  k + 1 \in 1 .. Len(s.queue) /\ Carries(s.queue[k + 1], m) /\ k + 1 # 1
      OBVIOUS
    <3>1. k \in 1 .. Len(s.queue) - 1 /\ s'.queue[k] = s.queue[k + 1]
      BY <1>2 DEF Answer, Shrunk, Plain, Carries
    <3> QED BY <1>1, <3>1
  <2>2. /\ report[m] = "queued" /\ m \notin net.got /\ ~Carries(s.queue[1], m)
        /\ \A j \in 1 .. Len(s.queue) : Carries(s.queue[j], m) => i + 1 = j
    BY <1>1, <2>1 DEF RInv
  <2>3. \A j \in 1 .. Len(s'.queue) : Carries(s'.queue[j], m) => i = j
    <3> SUFFICES ASSUME NEW j \in 1 .. Len(s'.queue), Carries(s'.queue[j], m) PROVE i = j
      OBVIOUS
    <3>1. i + 1 = j + 1
      BY <2>1, <2>2
    <3> QED BY <1>1, <3>1
  <2> QED BY <2>2, <2>3
<1>3. CASE ~Ends(s.queue[1], res)
  <2>1. Goes(s.queue, s'.queue)
    BY <1>3 DEF Answer
  <2>2. \A k \in 1 .. Len(s'.queue) : Carries(s'.queue[k], m) =>
          /\ k \in 1 .. Len(s.queue) /\ Carries(s.queue[k], m)
          /\ k = 1 => s.queue[1][1].cmd = "CMGS"
    <3> SUFFICES ASSUME NEW k \in 1 .. Len(s'.queue), Carries(s'.queue[k], m)
                 PROVE  /\ k \in 1 .. Len(s.queue) /\ Carries(s.queue[k], m)
                        /\ k = 1 => s.queue[1][1].cmd = "CMGS"
      OBVIOUS
    <3>1. CASE k = 1
      BY <1>1, <2>1, <3>1 DEF Goes, Follows, Carries, MsgCmds
    <3>2. CASE k # 1
      <4>1. k \in 2 .. Len(s.queue)
        BY <1>1, <2>1, <3>2 DEF Goes
      <4> QED BY <1>1, <2>1, <3>2, <4>1 DEF Goes
    <3> QED BY <3>1, <3>2
  <2> QED BY <1>3, <2>2 DEF RInv
<1> QED BY <1>2, <1>3

(* an answer after which nobody is told anything, or the sender of the     *)
(* message at the head is *)
LEMMA RInvAnswer ==
  ASSUME IInv, IInv', RInv, NEW res, Answer(res),
         res = "PROMPT" \/ Carrier.cmd # "CMGS" \/ Ends(s.queue[1], res),
         \/ UNCHANGED report
         \/ /\ Carrier.cmd \in MsgCmds /\ Carrier.arg \in Msgs /\ Ends(s.queue[1], res)
            /\ \/ Carrier.arg \in net.got /\ report' = [report EXCEPT ![Carrier.arg] = "Sent"]
               \/ Carrier.arg \notin net.got /\ report' = [report EXCEPT ![Carrier.arg] = "NotSent"]
  PROVE  RInv' /\ Truthful
<1>1. net'.got = net.got /\ report \in [Msgs -> {"none", "queued", "Sent", "NotSent"}]
  BY Known DEF Answer
<1>2. 1 \in 1 .. Len(s.queue)
  <2>1. QueueOK(s.queue, net.accepted) /\ s.queue # <<>>
    BY Known DEF Answer
  <2> QED BY <2>1, QueueLen
<1>3. ASSUME NEW i \in 1 .. Len(s'.queue), NEW m \in Msgs, Carries(s'.queue[i], m)
      PROVE  /\ report'[m] = "queued" /\ m \notin net'.got
             /\ \A j \in 1 .. Len(s'.queue) : Carries(s'.queue[j], m) => i = j
  <2>1. /\ report[m] = "queued" /\ m \notin net.got
        /\ \A j \in 1 .. Len(s'.queue) : Carries(s'.queue[j], m) => i = j
        /\ Carries(s.queue[1], m) => ~Ends(s.queue[1], res)
    BY <1>3, LeftCarries
  <2>2. report'[m] = "queued"
    <3>1. CASE UNCHANGED report
      BY <2>1, <3>1
    <3>2. CASE report' # report
      <4>1. Carrier.cmd \in MsgCmds /\ Ends(s.queue[1], res)
        BY <3>2
      <4>2. Carrier.arg # m
        BY <2>1, <4>1 DEF Carries, Carrier
      <4> QED BY <1>1, <2>1, <3>2, <4>2
    <3> QED BY <3>1, <3>2
  <2> QED BY <1>1, <2>1, <2>2
<1>4. ASSUME NEW m \in Msgs
      PROVE  /\ report'[m] = "Sent" => m \in net'.got
             /\ report'[m] \in {"none", "NotSent"} => m \notin net'.got
             /\ report[m] \in {"Sent", "NotSent"} => report'[m] = report[m]
  <2>1. CASE UNCHANGED report
    BY <1>1, <2>1 DEF RInv
  <2>2. CASE report' # report
    <3>1. /\ Carrier.cmd \in MsgCmds /\ Carrier.arg \in Msgs
          /\ \/ Carrier.arg \in net.got /\ report' = [report EXCEPT ![Carrier.arg] = "Sent"]
             \/ Carrier.arg \notin net.got /\ report' = [report EXCEPT ![Carrier.arg] = "NotSent"]
      BY <2>2
    <3>2. report[Carrier.arg] = "queued"
      BY <1>2, <3>1 DEF RInv, Carries, Carrier
    <3>3. CASE m = Carrier.arg
      BY <1>1, <3>1, <3>2, <3>3
    <3>4. CASE m # Carrier.arg
      <4>1. report'[m] = report[m]
        BY <1>1, <3>1, <3>4
      <4> QED BY <1>1, <4>1 DEF RInv
    <3> QED BY <3>3, <3>4
  <2> QED BY <2>1, <2>2
<1>5. RInv'
  BY <1>3, <1>4 DEF RInv
<1> QED BY <1>4, <1>5 DEF Truthful

LEMMA RInvMessage ==
  ASSUME IInv, IInv', RInv, NEW m0 \in Msgs, QueuesMessage(m0)
  PROVE  RInv' /\ Truthful
<1>1. /\ Len(s'.queue) = Len(s.queue) + 1 /\ Len(s.queue) \in Nat
      /\ \A i \in 1 .. Len(s.queue) : s'.queue[i] = s.queue[i]
      /\ \A i \in 1 .. Len(s'.queue), m \in Msgs : Carries(s'.queue[i], m) =>
           \/ i \in 1 .. Len(s.queue) /\ Carries(s.queue[i], m)
           \/ i = Len(s.queue) + 1 /\ i \notin 1 .. Len(s.queue) /\ m = m0
  <2>1. Len(s.queue) \in Nat /\ Len(s'.queue) = Len(s.queue) + 1
    BY Known, QueueLen DEF QueuesMessage
  <2>2. /\ \A i \in 1 .. Len(s.queue) : s'.queue[i] = s.queue[i]
        /\ \A i \in 1 .. Len(s'.queue) : i \in 1 .. Len(s.queue) \/ s'.queue[i][1].arg = m0
    BY DEF QueuesMessage, Queues, Grown
  <2> QED BY <2>1, <2>2 DEF Carries
<1>2. /\ net'.got = net.got /\ executed' = executed /\ report[m0] = "none"
      /\ report' = [report EXCEPT ![m0] = "queued"]
      /\ NoErrors(inbox) => NoErrors(inbox')
  BY DEF QueuesMessage, Queues, SameNet
<1>3. report \in [Msgs -> {"none", "queued", "Sent", "NotSent"}]
  BY Known
<1>4. m0 \notin net.got /\ \A i \in 1 .. Len(s.queue) : ~Carries(s.queue[i], m0)
  BY <1>2 DEF RInv
<1>5. ASSUME NEW i \in 1 .. Len(s'.queue), NEW m \in Msgs, Carries(s'.queue[i], m)
      PROVE  /\ report'[m] = "queued"
             /\ \A j \in 1 .. Len(s'.queue) : Carries(s'.queue[j], m) => i = j
             /\ m \in net'.got => /\ i = 1 /\ executed' /\ s'.queue[1][1].cmd # "CMGS"
                                  /\ NoErrors(inbox')
  <2>1. CASE m = m0
    <3>1. \A j \in 1 .. Len(s'.queue) : Carries(s'.queue[j], m) => j = Len(s.queue) + 1
      BY <1>1, <1>4, <2>1
    <3> QED BY <1>2, <1>3, <1>4, <1>5, <2>1, <3>1
  <2>2. CASE m # m0
    <3>1. \A j \in 1 .. Len(s'.queue) : Carries(s'.queue[j], m) =>
            j \in 1 .. Len(s.queue) /\ Carries(s.queue[j], m) /\ s'.queue[j] = s.queue[j]
      BY <1>1, <2>2
    <3>2. report'[m] = report[m]
      BY <1>2, <1>3, <2>2
    <3>3. \A j \in 1 .. Len(s'.queue) : Carries(s'.queue[j], m) => i = j
      BY <1>5, <3>1 DEF RInv
    <3>4. i \in 1 .. Len(s.queue) /\ Carries(s.queue[i], m) /\ s'.queue[i] = s.queue[i]
      BY <1>5, <3>1
    <3> QED BY <1>2, <3>2, <3>3, <3>4 DEF RInv
  <2> QED BY <2>1, <2>2
<1>6. ASSUME NEW m \in Msgs
      PROVE  /\ report'[m] = "Sent" => m \in net'.got
             /\ report'[m] \in {"none", "NotSent"} => m \notin net'.got
             /\ report[m] \in {"Sent", "NotSent"} => report'[m] = report[m]
  <2>1. CASE m = m0
    BY <1>2, <1>3, <2>1
  <2>2. CASE m # m0
    <3>1. report'[m] = report[m]
      BY <1>2, <1>3, <2>2
    <3> QED BY <1>2, <3>1 DEF RInv
  <2> QED BY <2>1, <2>2
<1>7. RInv'
  BY <1>5, <1>6 DEF RInv
<1> QED BY <1>6, <1>7 DEF Truthful

LEMMA TextIsLast ==
  ASSUME NEW t, IsTask(t), t[1].cmd \in {"SMSTEXT", "CUSD"}
  PROVE  Len(t) = 1
<1>1. CASE IsInit(t)
  <2>1. t[1].cmd \in InitNames
    BY <1>1, Standing
  <2> QED BY <2>1, OtherNames
<1>2. CASE IsSms(t)
  <2>1. PICK m \in Sms : t \in {<<Cmd("CMGS", m), Cmd("SMSTEXT", m)>>, <<Cmd("SMSTEXT", m)>>}
    BY <1>2 DEF IsSms
  <2>2. CASE t = <<Cmd("CMGS", m), Cmd("SMSTEXT", m)>>
    BY <2>2, Pair DEF Cmd
  <2>3. CASE t = <<Cmd("SMSTEXT", m)>>
    BY <2>3, Single
  <2> QED BY <2>1, <2>2, <2>3
<1>3. CASE IsUssd(t)
  BY <1>3, Single DEF IsUssd
<1>4. CASE IsRead(t)
  <2>1. PICK i \in Slots :
          t \in {<<Cmd("CMGR", i), Cmd("CMGD", i)>>, <<Cmd("CMGR", i)>>, <<Cmd("CMGD", i)>>}
    BY <1>4 DEF IsRead
  <2>2. t[1] \in {Cmd("CMGR", i), Cmd("CMGD", i)}
    BY <2>1, Single, Pair
  <2> QED BY <2>2 DEF Cmd
<1>5. CASE IsCcwa(t)
  <2>1. PICK v \in CcwaSettings :
          t \in {<<Cmd("CCWA_SET", v), Cmd("CCWA_STATUS", None)>>, <<Cmd("CCWA_STATUS", None)>>}
    BY <1>5 DEF IsCcwa
  <2>2. t[1] \in {Cmd("CCWA_SET", v), Cmd("CCWA_STATUS", None)}
    BY <2>1, Single, Pair
  <2> QED BY <2>2 DEF Cmd
<1> QED BY <1>1, <1>2, <1>3, <1>4, <1>5 DEF IsTask

(* what a command does to the modem when it is accepted *)
LEMMA AcceptIs ==
  ASSUME IInv, Accepted
  PROVE  /\ net'.got = IF Carrier.cmd \in {"SMSTEXT", "CUSD"} THEN net.got \cup {Carrier.arg}
                                                             ELSE net.got
         /\ net'.ccwa = IF Carrier.cmd = "CCWA_SET" THEN Carrier.arg ELSE net.ccwa
<1>1. net \in Net /\ net' = AcceptEffect(Carrier)
  BY Known DEF Accepted
<1>2. CASE Carrier.cmd \in {"SMSTEXT", "CUSD"}
  <2>1. net' = [net EXCEPT !.got = @ \cup {Carrier.arg}]
    BY <1>1, <1>2 DEF AcceptEffect, Settings
  <2> QED BY <1>1, <1>2, <2>1 DEF Net
<1>3. CASE Carrier.cmd = "CCWA_SET"
  <2>1. net' = [net EXCEPT !.ccwa = Carrier.arg]
    BY <1>1, <1>3 DEF AcceptEffect, Settings
  <2> QED BY <1>1, <1>3, <2>1 DEF Net
<1>4. CASE Carrier.cmd \notin {"SMSTEXT", "CUSD", "CCWA_SET"}
  <2>1. \/ net' = net \/ net' = [net EXCEPT !.sim[Carrier.arg] = "empty"]
        \/ net' = [net EXCEPT !.accepted = @ \cup {Carrier.cmd}]
    BY <1>1, <1>4 DEF AcceptEffect, Settings
  <2> QED BY <1>1, <1>4, <2>1 DEF Net
<1> QED BY <1>2, <1>3, <1>4

LEMMA RInvKept == ASSUME IInv, IInv', RInv, [Next]_vars PROVE RInv' /\ Truthful
<1>1. CASE Quiet
  BY <1>1 DEF Quiet, RInv, Truthful
<1>2. CASE Gone
  <2>1. /\ Len(s'.queue) = 0 /\ net'.got = net.got /\ report' = report
    BY <1>2 DEF Gone, SameNet
  <2> QED BY <2>1 DEF RInv, Truthful
<1>3. CASE QueuesPlain \/ QueuesCcwa
  <2>1. PICK N : Queues(N) /\ UNCHANGED report /\ \A c \in N : c.cmd \notin MsgCmds
    <3>1. CASE QueuesPlain
      <4>1. \A c \in Plain : c.cmd \notin MsgCmds
        BY DEF Plain
      <4> QED BY <3>1, <4>1 DEF QueuesPlain
    <3>2. CASE QueuesCcwa
      <4>1. PICK N : N = {c \in Entry : c.cmd \notin MsgCmds \cup {"CMGD"}}
        OBVIOUS
      <4>2. Queues(N) /\ UNCHANGED report
        BY <3>2, <4>1 DEF QueuesCcwa
      <4>3. \A c \in N : c.cmd \notin MsgCmds
        BY <4>1
      <4> QED BY <4>2, <4>3
    <3> QED BY <1>3, <3>1, <3>2
  <2> QED BY <2>1, RInvQueues
<1>4. CASE \E m \in Msgs : QueuesMessage(m)
  BY <1>4, RInvMessage
<1>5. s.queue # <<>> => /\ IsTask(s.queue[1]) /\ 1 \in 1 .. Len(s.queue)
                        /\ Carrier.cmd \in MsgCmds => Carrier.arg \in Msgs
                        /\ Carrier.cmd \in {"SMSTEXT", "CUSD"} => Len(s.queue[1]) = 1
  <2> SUFFICES ASSUME s.queue # <<>>
               PROVE  /\ IsTask(s.queue[1]) /\ 1 \in 1 .. Len(s.queue)
                      /\ Carrier.cmd \in MsgCmds => Carrier.arg \in Msgs
                      /\ Carrier.cmd \in {"SMSTEXT", "CUSD"} => Len(s.queue[1]) = 1
    OBVIOUS
  <2>1. QueueOK(s.queue, net.accepted)
    BY Known
  <2>2. IsTask(s.queue[1]) /\ 1 \in 1 .. Len(s.queue)
    BY <2>1, HeadTask, QueueLen
  <2> QED BY <2>2, FirstArg, TextIsLast DEF Carrier
<1>6. CASE OkAnswer
  <2>1. Answer("OK") /\ s.queue # <<>> /\ Carrier.cmd # "CMGS"
    BY <1>6 DEF OkAnswer, Answer
  <2>2. CASE Carrier.cmd \in {"SMSTEXT", "CUSD"}
    <3>1. /\ Carrier.arg \in net.got /\ report' = [report EXCEPT ![Carrier.arg] = "Sent"]
      BY <1>6, <2>2 DEF OkAnswer
    <3>2. Carrier.cmd \in MsgCmds /\ Carrier.arg \in Msgs /\ Ends(s.queue[1], "OK")
      BY <1>5, <2>1, <2>2 DEF Ends, MsgCmds
    <3> QED BY <2>1, <3>1, <3>2, RInvAnswer
  <2>3. CASE Carrier.cmd \notin {"SMSTEXT", "CUSD"}
    <3>1. UNCHANGED report
      BY <1>6, <2>3 DEF OkAnswer
    <3> QED BY <2>1, <3>1, RInvAnswer
  <2> QED BY <2>2, <2>3
<1>7. CASE ErrorAnswer
  <2>1. Answer("ERROR") /\ s.queue # <<>> /\ ~NoErrors(inbox)
    BY <1>7 DEF ErrorAnswer, Answer
  <2>2. CASE Carrier.cmd \in MsgCmds
    <3>1. report' = [report EXCEPT ![Carrier.arg] = "NotSent"]
      BY <1>7, <2>2 DEF ErrorAnswer
    <3>2. Carrier.arg \in Msgs /\ Ends(s.queue[1], "ERROR")
      BY <1>5, <2>1, <2>2 DEF Ends, Expected, Ignorable, MsgCmds, Carrier
    <3>3. Carrier.arg \notin net.got
      BY <1>5, <2>1, <2>2, <3>2 DEF RInv, Carries, Carrier
    <3> QED BY <2>1, <2>2, <3>1, <3>2, <3>3, RInvAnswer
  <2>3. CASE Carrier.cmd \notin MsgCmds
    <3>1. UNCHANGED report /\ Carrier.cmd # "CMGS"
      BY <1>7, <2>3 DEF ErrorAnswer, MsgCmds
    <3> QED BY <2>1, <3>1, RInvAnswer
  <2> QED BY <2>2, <2>3
<1>8. CASE PromptAnswer
  <2>1. Answer("PROMPT") /\ UNCHANGED report
    BY <1>8 DEF PromptAnswer
  <2> QED BY <2>1, RInvAnswer
<1>9. CASE CmgrAnswer
  <2>1. Answer("CMGR") /\ UNCHANGED report /\ Carrier.cmd # "CMGS"
    BY <1>9 DEF CmgrAnswer
  <2> QED BY <2>1, RInvAnswer
<1>10. CASE Accepted
  <2>1. /\ s.queue # <<>> /\ s' = s /\ report' = report /\ ~executed /\ executed' /\ NoErrors(inbox')
    BY <1>10 DEF Accepted, Executes
  <2>2. \A i \in 1 .. Len(s.queue), m \in Msgs : Carries(s.queue[i], m) => m \notin net.got
    BY <2>1 DEF RInv
  <2>3. CASE Carrier.cmd \in {"SMSTEXT", "CUSD"}
    <3>1. net'.got = net.got \cup {Carrier.arg} /\ Carrier.arg \in Msgs /\ Carrier.cmd # "CMGS"
      BY <1>5, <1>10, <2>1, <2>3, AcceptIs DEF MsgCmds
    <3>2. Carries(s.queue[1], Carrier.arg) /\ report[Carrier.arg] = "queued"
      BY <1>5, <2>1, <2>3, <3>1 DEF Carries, Carrier, RInv, MsgCmds
    <3>3. ASSUME NEW i \in 1 .. Len(s'.queue), NEW m \in Msgs, Carries(s'.queue[i], m)
          PROVE  /\ report'[m] = "queued"
                 /\ \A j \in 1 .. Len(s'.queue) : Carries(s'.queue[j], m) => i = j
                 /\ m \in net'.got => /\ i = 1 /\ executed' /\ s'.queue[1][1].cmd # "CMGS"
                                      /\ NoErrors(inbox')
      <4>1. /\ report'[m] = "queued"
            /\ \A j \in 1 .. Len(s'.queue) : Carries(s'.queue[j], m) => i = j
        BY <2>1, <3>3 DEF RInv
      <4>2. m \in net'.got => m = Carrier.arg
        BY <2>1, <2>2, <3>1, <3>3
      <4>3. m = Carrier.arg => i = 1
        BY <1>5, <2>1, <3>2, <4>1
      <4> QED BY <2>1, <3>1, <4>1, <4>2, <4>3 DEF Carrier
    <3>4. \A m \in Msgs : /\ report'[m] = "Sent" => m \in net'.got
                          /\ report'[m] \in {"none", "NotSent"} => m \notin net'.got
      BY <2>1, <3>1, <3>2 DEF RInv
    <3>5. RInv'
      BY <3>3, <3>4 DEF RInv
    <3> QED BY <2>1, <3>4, <3>5 DEF Truthful
  <2>4. CASE Carrier.cmd \notin {"SMSTEXT", "CUSD"}
    <3>1. net'.got = net.got
      BY <1>10, <2>4, AcceptIs
    <3> QED BY <2>1, <2>2, <3>1 DEF RInv, Truthful
  <2> QED BY <2>3, <2>4
<1>11. CASE Refused
  <2>1. /\ s' = s /\ report' = report /\ ~executed /\ net'.got = net.got
    BY <1>11 DEF Refused, Executes
  <2>2. \A i \in 1 .. Len(s.queue), m \in Msgs : Carries(s.queue[i], m) => m \notin net.got
    BY <2>1 DEF RInv
  <2> QED BY <2>1, <2>2 DEF RInv, Truthful
<1> QED BY <1>1, <1>2, <1>3, <1>4, <1>6, <1>7, <1>8, <1>9, <1>10, <1>11, Kinds

(* The sender is told "Sent" only of messages that were sent, "NotSent"    *)
(* only of ones that never will be, and is not told twice                  *)
(* (at_response_ok, at_response_error, manager_event_sent_notify).         *)
THEOREM Reports == Spec => ReportsHonest
<1>1. Init => RInv
  BY DEF Init, Down, RInv
<1>2. IInv /\ IInv' /\ RInv /\ [Next]_vars => RInv' /\ [Truthful]_vars
  BY RInvKept
<1>3. Spec => [][Truthful]_vars
  BY <1>1, <1>2, Invariance, PTL DEF Spec
<1>4. [Truthful]_vars <=>
        [\A m \in Msgs :
           /\ report'[m] = "Sent" => m \in net'.got
           /\ report'[m] = "NotSent" => m \notin net'.got
           /\ report[m] \in {"Sent", "NotSent"} => report'[m] = report[m]]_vars
  BY DEF Truthful
<1> QED BY <1>3, <1>4, PTL DEF ReportsHonest

-----------------------------------------------------------------------------
(* Call waiting is what the driver shows.                                  *)

Sets(q, i) == q[i][1].cmd = "CCWA_SET"
LastSets(q, i) == Sets(q, i) /\ \A j \in 1 .. Len(q) : j > i => ~Sets(q, j)

(* the last of the settings that are queued is the one shown; without any  *)
(* the network has it *)
Settled(q, ccwa, value) ==
  /\ \A i \in 1 .. Len(q) : LastSets(q, i) => q[i][1].arg = value
  /\ (\A i \in 1 .. Len(q) : ~Sets(q, i)) => ccwa \in {value, "refused"}

CInv ==
  /\ executed /\ Carrier.cmd = "CCWA_SET" => net.ccwa \in {Carrier.arg, "refused"}
  /\ s.registered /\ conf.callwaiting # "auto" => Settled(s.queue, net.ccwa, conf.callwaiting)

(* tasks that set nothing do not matter *)
LEMMA SettledGrown ==
  ASSUME NEW q, NEW acc, QueueOK(q, acc), NEW p, NEW more, QueueOK(p, more),
         NEW N, Grown(q, p, N), \A c \in N : c.cmd # "CCWA_SET",
         NEW ccwa, NEW value, Settled(q, ccwa, value)
  PROVE  Settled(p, ccwa, value)
<1>1. Len(q) \in Nat /\ Len(p) \in Nat /\ Len(p) >= Len(q)
  BY QueueLen DEF Grown
<1>2. \A i \in 1 .. Len(p) : Sets(p, i) => i \in 1 .. Len(q)
  BY DEF Grown, Sets
<1>3. \A i \in 1 .. Len(q) : i \in 1 .. Len(p) /\ p[i] = q[i]
  BY <1>1 DEF Grown
<1>4. ASSUME NEW i \in 1 .. Len(p), LastSets(p, i) PROVE p[i][1].arg = value
  <2>1. i \in 1 .. Len(q) /\ p[i] = q[i]
    BY <1>2, <1>3, <1>4 DEF LastSets
  <2>2. LastSets(q, i)
    BY <1>3, <1>4, <2>1 DEF LastSets, Sets
  <2> QED BY <2>1, <2>2 DEF Settled
<1>5. ASSUME \A i \in 1 .. Len(p) : ~Sets(p, i) PROVE ccwa \in {value, "refused"}
  BY <1>3, <1>5 DEF Settled, Sets
<1> QED BY <1>4, <1>5 DEF Settled

(* the task at the head leaves or goes on: once its command was executed   *)
(* the network has what it set                                             *)
LEMMA SettledAnswer ==
  ASSUME NEW q, NEW acc, QueueOK(q, acc), q # <<>>, NEW p, NEW more, QueueOK(p, more),
         Shrunk(q, p) \/ Goes(q, p),
         NEW ccwa, Sets(q, 1) => ccwa \in {q[1][1].arg, "refused"},
         NEW value, Settled(q, ccwa, value)
  PROVE  Settled(p, ccwa, value)
<1>1. Len(q) \in Nat /\ Len(p) \in Nat /\ 1 \in 1 .. Len(q)
  BY QueueLen
<1>2. PICK d \in {0, 1} :
        /\ \A i \in 1 .. Len(p) : Sets(p, i) =>
             i + d \in 2 .. Len(q) /\ p[i] = q[i + d]
        /\ \A i \in 2 .. Len(q) : i - d \in 1 .. Len(p) /\ p[i - d] = q[i]
  <2>1. CASE Shrunk(q, p)
    <3>1. \A i \in 1 .. Len(p) : Sets(p, i) => i + 1 \in 2 .. Len(q) /\ p[i] = q[i + 1]
      <4> SUFFICES ASSUME NEW i \in 1 .. Len(p), Sets(p, i)
                   PROVE  i + 1 \in 2 .. Len(q) /\ p[i] = q[i + 1]
        OBVIOUS
      <4>1. i \in 1 .. Len(q) - 1
        BY <2>1 DEF Shrunk, Plain, Sets
      <4> QED BY <1>1, <2>1, <4>1 DEF Shrunk
    <3>2. \A i \in 2 .. Len(q) : i - 1 \in 1 .. Len(p) /\ p[i - 1] = q[i]
      <4> SUFFICES ASSUME NEW i \in 2 .. Len(q) PROVE i - 1 \in 1 .. Len(p) /\ p[i - 1] = q[i]
        OBVIOUS
      <4>1. i - 1 \in 1 .. Len(q) - 1 /\ i - 1 + 1 = i /\ Len(p) >= Len(q) - 1
        BY <1>1, <2>1 DEF Shrunk
      <4>2. p[i - 1] = q[i - 1 + 1]
        BY <2>1, <4>1 DEF Shrunk
      <4> QED BY <1>1, <4>1, <4>2
    <3> QED BY <3>1, <3>2
  <2>2. CASE Goes(q, p)
    <3>1. \A i \in 1 .. Len(p) : Sets(p, i) => i + 0 \in 2 .. Len(q) /\ p[i] = q[i + 0]
      <4> SUFFICES ASSUME NEW i \in 1 .. Len(p), Sets(p, i)
                   PROVE  i + 0 \in 2 .. Len(q) /\ p[i] = q[i + 0]
        OBVIOUS
      <4>1. i # 1
        BY <2>2 DEF Goes, Follows, Sets
      <4>2. i \in 2 .. Len(q) /\ i + 0 = i
        BY <1>1, <2>2, <4>1 DEF Goes
      <4> QED BY <2>2, <4>2 DEF Goes
    <3>2. \A i \in 2 .. Len(q) : i - 0 \in 1 .. Len(p) /\ p[i - 0] = q[i]
      <4> SUFFICES ASSUME NEW i \in 2 .. Len(q) PROVE i - 0 \in 1 .. Len(p) /\ p[i - 0] = q[i]
        OBVIOUS
      <4>1. i - 0 = i /\ i \in 1 .. Len(p)
        BY <1>1, <2>2 DEF Goes
      <4> QED BY <2>2, <4>1 DEF Goes
    <3> QED BY <3>1, <3>2
  <2> QED BY <2>1, <2>2
<1>3. ASSUME NEW i \in 1 .. Len(p), LastSets(p, i) PROVE p[i][1].arg = value
  <2>1. i + d \in 2 .. Len(q) /\ p[i] = q[i + d] /\ Sets(q, i + d)
    BY <1>2, <1>3 DEF LastSets, Sets
  <2>2. ASSUME NEW j \in 1 .. Len(q), j > i + d PROVE ~Sets(q, j)
    <3>1. j \in 2 .. Len(q) /\ j - d > i
      BY <1>1, <2>1, <2>2
    <3>2. j - d \in 1 .. Len(p) /\ p[j - d] = q[j]
      BY <1>2, <3>1
    <3>3. ~Sets(p, j - d)
      BY <1>3, <3>1, <3>2 DEF LastSets
    <3> QED BY <3>2, <3>3 DEF Sets
  <2>3. LastSets(q, i + d) /\ i + d \in 1 .. Len(q)
    BY <1>1, <2>1, <2>2 DEF LastSets
  <2> QED BY <2>1, <2>3 DEF Settled
<1>4. ASSUME \A i \in 1 .. Len(p) : ~Sets(p, i) PROVE ccwa \in {value, "refused"}
  <2>1. \A i \in 2 .. Len(q) : ~Sets(q, i)
    BY <1>2, <1>4 DEF Sets
  <2>2. \A i \in 1 .. Len(q) : i = 1 \/ i \in 2 .. Len(q)
    BY <1>1
  <2>3. CASE Sets(q, 1)
    <3>1. \A j \in 1 .. Len(q) : j > 1 => ~Sets(q, j)
      BY <1>1, <2>1
    <3>2. q[1][1].arg = value
      BY <1>1, <2>3, <3>1 DEF LastSets, Settled
    <3> QED BY <2>3, <3>2
  <2>4. CASE ~Sets(q, 1)
    BY <2>1, <2>2, <2>4 DEF Settled
  <2> QED BY <2>3, <2>4
<1> QED BY <1>3, <1>4 DEF Settled

LEMMA CInvKept == ASSUME IInv, IInv', CInv, [Next]_vars PROVE CInv'
<1>1. /\ QueueOK(s.queue, net.accepted) /\ QueueOK(s'.queue, net'.accepted)
      /\ executed => s.queue # <<>>
  BY Known DEF IInv, Core, Calm
<1>2. CASE Quiet
  BY <1>2 DEF Quiet, CInv, Carrier
<1>3. CASE Gone
  BY <1>3 DEF Gone, CInv
<1>4. ASSUME NEW N, Queues(N), executed'
      PROVE  executed /\ s'.queue[1] = s.queue[1] /\ net'.ccwa = net.ccwa
  <2>1. executed /\ net'.ccwa = net.ccwa /\ s.queue # <<>>
    BY <1>1, <1>4 DEF Queues, SameNet
  <2> QED BY <1>1, <1>4, <2>1, GrownFirst DEF Queues
<1>5. ASSUME NEW N, Queues(N), \A c \in N : c.cmd # "CCWA_SET", UNCHANGED conf,
             s'.registered => s.registered \/ conf.callwaiting = "auto"
      PROVE  CInv'
  <2>1. executed' /\ s'.queue[1][1].cmd = "CCWA_SET" => net'.ccwa \in {s'.queue[1][1].arg, "refused"}
    BY <1>4, <1>5 DEF CInv, Carrier
  <2>2. ASSUME s'.registered, conf'.callwaiting # "auto"
        PROVE  Settled(s'.queue, net'.ccwa, conf'.callwaiting)
    <3>1. Settled(s.queue, net.ccwa, conf.callwaiting)
      BY <1>5, <2>2 DEF CInv
    <3>2. Settled(s'.queue, net.ccwa, conf.callwaiting)
      BY <1>1, <1>5, <3>1, SettledGrown DEF Queues
    <3> QED BY <1>5, <3>2 DEF Queues, SameNet
  <2> QED BY <2>1, <2>2 DEF CInv, Carrier
<1>6. CASE QueuesPlain
  <2>1. \A c \in Plain : c.cmd # "CCWA_SET"
    BY DEF Plain
  <2> QED BY <1>5, <1>6, <2>1 DEF QueuesPlain
<1>7. CASE \E m \in Msgs : QueuesMessage(m)
  <2>1. PICK m \in Msgs : QueuesMessage(m)
    BY <1>7
  <2>2. PICK N : N = {c \in Entry : c.cmd \in {"CMGS", "CUSD"} /\ c.arg = m}
    OBVIOUS
  <2>3. Queues(N) /\ conf' = conf /\ s'.registered = s.registered
    BY <2>1, <2>2 DEF QueuesMessage
  <2>4. \A c \in N : c.cmd # "CCWA_SET"
    BY <2>2
  <2> QED BY <1>5, <2>3, <2>4
<1>8. CASE QueuesCcwa
  <2>1. executed' /\ s'.queue[1][1].cmd = "CCWA_SET" => net'.ccwa \in {s'.queue[1][1].arg, "refused"}
    BY <1>4, <1>8 DEF CInv, Carrier, QueuesCcwa
  <2>2. /\ Len(s'.queue) \in 1 .. Len(s'.queue) /\ Len(s'.queue) \in Nat
        /\ s'.queue[Len(s'.queue)][1] = Cmd("CCWA_SET", conf'.callwaiting)
    BY <1>1, <1>8, QueueLen DEF QueuesCcwa
  <2>3. Sets(s'.queue, Len(s'.queue)) /\ s'.queue[Len(s'.queue)][1].arg = conf'.callwaiting
    BY <2>2 DEF Sets, Cmd
  <2>4. \A i \in 1 .. Len(s'.queue) : LastSets(s'.queue, i) => i = Len(s'.queue)
    BY <2>2, <2>3 DEF LastSets
  <2>5. Settled(s'.queue, net'.ccwa, conf'.callwaiting)
    BY <2>2, <2>3, <2>4 DEF Settled
  <2> QED BY <2>1, <2>5 DEF CInv, Carrier
<1>9. CASE OkAnswer \/ ErrorAnswer \/ PromptAnswer \/ CmgrAnswer
  <2>1. PICK res : Answer(res)
    BY <1>9 DEF OkAnswer, ErrorAnswer, PromptAnswer, CmgrAnswer
  <2>2. /\ ~executed' /\ net'.ccwa = net.ccwa /\ conf' = conf /\ s'.registered = s.registered
        /\ executed /\ s.queue # <<>>
    BY <2>1 DEF Answer
  <2>3. Shrunk(s.queue, s'.queue) \/ Goes(s.queue, s'.queue)
    BY <2>1 DEF Answer
  <2>4. Sets(s.queue, 1) => net.ccwa \in {s.queue[1][1].arg, "refused"}
    BY <2>2 DEF CInv, Carrier, Sets
  <2>5. ASSUME s'.registered, conf'.callwaiting # "auto"
        PROVE  Settled(s'.queue, net'.ccwa, conf'.callwaiting)
    <3>1. Settled(s.queue, net.ccwa, conf.callwaiting)
      BY <2>2, <2>5 DEF CInv
    <3>2. Settled(s'.queue, net.ccwa, conf.callwaiting)
      BY <1>1, <2>2, <2>3, <2>4, <3>1, SettledAnswer
    <3> QED BY <2>2, <3>2
  <2> QED BY <2>2, <2>5 DEF CInv
<1>10. CASE Accepted \/ Refused
  <2>1. s' = s /\ conf' = conf /\ s.queue # <<>>
    BY <1>10 DEF Accepted, Refused, Executes
  <2>2. CASE Carrier.cmd = "CCWA_SET"
    <3>1. net'.ccwa \in {Carrier.arg, "refused"}
      BY <1>10, <2>2, AcceptIs DEF Refused
    <3>2. ASSUME NEW value, Settled(s.queue, net.ccwa, value) PROVE Settled(s.queue, net'.ccwa, value)
      <4>1. Sets(s.queue, 1) /\ 1 \in 1 .. Len(s.queue)
        BY <1>1, <2>1, <2>2, QueueLen DEF Sets, Carrier
      <4> QED BY <3>2, <4>1 DEF Settled
    <3> QED BY <2>1, <3>1, <3>2 DEF CInv, Carrier
  <2>3. CASE Carrier.cmd # "CCWA_SET"
    <3>1. net'.ccwa = net.ccwa
      BY <1>10, <2>3, AcceptIs DEF Refused
    <3> QED BY <2>1, <2>3, <3>1 DEF CInv, Carrier
  <2> QED BY <2>2, <2>3
<1> QED BY <1>2, <1>3, <1>6, <1>7, <1>8, <1>9, <1>10, Kinds

(* While the device is registered and no such command waits, the network   *)
(* has the call waiting setting that the driver shows, or refused it: a    *)
(* setting survives lost registrations and connections, and of several     *)
(* the last one counts (at_response_creg, at_enque_set_ccwa).              *)
THEOREM CallWaiting == Spec => []CcwaAgrees
<1>1. Init => CInv
  BY DEF Init, Down, CInv
<1>2. IInv /\ IInv' /\ CInv /\ [Next]_vars => CInv'
  BY CInvKept
<1>3. IInv /\ CInv => CcwaAgrees
  <2> SUFFICES ASSUME IInv, CInv, s.registered, conf.callwaiting # "auto", ~Queued("CCWA_SET")
               PROVE  net.ccwa \in {conf.callwaiting, "refused"}
    BY DEF CcwaAgrees
  <2>1. QueueOK(s.queue, net.accepted)
    BY Known
  <2>2. ASSUME NEW i \in 1 .. Len(s.queue) PROVE ~Sets(s.queue, i)
    <3>1. i \in DOMAIN s.queue /\ s.queue[i] \in Task /\ s.queue[i] # <<>>
      BY <2>1, TaskType DEF QueueOK
    <3>2. 1 \in DOMAIN s.queue[i]
      BY <3>1, EmptySeq DEF Task
    <3> QED BY <3>1, <3>2 DEF Queued, Sets
  <2> QED BY <2>2 DEF CInv, Settled
<1> QED BY <1>1, <1>2, <1>3, Invariance, PTL DEF Spec
=============================================================================
