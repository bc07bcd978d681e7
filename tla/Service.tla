------------------------------- MODULE Service -------------------------------
(***************************************************************************)
(* What one connected dongle does besides calls: the initialization of the *)
(* modem, its registration, and messages.  The command lists are those of  *)
(* at_command.c (at_enque_initialization, at_enque_sms, at_enque_ussd,     *)
(* at_enque_retrive_sms, at_enque_set_ccwa), the handlers those of         *)
(* at_response.c, the requests those of helpers.c.                         *)
(*                                                                         *)
(* All of it runs under pvt->lock, so a request and a handled result are   *)
(* one step each on the driver's record s.  The command queue is used as   *)
(* AtQueue promises: the head command is the one on the wire.              *)
(***************************************************************************)
EXTENDS Naturals, Sequences, SequencesExt

CONSTANTS
  Sms, Ussd,  (* the messages that may be sent                              *)
  Slots,      (* places of the SIM for received messages                    *)
  Configs,    (* the settings of the device, see Init                       *)
  Refuses,    (* commands the modem may answer with ERROR                   *)
  Tolerated,  (* those of them after which it should still become ready     *)
  MaxTasks,   (* bound: tasks queued when anybody but the monitor acts      *)
  MaxInbox,   (* bound: results unread when the modem acts                  *)
  None        (* no argument                                                *)

Msgs == Sms \cup Ussd
CcwaSettings == {"allowed", "disallowed"}

ASSUME MessagesAssumption == Sms \cap Ussd = {} /\ None \notin Msgs \cup Slots
Shared == [resetdongle : BOOLEAN, u2diag : BOOLEAN, disablesms : BOOLEAN,
           autodeletesms : BOOLEAN, callwaiting : CcwaSettings \cup {"auto"}]
ASSUME ConfigsAssumption == Configs \subseteq Shared
ASSUME ServiceBounds == {MaxTasks, MaxInbox} \subseteq Nat

VARIABLES
  conf,      (* pvt->settings.shared                                        *)
  s,         (* the driver's state: see Down                                *)
  executed,  (* the modem has executed the command on the wire              *)
  inbox,     (* what the modem sent and the monitor has not handled         *)
  net,       (* the modem, its SIM and the network: see Init                *)
  report     (* the outcome the sender of each message was told             *)

vars == <<conf, s, executed, inbox, net, report>>

Cmd(cmd, arg) == [cmd |-> cmd, arg |-> arg]

(* the answer that at_queue_cmd_t.res asks for, and ATQ_CMD_FLAG_IGNORE *)
Expected(c) == CASE c.cmd = "CMGS" -> "PROMPT"
                 [] c.cmd = "CMGR" -> "CMGR"
                 [] OTHER -> "OK"
Ignorable(c) == c.cmd \in {"CREG_INIT", "CSCS", "CCWA_SET", "CCWA_STATUS"}

-----------------------------------------------------------------------------
(* The operations of the driver, on its record r.                          *)

(* a task is the commands it still has to do *)
Enque(r, cmds) == [r EXCEPT !.queue = Append(@, cmds)]
Current(r) == Head(Head(r.queue))

(* Mutant: a task goes on after a failure that is not to be ignored. *)
RemoveKeepsTask(r, res) ==
  LET task == Head(r.queue)
  IN  IF Len(task) = 1
      THEN [r EXCEPT !.queue = Tail(@)]
      ELSE [r EXCEPT !.queue = <<Tail(task)>> \o Tail(@)]

at_queue_remove_cmd(r, res) ==
  LET task == Head(r.queue)
  IN  IF Len(task) = 1 \/ (Expected(Head(task)) # res /\ ~Ignorable(Head(task)))
      THEN [r EXCEPT !.queue = Tail(@)]
      ELSE [r EXCEPT !.queue = <<Tail(task)>> \o Tail(@)]

(* the beginning of the list, with the commands the configuration wants, *)
(* and the rest of it                                                    *)
Wanted(wanted, cmd) == IF wanted THEN <<cmd>> ELSE <<>>
Preface == <<"AT">> \o Wanted(conf.resetdongle, "Z") \o <<"E">> \o Wanted(conf.u2diag, "U2DIAG")
Setup == <<"CGMI", "CGMM", "CGMR", "CMEE", "CGSN", "CIMI", "CPIN", "COPS_INIT", "CREG_INIT",
           "CREG", "CNUM", "CVOICE", "CSCA", "CSSN", "CMGF", "CSCS", "CPMS", "CNMI", "CSQ">>

(* the list from the command on, AT or one of Setup *)
InitCmds(from) ==
  IF from = "AT" THEN Preface \o Setup
  ELSE SubSeq(Setup, CHOOSE i \in DOMAIN Setup : Setup[i] = from, Len(Setup))

at_enque_initialization(r, from) ==
  Enque(r, [i \in DOMAIN InitCmds(from) |-> Cmd(InitCmds(from)[i], None)])

(* at_enque_sms and at_enque_ussd *)
at_enque_message(r, m) ==
  Enque(r, IF m \in Sms THEN <<Cmd("CMGS", m), Cmd("SMSTEXT", m)>> ELSE <<Cmd("CUSD", m)>>)

at_enque_retrive_sms(r, slot) ==
  Enque(r, IF conf.autodeletesms THEN <<Cmd("CMGR", slot), Cmd("CMGD", slot)>>
                                 ELSE <<Cmd("CMGR", slot)>>)

at_enque_set_ccwa(r, value) ==
  Enque(r, <<Cmd("CCWA_SET", value), Cmd("CCWA_STATUS", None)>>)

(* A change of state asked for later is made as soon as nothing is going   *)
(* on.  outgoing_sms is never set, so a message being sent is not seen.    *)
pvt_try_restate(r) ==
  IF r.restart # "none" /\ ~r.incoming THEN [r EXCEPT !.restart = "now"] ELSE r

pvt_enabled(r) == r.up /\ r.restart \in {"none", "convenient"}

-----------------------------------------------------------------------------
(* restart: a restart was asked for "gracefully", when "convenient", or is *)
(* due "now"                                                               *)
Down(restart) ==
  [up |-> FALSE, queue |-> <<>>, initialized |-> FALSE, has_voice |-> FALSE,
   has_sms |-> FALSE, registered |-> FALSE, incoming |-> FALSE, restart |-> restart]

(* net: the commands of the initialization the modem accepted on this      *)
(* connection, the messages on the SIM ("read" once the driver has had     *)
(* them), whether it is registered, its call waiting setting, and the      *)
(* messages it has sent                                                    *)
Init ==
  /\ conf \in Configs
  /\ s = Down("none")
  /\ executed = FALSE
  /\ inbox = <<>>
  /\ net = [accepted |-> {}, sim |-> [i \in Slots |-> "empty"], reg |-> FALSE,
            ccwa |-> "unknown", got |-> {}]
  /\ report = [m \in Msgs |-> "none"]

(* disconnect_dongle *)
Disconnect(restart) ==
  /\ s' = Down(restart)
  /\ executed' = FALSE
  /\ inbox' = <<>>

(* do_discovery starts the device unless a change is pending for later *)
Connect ==
  /\ ~s.up /\ s.restart \in {"none", "now"}
  /\ s' = at_enque_initialization([s EXCEPT !.up = TRUE, !.restart = "none"], "AT")
  /\ net' = [net EXCEPT !.accepted = {}]
  /\ UNCHANGED <<conf, executed, inbox, report>>

(* a port error, a timeout, a result that cannot be parsed *)
Lost == s.up /\ Disconnect(s.restart) /\ UNCHANGED <<conf, net, report>>

(* the restart that is due, pvt_stop *)
Stop == s.up /\ s.restart = "now" /\ Disconnect("now") /\ UNCHANGED <<conf, net, report>>

(* schedule_restart_event *)
Request(when) ==
  /\ s.restart # "now"
  /\ s' = pvt_try_restate([s EXCEPT !.restart = when])
  /\ UNCHANGED <<conf, executed, inbox, net, report>>

(* the monitor waited in vain with nothing to do: at_enque_ping *)
Ping == /\ s.up /\ s.queue = <<>> /\ inbox = <<>>
        /\ s' = Enque(s, <<Cmd("AT", None)>>)
        /\ UNCHANGED <<conf, executed, inbox, net, report>>

(* Mutant: send2 does not ask whether the device is ready. *)
ReadyIfConnected == s.up

(* send2 with online set *)
Ready == s.up /\ s.initialized /\ s.registered

Send(m) == /\ Ready /\ report[m] = "none" /\ Len(s.queue) < MaxTasks
           /\ s' = at_enque_message(s, m)
           /\ report' = [report EXCEPT ![m] = "queued"]
           /\ UNCHANGED <<conf, executed, inbox, net>>

send_ccwa_set(value) ==
  /\ Ready /\ Len(s.queue) < MaxTasks
  /\ s' = at_enque_set_ccwa(s, value)
  /\ conf' = [conf EXCEPT !.callwaiting = value]
  /\ UNCHANGED <<executed, inbox, net, report>>

-----------------------------------------------------------------------------
(* The handlers.  Each ends with at_queue_handle_result.                   *)

Got(type) == s.up /\ inbox # <<>> /\ Head(inbox).type = type
Answered == inbox' = Tail(inbox) /\ executed' = FALSE
Reported(outcome) ==
  report' = [report EXCEPT ![Current(s).arg] = outcome]

(* Mutant: the device is called ready as soon as the message format is set. *)
OkReadyEarly(r, c) ==
  CASE c.cmd = "CVOICE"  -> [r EXCEPT !.has_voice = TRUE]
    [] c.cmd = "CMGF"    -> [r EXCEPT !.has_sms = TRUE, !.initialized = TRUE]
    [] c.cmd = "SMSTEXT" -> pvt_try_restate(r)
    [] OTHER             -> r

OkEffect(r, c) ==
  CASE c.cmd = "CVOICE"  -> [r EXCEPT !.has_voice = TRUE]
    [] c.cmd = "CNMI"    -> [r EXCEPT !.has_sms = TRUE, !.initialized = TRUE]
    [] c.cmd = "SMSTEXT" -> pvt_try_restate(r)
    [] OTHER             -> r

(* an OK for a command that waits for the prompt is ignored *)
at_response_ok ==
  /\ Got("OK")
  /\ IF Expected(Current(s)) = "PROMPT"
     THEN inbox' = Tail(inbox) /\ UNCHANGED <<s, executed, report>>
     ELSE /\ s' = at_queue_remove_cmd(OkEffect(s, Current(s)), "OK")
          /\ Answered
          /\ IF Current(s).cmd \in {"SMSTEXT", "CUSD"} THEN Reported("Sent")
                                                       ELSE UNCHANGED report
  /\ UNCHANGED <<conf, net>>

(* commands whose refusal ends the connection; without messages a modem is *)
(* made ready and then given up all the same (see the FIXME there)         *)
Fatal == {"AT", "Z", "E", "CGMI", "CGMM", "CGMR", "CMEE", "CGSN", "CIMI", "CPIN",
          "COPS_INIT", "CREG_INIT", "CNUM", "CSSN", "CMGF", "CPMS", "CNMI"}

(* Mutant: a modem without voice is not initialized further. *)
ErrorEndsInit(r, c) ==
  CASE c.cmd = "CVOICE" -> [r EXCEPT !.has_voice = FALSE]
    [] c.cmd \in {"CMGR", "CMGD"} -> pvt_try_restate([r EXCEPT !.incoming = FALSE])
    [] c.cmd \in {"CMGS", "SMSTEXT"} -> pvt_try_restate(r)
    [] OTHER -> r

ErrorEffect(r, c) ==
  CASE c.cmd = "CVOICE" -> at_enque_initialization([r EXCEPT !.has_voice = FALSE], "CMGF")
    [] c.cmd \in {"CMGR", "CMGD"} -> pvt_try_restate([r EXCEPT !.incoming = FALSE])
    [] c.cmd \in {"CMGS", "SMSTEXT"} -> pvt_try_restate(r)
    [] OTHER -> r

at_response_error ==
  /\ Got("ERROR")
  /\ IF Current(s).cmd \in Fatal
     THEN Disconnect(s.restart) /\ UNCHANGED report
     ELSE /\ s' = at_queue_remove_cmd(ErrorEffect(s, Current(s)), "ERROR")
          /\ Answered
          /\ IF Current(s).cmd \in {"CMGS", "SMSTEXT", "CUSD"} THEN Reported("NotSent")
                                                               ELSE UNCHANGED report
  /\ UNCHANGED <<conf, net>>

at_response_sms_prompt ==
  /\ Got("PROMPT")
  /\ s' = at_queue_remove_cmd(s, "PROMPT")
  /\ Answered /\ UNCHANGED <<conf, net, report>>

(* a message read from the SIM is announced, or found unreadable and only  *)
(* logged; in both cases it is deleted next                                *)
at_response_cmgr ==
  /\ Got("CMGR")
  /\ s' = pvt_try_restate([at_queue_remove_cmd(s, "CMGR") EXCEPT !.incoming = FALSE])
  /\ net' = [net EXCEPT !.sim[Head(inbox).arg] = "read"]
  /\ Answered /\ UNCHANGED <<conf, report>>

at_response_cmti ==
  /\ Got("CMTI")
  /\ s' = IF ~conf.disablesms /\ pvt_enabled(s)
          THEN [at_enque_retrive_sms(s, Head(inbox).arg) EXCEPT !.incoming = TRUE]
          ELSE s
  /\ inbox' = Tail(inbox)
  /\ UNCHANGED <<conf, executed, net, report>>

(* Mutant: call waiting is not set again after the registration was lost. *)
CregNoCcwa(r, registered) ==
  [Enque(r, <<Cmd("COPS", None)>>) EXCEPT !.registered = registered]

(* the operator is asked for again, and call waiting is set when the       *)
(* device gets registered                                                  *)
CregEffect(r, registered) ==
  LET asked == Enque(r, <<Cmd("COPS", None)>>)
      told  == IF registered /\ ~r.registered /\ conf.callwaiting # "auto"
               THEN at_enque_set_ccwa(asked, conf.callwaiting) ELSE asked
  IN  [told EXCEPT !.registered = registered]

at_response_creg ==
  /\ Got("CREG")
  /\ s' = CregEffect(s, Head(inbox).arg)
  /\ inbox' = Tail(inbox)
  /\ UNCHANGED <<conf, executed, net, report>>

Handle == \/ at_response_ok \/ at_response_error \/ at_response_sms_prompt
          \/ at_response_cmgr \/ at_response_cmti \/ at_response_creg

-----------------------------------------------------------------------------
(* The modem, the SIM and the network.                                     *)

Msg(type, arg) == [type |-> type, arg |-> arg]

(* the commands of the initialization that service depends on *)
Settings == {"CVOICE", "CMGF", "CPMS", "CNMI"}

(* what the modem becomes by a command it accepts *)
AcceptEffect(c) ==
  CASE c.cmd \in {"SMSTEXT", "CUSD"} -> [net EXCEPT !.got = @ \cup {c.arg}]
    [] c.cmd = "CMGD" -> [net EXCEPT !.sim[c.arg] = "empty"]
    [] c.cmd = "CCWA_SET" -> [net EXCEPT !.ccwa = c.arg]
    [] c.cmd \in Settings -> [net EXCEPT !.accepted = @ \cup {c.cmd}]
    [] OTHER -> net

OnWire == s.up /\ s.queue # <<>> /\ ~executed

ModemAccepts ==
  LET c == Current(s)
  IN  /\ OnWire
      /\ executed' = TRUE
      /\ net' = AcceptEffect(c)
      /\ inbox' = inbox \o
           CASE c.cmd = "CREG" -> <<Msg("CREG", net.reg), Msg("OK", None)>>
             [] c.cmd = "CMGR" -> <<Msg("CMGR", c.arg)>>
             [] c.cmd = "CMGS" -> <<Msg("PROMPT", None)>>
             [] OTHER -> <<Msg("OK", None)>>
      /\ UNCHANGED <<conf, s, report>>

ModemRefuses(c) ==
  /\ OnWire /\ Current(s).cmd = c
  /\ executed' = TRUE
  /\ net' = IF c = "CCWA_SET" THEN [net EXCEPT !.ccwa = "refused"] ELSE net
  /\ inbox' = Append(inbox, Msg("ERROR", None))
  /\ UNCHANGED <<conf, s, report>>

(* the message is not where it was announced (it is in another memory, or  *)
(* was deleted by a user's command): a bare OK                             *)
ModemFindsNothing ==
  /\ OnWire /\ Current(s).cmd = "CMGR"
  /\ executed' = TRUE
  /\ inbox' = Append(inbox, Msg("OK", None))
  /\ UNCHANGED <<conf, s, net, report>>

(* Unsolicited codes reach the driver only while it is connected. *)
Announce(m) == IF s.up THEN /\ Len(inbox) < MaxInbox /\ Len(s.queue) < MaxTasks
                            /\ inbox' = Append(inbox, m)
                       ELSE UNCHANGED inbox

MessageArrives(i) ==
  /\ net.sim[i] = "empty"
  /\ net' = [net EXCEPT !.sim[i] = "new"]
  /\ Announce(Msg("CMTI", i))
  /\ UNCHANGED <<conf, s, executed, report>>

RegistrationChanges ==
  /\ net' = [net EXCEPT !.reg = ~@]
  /\ Announce(Msg("CREG", ~net.reg))
  /\ UNCHANGED <<conf, s, executed, report>>

-----------------------------------------------------------------------------
Next ==
  \/ Connect \/ Lost \/ Stop \/ Ping \/ Handle
  \/ \E when \in {"gracefully", "convenient", "now"} : Request(when)
  \/ \E m \in Msgs : Send(m)
  \/ \E value \in CcwaSettings : send_ccwa_set(value)
  \/ ModemAccepts \/ ModemFindsNothing
  \/ \E c \in Refuses : ModemRefuses(c)
  \/ \E i \in Slots : MessageArrives(i)
  \/ RegistrationChanges

Spec == Init /\ [][Next]_vars

(* Discovery, the monitor and a modem that answers what it is asked.  A    *)
(* modem that stops answering is lost after the timeout: Lost.             *)
Fairness ==
  /\ WF_vars(Connect) /\ WF_vars(Stop) /\ WF_vars(Handle)
  /\ WF_vars(ModemAccepts \/ ModemFindsNothing \/ \E c \in Refuses : ModemRefuses(c))
FairSpec == Spec /\ Fairness

-----------------------------------------------------------------------------
(* Properties.                                                             *)

Args == Msgs \cup Slots \cup CcwaSettings \cup {None}
InitNames == {"AT", "Z", "E", "U2DIAG", "COPS"} \cup {Setup[i] : i \in DOMAIN Setup}
Commands == InitNames \cup {"CMGS", "SMSTEXT", "CUSD", "CMGR", "CMGD", "CCWA_SET", "CCWA_STATUS"}
Driver ==
  [up : BOOLEAN, queue : Seq(Seq([cmd : Commands, arg : Args])), initialized : BOOLEAN,
   has_voice : BOOLEAN, has_sms : BOOLEAN, registered : BOOLEAN, incoming : BOOLEAN,
   restart : {"none", "gracefully", "convenient", "now"}]
Results == [type : {"OK", "ERROR", "PROMPT"}, arg : {None}]
           \cup [type : {"CMGR", "CMTI"}, arg : Slots] \cup [type : {"CREG"}, arg : BOOLEAN]
Net ==
  [accepted : SUBSET Settings, sim : [Slots -> {"empty", "new", "read"}], reg : BOOLEAN,
   ccwa : CcwaSettings \cup {"unknown", "refused"}, got : SUBSET Msgs]
TypeOK ==
  /\ conf \in Shared
  /\ s \in Driver /\ \A i \in DOMAIN s.queue : s.queue[i] # <<>>
  /\ executed \in BOOLEAN
  /\ inbox \in Seq(Results)
  /\ net \in Net
  /\ report \in [Msgs -> {"none", "queued", "Sent", "NotSent"}]

Queued(cmd) == \E i \in DOMAIN s.queue : \E j \in DOMAIN s.queue[i] : s.queue[i][j].cmd = cmd

(* A device that says it is ready has been set up on this connection, on   *)
(* whichever of the ways through the list and after whatever was lost      *)
(* before: message format, storage and notification are accepted, and      *)
(* has_voice and has_sms are what the modem said (at_response_ok, _error). *)
ReadyMeansTold ==
  s.initialized => /\ {"CMGF", "CPMS", "CNMI"} \subseteq net.accepted
                   /\ s.has_sms
                   /\ (s.has_voice <=> "CVOICE" \in net.accepted)

(* No message waits for a modem that was not told the message format: what *)
(* send2 tested still holds when the queue gets to the message.            *)
MessageNeedsFormat ==
  Queued("CMGS") \/ Queued("SMSTEXT") \/ Queued("CUSD") => "CMGF" \in net.accepted

(* A message is deleted from the SIM only after the driver has had its     *)
(* text, through refusals, empty answers and lost connections              *)
(* (at_enque_retrive_sms with autodeletesms).                              *)
DeletesOnlyRead == [][\A i \in Slots : net.sim[i] = "new" => net'.sim[i] # "empty"]_vars

(* The sender is told "Sent" only of messages that were sent, "NotSent"    *)
(* only of ones that never will be, and is not told twice                  *)
(* (manager_event_sent_notify).                                            *)
ReportsHonest ==
  [][\A m \in Msgs :
       /\ report'[m] = "Sent" => m \in net'.got
       /\ report'[m] = "NotSent" => m \notin net'.got
       /\ report[m] \in {"Sent", "NotSent"} => report'[m] = report[m]]_vars

(* While the device is registered and no such command waits, the network   *)
(* has the call waiting setting that the driver shows, or refused it: a    *)
(* setting survives lost registrations and connections, and of several     *)
(* the last one counts (at_response_creg, at_enque_set_ccwa).              *)
CcwaAgrees ==
  s.registered /\ conf.callwaiting # "auto" /\ ~Queued("CCWA_SET")
    => net.ccwa \in {conf.callwaiting, "refused"}

(* Unless it is lost, told to restart or refused something it cannot do    *)
(* without again and again, a device becomes ready: no refusal that the    *)
(* driver means to live with leaves it half initialized.  A change for     *)
(* later that is pending when the connection is lost keeps it down: see    *)
(* ComesBack of DeviceLife.                                                *)
Disturbs == \/ Lost
            \/ \E when \in {"gracefully", "convenient", "now"} : Request(when)
            \/ \E c \in Refuses \ Tolerated : ModemRefuses(c)
KeptDown == ~s.up /\ s.restart \in {"gracefully", "convenient"}
BecomesReady == <>[][~Disturbs]_vars => []<>(s.initialized \/ KeptDown)

(* A restart asked for when convenient, or gracefully, is made some time:  *)
(* every received message that it waits for ends (incoming_sms).           *)
RestartHappens == s.restart # "none" ~> ~s.up

(* and it is not made while a message that was announced is still to be    *)
(* read                                                                    *)
RestartSparesReading ==
  [][s.restart # "now" /\ s'.restart = "now" /\ ~Request("now") => ~Queued("CMGR")']_vars
=============================================================================
