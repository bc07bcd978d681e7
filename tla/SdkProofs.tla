----------------------------- MODULE SdkProofs -----------------------------
(***************************************************************************)
(* Proofs about Sdk, for every number of threads, calls and devices, every *)
(* length of a buffer and of the lines of an answer, and every bound.      *)
(***************************************************************************)
EXTENDS Sdk, FiniteSetTheorems, TLAPS

(***************************************************************************)
(* The synchronous command                                                 *)
(***************************************************************************)
Resp == [pending : BOOLEAN, complete : BOOLEAN, result : {0, -1}, buf : Callers \cup {NULL},
         size : Nat, lines : Seq(Nat), used : Nat]
Caller == [pc : {"out", "enqueue", "wait"}, cmd : Nat, answer : Seq(Nat)]
LogLine == [cmd : Nat, len : Nat, terminal : BOOLEAN, ok : BOOLEAN]

Typed ==
  /\ resp \in Resp
  /\ caller \in [Callers -> Caller]
  /\ queue \in Seq(Nat)
  /\ line = NULL \/ line \in LogLine
  /\ asked \in Nat

(* every command has its own number, and nobody starts with an answer *)
Numbered ==
  /\ \A c \in Callers : caller[c].cmd <= asked
  /\ \A c \in Callers : Inside(c) => caller[c].cmd # 0 /\ caller[c].answer = <<>>
  /\ \A c \in Callers : caller[c].cmd = 0 => caller[c].answer = <<>>
  /\ \A c, d \in Callers : caller[c].cmd = caller[d].cmd /\ caller[c].cmd # 0 => c = d

All(lines, cmd) == \A i \in DOMAIN lines : lines[i] = cmd

(* the driver has no command but that of the caller that waits *)
OneCommand ==
  /\ (\A c \in Callers : caller[c].pc # "wait") => queue = <<>> /\ line = NULL
  /\ \A c \in Callers : caller[c].pc = "wait" =>
       /\ queue \in {<<>>, <<caller[c].cmd>>}
       /\ line # NULL => line.cmd = caller[c].cmd /\ (line.terminal => queue = <<>>)
       /\ resp.complete => queue = <<>> /\ line = NULL
       /\ All(resp.lines, caller[c].cmd)
  /\ \A c \in Callers : caller[c].pc = "enqueue" => resp.lines = <<>> /\ ~resp.complete
  /\ \A c \in Callers : All(caller[c].answer, caller[c].cmd)

CInv ==
  /\ Typed /\ Numbered
  /\ resp.pending <=> resp.buf # NULL
  /\ BufferLive /\ BufferFits
  /\ given_up = {} => OneCommand

(* What is copied leaves room for the terminating zero. *)
LEMMA FilledFits ==
  ASSUME NEW used \in Nat, NEW size \in Nat, NEW len \in Nat, used < size
  PROVE  Filled(used, size, len) \in Nat /\ Filled(used, size, len) < size
BY DEF Filled, Break

(* The initial state. *)
LEMMA CommandInitInv == ASSUME Init PROVE CInv
<1>1. PICK p \in Parts : CommandInit(MaxAsked - p.asked) BY DEF Init
<1>2. MaxAsked - p.asked \in Nat BY PartsAssumption, AskedAssumption
<1>3. QED BY <1>1, <1>2, NullAssumption
      DEF CommandInit, CInv, Typed, Numbered, OneCommand, BufferLive, BufferFits, Inside, All,
          Resp, Caller, NoResp, Outside

(* A caller enters, or is refused while another is inside. *)
LEMMA BeginInv == ASSUME CInv, NEW c \in Callers, AtBegin(c) PROVE CInv'
<1> USE DEF CInv, Inside
<1>1. CASE resp.pending
  <2>1. asked' = asked + 1 /\ UNCHANGED <<resp, caller, queue, line, given_up>>
    BY <1>1 DEF AtBegin
  <2>2. Typed' BY <2>1 DEF Typed
  <2>3. Numbered' BY <2>1 DEF Numbered, Typed, Caller
  <2>4. QED BY <2>1, <2>2, <2>3 DEF BufferLive, BufferFits, OneCommand, All
<1>2. CASE ~resp.pending
  <2>1. PICK n \in Sizes : Registered(c, n) BY <1>2 DEF AtBegin
  <2>2. /\ asked' = asked + 1 /\ UNCHANGED <<queue, line, given_up>>
        /\ caller[c].pc = "out" /\ n \in Nat \ {0}
    BY SizesAssumption DEF AtBegin
  <2>3. /\ resp' = [NoResp EXCEPT !.pending = TRUE, !.buf = c, !.size = n]
        /\ caller' = [caller EXCEPT ![c] = [pc |-> "enqueue", cmd |-> asked + 1, answer |-> <<>>]]
    BY <2>1, <2>2 DEF Registered
  <2>4. \A d \in Callers : caller[d].pc = "out" BY <1>2, NullAssumption DEF BufferLive, Typed, Caller
  <2>5. Typed'
    <3>0. resp' = [pending |-> TRUE, complete |-> FALSE, result |-> -1, buf |-> c,
                   size |-> n, lines |-> <<>>, used |-> 0]
      BY <2>3 DEF NoResp
    <3>1. resp' \in Resp BY <2>2, <3>0 DEF Resp
    <3>2. [pc |-> "enqueue", cmd |-> asked + 1, answer |-> <<>>] \in Caller
      BY DEF Typed, Caller
    <3>3. caller' \in [Callers -> Caller] BY <2>3, <3>2 DEF Typed
    <3>4. QED BY <2>2, <3>1, <3>3, SMTT(30) DEF Typed, Resp, Caller, LogLine
  <2>6. Numbered' BY <2>2, <2>3 DEF Numbered, Typed, Caller
  <2>7. BufferLive' /\ BufferFits' /\ (resp.pending <=> resp.buf # NULL)'
    BY <2>2, <2>3, <2>4, NullAssumption DEF BufferLive, BufferFits, NoResp, Typed
  <2>8. (given_up = {} => OneCommand)'
    BY <2>2, <2>3, <2>4 DEF OneCommand, NoResp, Typed, All
  <2>9. QED BY <2>5, <2>6, <2>7, <2>8
<1>3. QED BY <1>1, <1>2

(* The driver takes the command. *)
LEMMA EnqueueInv == ASSUME CInv, NEW c \in Callers, AtEnqueue(c) PROVE CInv'
<1> USE DEF CInv, Inside
<1>1. /\ caller[c].pc = "enqueue" /\ queue' = Append(queue, caller[c].cmd)
      /\ caller' = [caller EXCEPT ![c].pc = "wait"]
      /\ UNCHANGED <<resp, line, asked, given_up>>
  BY DEF AtEnqueue
<1>2. \A d \in Callers : d # c => caller[d].pc = "out" BY <1>1 DEF BufferLive, Typed, Caller
<1>3. Typed'
  <2>1. [caller[c] EXCEPT !.pc = "wait"] \in Caller /\ caller[c].cmd \in Nat BY DEF Typed, Caller
  <2>2. caller' = [caller EXCEPT ![c] = [caller[c] EXCEPT !.pc = "wait"]] BY <1>1 DEF Typed, Caller
  <2>3. caller' \in [Callers -> Caller] BY <2>1, <2>2 DEF Typed
  <2>4. Append(queue, caller[c].cmd) \in Seq(Nat) BY <2>1 DEF Typed
  <2>5. QED BY <1>1, <2>3, <2>4 DEF Typed, Resp, Caller, LogLine
<1>4. Numbered' BY <1>1 DEF Numbered, Typed, Caller
<1>5. BufferLive' /\ BufferFits' /\ (resp.pending <=> resp.buf # NULL)'
  BY <1>1 DEF BufferLive, BufferFits, Typed, Caller
<1>6. ASSUME given_up = {} PROVE OneCommand'
  <2>1. queue = <<>> /\ line = NULL BY <1>1, <1>2, <1>6 DEF OneCommand
  <2>2. queue' = <<caller[c].cmd>> BY <1>1, <2>1
  <2>3. resp.lines = <<>> /\ ~resp.complete BY <1>1, <1>6 DEF OneCommand
  <2>4. QED BY <1>1, <1>2, <1>6, <2>1, <2>2, <2>3 DEF OneCommand, All, Typed, Caller
<1>7. QED BY <1>1, <1>3, <1>4, <1>5, <1>6

(* A caller leaves without an answer: refused, or by the clock. *)
LEMMA LeaveInv ==
  ASSUME CInv, NEW c \in Callers, Inside(c),
         NEW b \in BOOLEAN,
         resp' = [resp EXCEPT !.pending = FALSE, !.complete = b, !.buf = NULL, !.size = 0],
         caller' = [caller EXCEPT ![c] = Outside],
         UNCHANGED <<queue, line, asked>>,
         given_up' = {} => given_up = {} /\ caller[c].pc = "enqueue"
  PROVE  CInv'
<1> USE DEF CInv, Inside
<1>1. \A d \in Callers : d # c => caller[d].pc = "out" BY DEF BufferLive, Typed, Caller
<1>2. Typed'
  <2>1. resp' \in Resp BY DEF Typed, Resp
  <2>2. Outside \in Caller BY DEF Outside, Caller
  <2>3. caller' \in [Callers -> Caller] BY <2>2 DEF Typed
  <2>4. QED BY <2>1, <2>3 DEF Typed, Resp, Caller, LogLine
<1>3. Numbered' BY DEF Numbered, Typed, Caller, Outside
<1>4. BufferLive' /\ BufferFits' /\ (resp.pending <=> resp.buf # NULL)'
  BY <1>1 DEF BufferLive, BufferFits, Typed, Caller, Resp, Outside
<1>5. ASSUME given_up' = {} PROVE OneCommand'
  <2>1. queue = <<>> /\ line = NULL BY <1>1, <1>5 DEF OneCommand
  <2>2. QED BY <1>1, <1>5, <2>1 DEF OneCommand, All, Typed, Caller, Outside
<1>6. QED BY <1>2, <1>3, <1>4, <1>5

LEMMA RefusedInv == ASSUME CInv, NEW c \in Callers, AtRefused(c) PROVE CInv'
<1>1. resp.complete \in BOOLEAN /\ resp \in Resp BY DEF CInv, Typed, Resp
<1>2. resp' = [resp EXCEPT !.pending = FALSE, !.complete = resp.complete, !.buf = NULL, !.size = 0]
  BY <1>1 DEF AtRefused, Resp
<1>3. QED BY <1>1, <1>2, LeaveInv DEF AtRefused, Inside

LEMMA TimeoutInv == ASSUME CInv, NEW c \in Callers, AtTimeout(c) PROVE CInv'
<1>1. given_up' # {} BY DEF AtTimeout, GiveUp
<1>2. QED BY <1>1, LeaveInv DEF AtTimeout, GiveUp, AtReset, Inside

(* A caller takes its answer. *)
LEMMA CompleteInv == ASSUME CInv, NEW c \in Callers, AtComplete(c) PROVE CInv'
<1> USE DEF CInv, Inside
<1>1. /\ caller[c].pc = "wait" /\ resp.complete
      /\ resp' = [resp EXCEPT !.pending = FALSE, !.complete = FALSE, !.buf = NULL, !.size = 0]
      /\ caller' = [caller EXCEPT ![c].pc = "out", ![c].answer = resp.lines]
      /\ UNCHANGED <<queue, line, asked, given_up>>
  BY DEF AtComplete, AtReset
<1>2. \A d \in Callers : d # c => caller[d].pc = "out" BY <1>1 DEF BufferLive, Typed, Caller
<1>3. Typed' BY <1>1 DEF Typed, Resp, Caller
<1>4. Numbered' BY <1>1 DEF Numbered, Typed, Caller
<1>5. BufferLive' /\ BufferFits' /\ (resp.pending <=> resp.buf # NULL)'
  BY <1>1, <1>2 DEF BufferLive, BufferFits, Typed, Caller, Resp
<1>6. ASSUME given_up = {} PROVE OneCommand'
  BY <1>1, <1>2, <1>6 DEF OneCommand, All, Typed, Caller, Resp
<1>7. QED BY <1>1, <1>3, <1>4, <1>5, <1>6

LEMMA CallerInv == ASSUME CInv, NEW c \in Callers, CommandStep(c) PROVE CInv'
BY EnqueueInv, RefusedInv, CompleteInv, TimeoutInv DEF CommandStep

(* A line is logged: the head of the queue answers. *)
LEMMA LogInv ==
  ASSUME CInv, MonitorFree, queue # <<>>, NEW len \in Nat, NEW t \in BOOLEAN, NEW ok \in BOOLEAN,
         Logged(len, t, ok), queue' = IF t THEN Tail(queue) ELSE queue,
         UNCHANGED <<resp, caller, asked, given_up>>
  PROVE  CInv'
<1> USE DEF CInv, Inside
<1>1. /\ line = NULL /\ queue \in Seq(Nat)
      /\ line' = [cmd |-> Head(queue), len |-> len, terminal |-> t, ok |-> ok]
  BY DEF MonitorFree, Logged, Typed
<1>2. Head(queue) \in Nat /\ Tail(queue) \in Seq(Nat) BY <1>1
<1>3. Typed' BY <1>1, <1>2 DEF Typed, LogLine
<1>4. ASSUME given_up = {} PROVE OneCommand'
  <2>1. PICK c \in Callers : caller[c].pc = "wait" BY <1>4 DEF OneCommand
  <2>2. queue = <<caller[c].cmd>> BY <1>4, <2>1 DEF OneCommand
  <2>3. \A d \in Callers : d # c => caller[d].pc = "out" BY <2>1 DEF BufferLive, Typed, Caller
  <2>4. Head(queue) = caller[c].cmd /\ Tail(queue) = <<>> BY <1>1, <2>2
  <2>5. queue' \in {<<>>, <<caller[c].cmd>>} /\ (t => queue' = <<>>) BY <2>2, <2>4
  <2>6. ~resp.complete BY <1>4, <2>1, <2>2 DEF OneCommand
  <2>7. QED BY <1>1, <1>4, <2>1, <2>3, <2>4, <2>5, <2>6 DEF OneCommand, All
<1>5. QED BY <1>3, <1>4 DEF BufferLive, BufferFits, Numbered

LEMMA LineInv == ASSUME CInv, Line PROVE CInv'
<1>1. PICK len \in LineLens : Logged(len, FALSE, FALSE) BY DEF Line
<1>2. len \in Nat BY SizesAssumption
<1>3. QED BY <1>1, <1>2, LogInv DEF Line

LEMMA ResultInv == ASSUME CInv, Result PROVE CInv'
<1>1. PICK ok \in BOOLEAN : Logged(IF ok THEN 2 ELSE 5, TRUE, ok) BY DEF Result
<1>2. QED BY <1>1, LogInv DEF Result

LEMMA FlushInv == ASSUME CInv, Flush PROVE CInv'
<1>1. line = NULL /\ queue' = <<>> /\ UNCHANGED <<resp, caller, line, asked, given_up>>
  BY DEF Flush, MonitorFree
<1>2. QED BY <1>1 DEF CInv, Typed, Numbered, BufferLive, BufferFits, OneCommand, Inside, All, LogLine

(* The line is captured, if there is a buffer for it. *)
LEMMA CaptureInv == ASSUME CInv, Capture PROVE CInv'
<1> USE DEF CInv, Inside
<1>1. /\ line # NULL /\ line \in LogLine /\ line' = NULL
      /\ simbox_device_capture_at_response
      /\ UNCHANGED <<caller, queue, asked, given_up>>
  BY DEF Capture, Typed
<1>2. CASE ~Captures
  <2>1. resp' = resp BY <1>1, <1>2 DEF simbox_device_capture_at_response
  <2>2. QED BY <1>1, <2>1
        DEF Typed, Numbered, BufferLive, BufferFits, OneCommand, All, LogLine
<1>3. CASE Captures
  <2>1. /\ resp' = [resp EXCEPT !.lines = Append(@, line.cmd),
                                !.used = Filled(@, resp.size, line.len),
                                !.complete = @ \/ line.terminal,
                                !.result = IF ~line.terminal THEN @
                                           ELSE IF line.ok THEN 0 ELSE -1]
        /\ resp.pending /\ resp.buf # NULL /\ resp.size # 0
    BY <1>1, <1>3 DEF simbox_device_capture_at_response, Captures
  <2>2. /\ Filled(resp.used, resp.size, line.len) \in Nat
        /\ Filled(resp.used, resp.size, line.len) < resp.size
    BY <1>1, <2>1, FilledFits DEF BufferFits, Typed, Resp, LogLine
  <2>3. Append(resp.lines, line.cmd) \in Seq(Nat) BY <1>1 DEF Typed, Resp, LogLine
  <2>4. /\ resp'.lines = Append(resp.lines, line.cmd)
        /\ resp'.used = Filled(resp.used, resp.size, line.len)
        /\ resp'.complete = (resp.complete \/ line.terminal)
        /\ resp'.pending = resp.pending /\ resp'.buf = resp.buf /\ resp'.size = resp.size
    BY <2>1 DEF Typed, Resp
  <2>5. resp' \in Resp
    <3>1. (resp.complete \/ line.terminal) \in BOOLEAN OBVIOUS
    <3>2. (IF ~line.terminal THEN resp.result ELSE IF line.ok THEN 0 ELSE -1) \in {0, -1}
      BY DEF Typed, Resp
    <3>3. QED BY <2>1, <2>2, <2>3, <3>1, <3>2 DEF Typed, Resp
  <2>6. BufferLive' /\ BufferFits' /\ (resp.pending <=> resp.buf # NULL)'
    BY <1>1, <2>2, <2>4 DEF BufferLive, BufferFits
  <2>7. ASSUME given_up = {} PROVE OneCommand'
    <3>1. PICK c \in Callers : caller[c].pc = "wait" BY <1>1, <2>7 DEF OneCommand
    <3>2. \A d \in Callers : d # c => caller[d].pc = "out" BY <3>1 DEF BufferLive, Typed, Caller
    <3>3. line.cmd = caller[c].cmd /\ (line.terminal => queue = <<>>) /\ ~resp.complete
      BY <1>1, <2>7, <3>1 DEF OneCommand
    <3>4. All(resp'.lines, caller[c].cmd)
      BY <2>4, <2>7, <3>1, <3>3 DEF OneCommand, All, Typed, Resp
    <3>5. QED BY <1>1, <2>4, <2>7, <3>1, <3>2, <3>3, <3>4 DEF OneCommand, All
  <2>8. QED BY <1>1, <2>5, <2>6, <2>7 DEF Typed, Numbered
<1>4. QED BY <1>2, <1>3

(* The line is lost, or nothing happens to the command. *)
LEMMA LostInv ==
  ASSUME CInv, line' \in {line, NULL}, UNCHANGED <<resp, caller, queue, asked, given_up>>
  PROVE  CInv'
BY DEF CInv, Typed, Numbered, BufferLive, BufferFits, OneCommand, Inside, All, LogLine

(* Every step of the SDK. *)
LEMMA CommandNextInv == ASSUME CInv, [Next]_vars PROVE CInv'
<1>1. CASE Command BY <1>1, BeginInv, CallerInv DEF Command, Ask
<1>2. CASE Calling BY <1>2, LostInv DEF Calling, commandVars
<1>3. CASE Registering BY <1>3, LostInv DEF Registering, commandVars
<1>4. CASE Active BY <1>4, LostInv DEF Active, commandVars
<1>5. CASE Close BY <1>5, LostInv DEF Close, commandVars
<1>6. CASE Destroy BY <1>6, LostInv DEF Destroy, commandVars
<1>7. CASE Drive BY <1>7, LineInv, ResultInv, FlushInv, LostInv DEF Drive, commandVars
<1>8. CASE Enter BY <1>8, LostInv DEF Enter
<1>9. CASE Deliver BY <1>9, CaptureInv, LostInv DEF Deliver, commandVars
<1>10. CASE UNCHANGED vars BY <1>10, LostInv DEF vars, commandVars
<1>11. QED BY <1>1, <1>2, <1>3, <1>4, <1>5, <1>6, <1>7, <1>8, <1>9, <1>10 DEF Next

(* Whatever callers, monitor and clock do, answers are written only to the *)
(* buffer of the one caller that is inside simbox_at_command, and never    *)
(* reach behind its end.                                                   *)
THEOREM BufferCorrect == Spec => []BufferSafe
<1>1. CInv => BufferSafe BY DEF CInv, BufferSafe
<1>2. QED BY <1>1, CommandInitInv, CommandNextInv, PTL DEF Spec

(* Until a caller has given up, everybody gets the answer to his own       *)
(* command: one caller at a time is all the correlation that is needed.    *)
THEOREM AnswerCorrect == Spec => []OwnAnswer
<1>1. ASSUME CInv PROVE OwnAnswer
  <2>1. SUFFICES ASSUME given_up = {}, NEW c \in Callers, caller[c].answer # <<>>
                 PROVE  /\ Range(caller[c].answer) = {caller[c].cmd}
                        /\ caller[c].cmd \notin Range(queue)
    BY DEF OwnAnswer
  <2>2. OneCommand /\ Numbered /\ Typed BY <1>1, <2>1 DEF CInv
  <2>3. caller[c].answer \in Seq(Nat) /\ All(caller[c].answer, caller[c].cmd)
    BY <2>2 DEF OneCommand, Typed, Caller
  <2>4. 1 \in DOMAIN caller[c].answer BY <2>1, <2>3
  <2>5. Range(caller[c].answer) = {caller[c].cmd} BY <2>3, <2>4 DEF Range, All
  <2>6. ~Inside(c) /\ caller[c].cmd # 0 BY <2>1, <2>2 DEF Numbered
  <2>7. CASE \E d \in Callers : caller[d].pc = "wait"
    <3>1. PICK d \in Callers : caller[d].pc = "wait" BY <2>7
    <3>2. d # c BY <2>6, <3>1 DEF Inside
    <3>3. caller[d].cmd # caller[c].cmd BY <2>2, <2>6, <3>2 DEF Numbered
    <3>4. queue \in {<<>>, <<caller[d].cmd>>} BY <2>2, <3>1 DEF OneCommand
    <3>5. QED BY <2>5, <3>3, <3>4 DEF Range
  <2>8. CASE \A d \in Callers : caller[d].pc # "wait"
    BY <2>2, <2>5, <2>8 DEF OneCommand, Range
  <2>9. QED BY <2>7, <2>8
<1>2. QED BY <1>1, CommandInitInv, CommandNextInv, PTL DEF Spec

(***************************************************************************)
(* The pointer to a call                                                   *)
(***************************************************************************)

(* While there is an instance: a dangling pointer is about to be cleared;  *)
(* a call that rings is alive when it is attached; before simbox_init is   *)
(* done, nobody has set the pointer.                                       *)
DInv ==
  /\ calls \in [Ids -> States \cup {"free"}]
  /\ dev = [cpvt |-> dev.cpvt, owned |-> dev.owned, state |-> dev.state]
  /\ inst \in {"starting", "up"} => DanglesBriefly
  /\ inst # "gone" /\ monitor.state = "ring" => monitor.call \in Live
  /\ inst = "starting" => dev = NoCall /\ ~bridge /\ \A u \in Users : user[u].pc = "out"

LEMMA DangleInitInv == ASSUME Init PROVE DInv
BY IdsAssumption DEF Init, CallsInit, DInv, DanglesBriefly, Free, NoCall, Quiet, Away, States

(* A thread of the SDK: the pointer it sets is to a call it has just made. *)
LEMMA CallingDangle == ASSUME DInv, Calling PROVE DInv'
<1>1. PICK u \in Users : Call(u) \/ Alloc(u) \/ AllocFails(u) \/ Use(u) BY DEF Calling
<1>2. UNCHANGED <<inst, bridge>> BY DEF Calling
<1> USE DEF DInv, DanglesBriefly, Free, Live
<1>3. CASE Call(u)
  <2>1. inst = "up" /\ UNCHANGED <<calls, dev, monitor, misused>>
    BY <1>3 DEF Call, Originate, AnswerOrHangup
  <2>2. QED BY <1>2, <2>1
<1>4. CASE Alloc(u)
  <2>1. PICK i \in Free : /\ NewCall(i, "init")
                          /\ dev' = [dev EXCEPT !.cpvt = i, !.owned = TRUE]
    BY <1>4 DEF Alloc
  <2>2. calls' = [calls EXCEPT ![i] = "init"] BY <2>1 DEF NewCall
  <2>3. user[u].pc = "alloc" /\ UNCHANGED <<monitor, misused>> BY <1>4 DEF Alloc
  <2>4. inst # "starting" BY <2>3
  <2>5. calls' \in [Ids -> States \cup {"free"}] BY <2>2 DEF States
  <2>6. calls'[i] = "init" /\ i \in Ids BY <2>2
  <2>7. dev' = [cpvt |-> i, owned |-> TRUE, state |-> dev.state] BY <2>1
  <2>8. QED BY <1>2, <2>2, <2>3, <2>4, <2>5, <2>7
<1>5. CASE AllocFails(u)
  <2>1. user[u].pc = "alloc" /\ UNCHANGED <<calls, monitor, misused>> BY <1>5 DEF AllocFails
  <2>2. dev' = [dev EXCEPT !.cpvt = 0, !.owned = FALSE] BY <1>5 DEF AllocFails
  <2>3. inst # "starting" BY <2>1
  <2>4. dev' = [cpvt |-> 0, owned |-> FALSE, state |-> dev.state] BY <2>2
  <2>5. QED BY <1>2, <2>1, <2>3, <2>4, IdsAssumption
<1>6. CASE Use(u)
  <2>1. misused = {} /\ user[u].pc # "out" /\ UNCHANGED <<calls, dev, monitor>> BY <1>6 DEF Use
  <2>2. QED BY <1>2, <2>1
<1>7. QED BY <1>1, <1>3, <1>4, <1>5, <1>6

(* The driver: a call it frees is reported next. *)
LEMMA DriveDangle == ASSUME DInv, Drive PROVE DInv'
<1> USE DEF DInv, DanglesBriefly, Free, Live
<1>1. UNCHANGED <<inst, bridge>> /\ monitor = Quiet BY DEF Drive, Reports
<1>2. CASE UNCHANGED callVars BY <1>1, <1>2 DEF callVars
<1>3. CASE Incoming
  <2>1. PICK i \in Free : NewCall(i, "incoming") /\ Report("ring", i) BY <1>3 DEF Incoming
  <2>2. /\ calls' = [calls EXCEPT ![i] = "incoming"] /\ monitor' = [state |-> "ring", call |-> i]
        /\ misused = {} /\ UNCHANGED <<dev, user, misused>>
    BY <1>3, <2>1 DEF Incoming, NewCall, Report, Counted
  <2>3. QED BY <1>1, <2>2 DEF States, Quiet
<1>4. ASSUME NEW i \in Ids, Change(i) PROVE DInv'
  <2>1. PICK s \in Moves[calls[i]] : calls' = [calls EXCEPT ![i] = s] /\ Report(s, i)
    BY <1>4 DEF Change
  <2>2. calls[i] \in States /\ UNCHANGED <<dev, user, misused>> BY <1>4 DEF Change
  <2>3. s \in States \ {"init", "incoming"} BY <2>1, <2>2 DEF Moves, States
  <2>4. monitor' = [state |-> s, call |-> i] BY <2>1 DEF Report
  <2>5. QED BY <1>1, <2>1, <2>2, <2>3, <2>4 DEF States, Quiet
<1>5. ASSUME NEW i \in Ids, Release(i) PROVE DInv'
  <2>1. /\ calls' = [calls EXCEPT ![i] = "free"] /\ monitor' = [state |-> "released", call |-> i]
        /\ UNCHANGED <<dev, user, misused>>
    BY <1>5 DEF Release, Report
  <2>2. QED BY <1>1, <2>1
<1>6. QED BY <1>2, <1>3, <1>4, <1>5 DEF Drive

(* The bridge: a release that is reported clears the pointer, a call that  *)
(* rings is alive when it is attached. *)
LEMMA BridgeDangle == ASSUME DInv, Enter \/ Deliver PROVE DInv'
<1> USE DEF DInv, DanglesBriefly, Free, Live
<1>1. CASE Enter
  <2>1. UNCHANGED <<calls, dev, user, misused, inst>> BY <1>1 DEF Enter
  <2>2. CASE inst = "up" BY <1>1, <2>1, <2>2 DEF Enter
  <2>3. CASE inst # "up"
    <3>1. monitor' = Quiet /\ UNCHANGED bridge BY <1>1, <2>3 DEF Enter
    <3>2. dev.cpvt \in DOMAIN calls => dev.cpvt # 0 BY IdsAssumption
    <3>3. QED BY <2>1, <2>3, <3>1, <3>2 DEF NoCall, Quiet
  <2>4. QED BY <2>2, <2>3
<1>2. CASE Deliver
  <2>1. bridge /\ inst # "starting" /\ UNCHANGED <<inst, calls>>
    BY <1>2 DEF Deliver, callVars, Attach, Fire
  <2>2. CASE inst = "gone"
    <3>1. UNCHANGED dev BY <1>2, <2>2 DEF Deliver
    <3>2. QED BY <2>1, <2>2, <3>1
  <2>3. CASE inst # "gone" /\ UNCHANGED callVars BY <2>1, <2>3 DEF callVars
  <2>4. CASE Attach
    <3>1. /\ monitor.state = "ring" /\ monitor' = Quiet /\ UNCHANGED misused
          /\ dev' = [cpvt |-> monitor.call, owned |-> FALSE, state |-> dev.state]
      BY <2>4 DEF Attach
    <3>2. QED BY <2>1, <3>1 DEF Quiet
  <2>5. CASE Fire
    <3>1. monitor' = Quiet /\ UNCHANGED misused /\ dev' = Applied(SdkState[monitor.state])
      BY <2>5 DEF Fire
    <3>2. CASE monitor.state = "released"
      <4>1. dev' = [cpvt |-> 0, owned |-> FALSE, state |-> "IDLE"]
        BY <3>1, <3>2 DEF Applied, SdkState
      <4>2. QED BY <2>1, <3>1, <4>1, IdsAssumption DEF Quiet
    <3>3. CASE monitor.state # "released"
      <4>1. \/ dev' = [cpvt |-> 0, owned |-> FALSE, state |-> "IDLE"]
            \/ dev' = [cpvt |-> dev.cpvt, owned |-> dev.owned, state |-> SdkState[monitor.state]]
        BY <3>1 DEF Applied
      <4>2. QED BY <2>1, <3>1, <3>3, <4>1, IdsAssumption DEF Quiet
    <3>4. QED BY <3>2, <3>3
  <2>6. QED BY <1>2, <2>2, <2>3, <2>4, <2>5 DEF Deliver
<1>3. QED BY <1>1, <1>2

LEMMA DangleNextInv == ASSUME DInv, [Next]_vars PROVE DInv'
<1> USE DEF DInv, DanglesBriefly, Free, Live
<1>1. CASE Command \/ Registering \/ UNCHANGED vars
  BY <1>1 DEF Command, Registering, vars, callVars
<1>2. CASE Active BY <1>2, IdsAssumption DEF Active, callVars
<1>3. CASE Close BY <1>3 DEF Close, callVars
<1>4. CASE Destroy
  <2>1. inst' = "gone" /\ dev' = NoCall BY <1>4 DEF Destroy
  <2>2. calls' = calls \/ (dev.cpvt \in Live /\ calls' = [calls EXCEPT ![dev.cpvt] = "free"])
    BY <1>4 DEF Destroy
  <2>3. QED BY <2>1, <2>2 DEF NoCall
<1>5. QED BY <1>1, <1>2, <1>3, <1>4, CallingDangle, DriveDangle, BridgeDangle DEF Next

(* While there is an instance the pointer to a call dangles only from the  *)
(* freeing of the call to its report.                                      *)
THEOREM DangleCorrect == Spec => []NoLastingDangle
<1>1. DInv => NoLastingDangle BY DEF DInv, NoLastingDangle
<1>2. QED BY <1>1, DangleInitInv, DangleNextInv, PTL DEF Spec

(***************************************************************************)
(* The registry                                                            *)
(***************************************************************************)

RInv ==
  /\ devices \in Seq(Serials) /\ told \in Seq(Serials)
  /\ registrar \in [Registrars -> [pc : {"out", "insert", "tell"}, sn : Serials]]
  /\ RegistryFits /\ ConnectedOnce

PlacesOf(s, sn) == {i \in DOMAIN s : s[i] = sn}

LEMMA EntriesAre ==
  \A sn : /\ Entries(sn) = PlacesOf(devices, sn) /\ Events(sn) = PlacesOf(told, sn)
          /\ Entries(sn)' = PlacesOf(devices', sn) /\ Events(sn)' = PlacesOf(told', sn)
BY DEF Entries, Events, PlacesOf

(* What an event or an entry behind the others does to the places of a     *)
(* serial number.                                                          *)
LEMMA Places ==
  ASSUME NEW s \in Seq(Serials), NEW x \in Serials, NEW sn \in Serials
  PROVE  /\ IsFiniteSet(PlacesOf(s, sn))
         /\ x # sn => PlacesOf(Append(s, x), sn) = PlacesOf(s, sn)
         /\ x = sn => Cardinality(PlacesOf(Append(s, x), sn)) = Cardinality(PlacesOf(s, sn)) + 1
<1> USE DEF PlacesOf
<1>1. IsFiniteSet(1..Len(s)) BY FS_Interval
<1>2. PlacesOf(s, sn) \subseteq 1..Len(s) OBVIOUS
<1>3. IsFiniteSet(PlacesOf(s, sn)) BY <1>1, <1>2, FS_Subset
<1>4. /\ DOMAIN Append(s, x) = 1..(Len(s) + 1)
      /\ \A i \in 1..Len(s) : Append(s, x)[i] = s[i]
      /\ Append(s, x)[Len(s) + 1] = x
  OBVIOUS
<1>5. x # sn => PlacesOf(Append(s, x), sn) = PlacesOf(s, sn) BY <1>4
<1>6. ASSUME x = sn
      PROVE  Cardinality(PlacesOf(Append(s, x), sn)) = Cardinality(PlacesOf(s, sn)) + 1
  <2>1. PlacesOf(Append(s, x), sn) = PlacesOf(s, sn) \cup {Len(s) + 1} BY <1>4, <1>6
  <2>2. Len(s) + 1 \notin PlacesOf(s, sn) BY <1>2
  <2>3. QED BY <1>3, <2>1, <2>2, FS_AddElement
<1>7. QED BY <1>3, <1>5, <1>6

LEMMA RegistryInitInv == ASSUME Init PROVE RInv
<1>1. /\ devices = <<Real>> /\ told = <<>>
      /\ registrar = [r \in Registrars |-> [pc |-> "out", sn |-> Real]]
  BY DEF Init
<1>2. ASSUME NEW sn \in Serials \ {Real}
      PROVE  Entries(sn) = {} /\ Events(sn) = {} /\ Telling(sn) = {}
  BY <1>1, <1>2 DEF Entries, Events, Telling
<1>3. ConnectedOnce BY <1>2, FS_EmptySet DEF ConnectedOnce
<1>4. RegistryFits BY <1>1, DevicesAssumption DEF RegistryFits
<1>5. QED BY <1>1, <1>3, <1>4, SerialsAssumption DEF RInv

(* A thread that registers a device. *)
LEMMA RegisterInv ==
  ASSUME RInv, NEW r \in Registrars, Register(r), UNCHANGED inst PROVE RInv'
<1> DEFINE me == registrar[r]
<1>0. \A p \in {"out", "tell"} :
        [registrar EXCEPT ![r].pc = p] = [registrar EXCEPT ![r] = [pc |-> p, sn |-> me.sn]]
  <2>1. me \in [pc : {"out", "insert", "tell"}, sn : Serials] BY DEF RInv
  <2>2. \A p : [me EXCEPT !.pc = p] = [pc |-> p, sn |-> me.sn] BY <2>1
  <2>3. \A p : [registrar EXCEPT ![r].pc = p] = [registrar EXCEPT ![r] = [me EXCEPT !.pc = p]]
    OBVIOUS
  <2>4. QED BY <2>2, <2>3
<1>1. me.sn \in Serials /\ devices \in Seq(Serials) /\ told \in Seq(Serials) BY DEF RInv
<1>2. CASE RegCheck(r)
  <2>1. /\ me.pc = "out" /\ UNCHANGED <<devices, told>>
        /\ \/ UNCHANGED registrar
           \/ \E sn \in Serials : registrar' = [registrar EXCEPT ![r] = [pc |-> "insert", sn |-> sn]]
    BY <1>2 DEF RegCheck
  <2>2. registrar' \in [Registrars -> [pc : {"out", "insert", "tell"}, sn : Serials]]
    BY <2>1 DEF RInv
  <2>3. \A q \in Registrars : \/ registrar'[q] = registrar[q]
                              \/ registrar'[q].pc # "tell" /\ registrar[q].pc # "tell"
    <3>1. CASE UNCHANGED registrar BY <3>1
    <3>2. ASSUME NEW sn \in Serials, registrar' = [registrar EXCEPT ![r] = [pc |-> "insert", sn |-> sn]],
                 NEW q \in Registrars
          PROVE  \/ registrar'[q] = registrar[q]
                 \/ registrar'[q].pc # "tell" /\ registrar[q].pc # "tell"
      <4>1. CASE q = r BY <2>1, <3>2, <4>1 DEF RInv
      <4>2. CASE q # r BY <3>2, <4>2 DEF RInv
      <4>3. QED BY <4>1, <4>2
    <3>3. QED BY <2>1, <3>1, <3>2
  <2>4. \A sn \in Serials : Telling(sn)' = Telling(sn) BY <2>3 DEF Telling
  <2>5. \A sn \in Serials : Entries(sn)' = Entries(sn) /\ Events(sn)' = Events(sn)
    BY <2>1 DEF Entries, Events
  <2>6. QED BY <2>1, <2>2, <2>4, <2>5 DEF RInv, RegistryFits, ConnectedOnce
<1>3. CASE RegInsert(r)
  <2>1. /\ me.pc = "insert" /\ Len(devices) < MaxDevices /\ UNCHANGED told
        /\ devices' = Append(devices, me.sn)
        /\ registrar' = [registrar EXCEPT ![r] = [pc |-> "tell", sn |-> me.sn]]
    BY <1>3, <1>0 DEF RegInsert
  <2>2. /\ registrar' \in [Registrars -> [pc : {"out", "insert", "tell"}, sn : Serials]]
        /\ devices' \in Seq(Serials) /\ Len(devices') <= MaxDevices
    BY <1>1, <2>1, DevicesAssumption DEF RInv
  <2>3. ASSUME NEW sn \in Serials \ {Real}, inst # "gone"
        PROVE  Cardinality(Entries(sn)') = Cardinality(Events(sn)') + Cardinality(Telling(sn)')
    <3>1. Events(sn)' = Events(sn) BY <2>1 DEF Events
    <3>2. Cardinality(Entries(sn)) = Cardinality(Events(sn)) + Cardinality(Telling(sn))
      BY <2>3 DEF RInv, ConnectedOnce
    <3>3. CASE sn # me.sn
      <4>1. Entries(sn)' = Entries(sn) BY <1>1, <2>1, <3>3, Places, EntriesAre
      <4>2. Telling(sn)' = Telling(sn) BY <2>1, <3>3 DEF Telling, RInv
      <4>3. QED BY <3>1, <3>2, <4>1, <4>2
    <3>4. CASE sn = me.sn
      <4>1. Cardinality(Entries(sn)') = Cardinality(Entries(sn)) + 1
        BY <1>1, <2>1, <3>4, Places, EntriesAre
      <4>2. Telling(sn)' = Telling(sn) \cup {r} BY <2>1, <3>4 DEF Telling, RInv
      <4>3. r \notin Telling(sn) BY <2>1 DEF Telling
      <4>4. IsFiniteSet(Telling(sn)) BY RegistrarsAssumption, FS_Subset DEF Telling
      <4>5. Cardinality(Telling(sn)') = Cardinality(Telling(sn)) + 1
        BY <4>2, <4>3, <4>4, FS_AddElement
      <4>6. IsFiniteSet(Events(sn)) BY <1>1, Places, EntriesAre
      <4>7. Cardinality(Events(sn)) \in Nat /\ Cardinality(Telling(sn)) \in Nat
        BY <4>4, <4>6, FS_CardinalityType
      <4>8. QED BY <3>1, <3>2, <4>1, <4>5, <4>7
    <3>5. QED BY <3>3, <3>4
  <2>4. QED BY <2>1, <2>2, <2>3 DEF RInv, RegistryFits, ConnectedOnce
<1>4. CASE RegFails(r)
  <2>1. me.pc = "insert" /\ UNCHANGED <<devices, told>> /\ registrar' = [registrar EXCEPT ![r].pc = "out"]
    BY <1>4 DEF RegFails
  <2>2. registrar' \in [Registrars -> [pc : {"out", "insert", "tell"}, sn : Serials]]
    BY <2>1 DEF RInv
  <2>3. \A sn \in Serials : Telling(sn)' = Telling(sn) BY <2>1, <2>2 DEF Telling, RInv
  <2>4. \A sn \in Serials : Entries(sn)' = Entries(sn) /\ Events(sn)' = Events(sn)
    BY <2>1 DEF Entries, Events
  <2>5. QED BY <2>1, <2>2, <2>3, <2>4 DEF RInv, RegistryFits, ConnectedOnce
<1>5. CASE RegTell(r)
  <2>1. /\ me.pc = "tell" /\ UNCHANGED devices
        /\ told' = Append(told, me.sn)
        /\ registrar' = [registrar EXCEPT ![r] = [pc |-> "out", sn |-> me.sn]]
    BY <1>5, <1>0 DEF RegTell
  <2>2. /\ registrar' \in [Registrars -> [pc : {"out", "insert", "tell"}, sn : Serials]]
        /\ told' \in Seq(Serials)
    BY <1>1, <2>1 DEF RInv
  <2>3. ASSUME NEW sn \in Serials \ {Real}, inst # "gone"
        PROVE  Cardinality(Entries(sn)') = Cardinality(Events(sn)') + Cardinality(Telling(sn)')
    <3>1. Entries(sn)' = Entries(sn) BY <2>1 DEF Entries
    <3>2. Cardinality(Entries(sn)) = Cardinality(Events(sn)) + Cardinality(Telling(sn))
      BY <2>3 DEF RInv, ConnectedOnce
    <3>3. CASE sn # me.sn
      <4>1. Events(sn)' = Events(sn) BY <1>1, <2>1, <3>3, Places, EntriesAre
      <4>2. Telling(sn)' = Telling(sn) BY <2>1, <3>3 DEF Telling, RInv
      <4>3. QED BY <3>1, <3>2, <4>1, <4>2
    <3>4. CASE sn = me.sn
      <4>1. Cardinality(Events(sn)') = Cardinality(Events(sn)) + 1
        BY <1>1, <2>1, <3>4, Places, EntriesAre
      <4>2. Telling(sn)' = Telling(sn) \ {r} BY <2>1, <3>4 DEF Telling, RInv
      <4>3. r \in Telling(sn) BY <2>1, <3>4 DEF Telling
      <4>4. IsFiniteSet(Telling(sn)) BY RegistrarsAssumption, FS_Subset DEF Telling
      <4>5. Cardinality(Telling(sn)') = Cardinality(Telling(sn)) - 1
        BY <4>2, <4>3, <4>4, FS_RemoveElement
      <4>6. IsFiniteSet(Events(sn)) BY <1>1, Places, EntriesAre
      <4>7. Cardinality(Events(sn)) \in Nat /\ Cardinality(Telling(sn)) \in Nat
        BY <4>4, <4>6, FS_CardinalityType
      <4>8. QED BY <3>1, <3>2, <4>1, <4>5, <4>7
    <3>5. QED BY <3>3, <3>4
  <2>4. QED BY <2>1, <2>2, <2>3 DEF RInv, RegistryFits, ConnectedOnce
<1>6. QED BY <1>2, <1>3, <1>4, <1>5 DEF Register

LEMMA RegistryNextInv == ASSUME RInv, [Next]_vars PROVE RInv'
<1>1. CASE Registering BY <1>1, RegisterInv DEF Registering
<1>2. CASE Destroy
  <2>1. inst' = "gone" /\ devices' = <<>> /\ UNCHANGED <<told, registrar>> BY <1>2 DEF Destroy
  <2>2. QED BY <2>1, DevicesAssumption DEF RInv, RegistryFits, ConnectedOnce
<1>3. ASSUME UNCHANGED registryVars, inst = "gone" => inst' = "gone" PROVE RInv'
  BY <1>3 DEF RInv, RegistryFits, ConnectedOnce, Entries, Events, Telling, registryVars
<1>4. CASE Command \/ Calling \/ Drive \/ Enter \/ Deliver \/ UNCHANGED vars
  BY <1>3, <1>4 DEF Command, Calling, Drive, Enter, Deliver, vars
<1>5. CASE Active \/ Close BY <1>3, <1>5 DEF Active, Close
<1>6. QED BY <1>1, <1>2, <1>4, <1>5 DEF Next

(* However many threads register devices, the table never overflows.       *)
THEOREM RegistryCorrect == Spec => []RegistryFits
<1>1. RInv => RegistryFits BY DEF RInv
<1>2. QED BY <1>1, RegistryInitInv, RegistryNextInv, PTL DEF Spec

(* Every entry is reported connected once.                                 *)
THEOREM ConnectedCorrect == Spec => []ConnectedOnce
<1>1. RInv => ConnectedOnce BY DEF RInv
<1>2. QED BY <1>1, RegistryInitInv, RegistryNextInv, PTL DEF Spec

(* The threads that will enter a serial number they did not find.          *)
Adding(sn) == {r \in Registrars : registrar[r].pc = "insert" /\ registrar[r].sn = sn}

(* Every entry behind the first was decided on before the first was made:  *)
(* a thread has room for one entry or one decision.                        *)
Spared(sn) ==
  /\ IsFiniteSet(Entries(sn)) /\ IsFiniteSet(Adding(sn))
  /\ Cardinality(Entries(sn)) + Cardinality(Adding(sn)) <= Cardinality(Registrars)

EInv ==
  /\ RInv
  /\ \A sn \in Serials \ {Real} : Spared(sn)
  /\ Cardinality(Entries(Real)) <= 1 /\ Adding(Real) = {}
  /\ inst \in {"starting", "up"} => Real \in Range(devices)

(* Without an entry there is room for every thread. *)
LEMMA NoneSpared ==
  ASSUME NEW E, NEW A, E = {}, A \subseteq Registrars
  PROVE  /\ IsFiniteSet(E) /\ IsFiniteSet(A)
         /\ Cardinality(E) + Cardinality(A) <= Cardinality(Registrars)
<1>1. IsFiniteSet(E) /\ Cardinality(E) = 0 BY FS_EmptySet
<1>2. /\ IsFiniteSet(A) /\ Cardinality(A) \in Nat /\ Cardinality(Registrars) \in Nat
      /\ Cardinality(A) <= Cardinality(Registrars)
  BY RegistrarsAssumption, FS_Subset, FS_CardinalityType
<1>3. QED BY <1>1, <1>2

LEMMA SparedInit == ASSUME Init PROVE EInv
<1>1. devices = <<Real>> /\ registrar = [r \in Registrars |-> [pc |-> "out", sn |-> Real]]
  BY DEF Init
<1>2. \A sn : Adding(sn) = {} BY <1>1 DEF Adding
<1>3. \A sn \in Serials \ {Real} : Entries(sn) = {} BY <1>1 DEF Entries
<1>4. \A sn \in Serials \ {Real} : Spared(sn) BY <1>2, <1>3, NoneSpared DEF Spared
<1>5. Entries(Real) = {1} BY <1>1 DEF Entries
<1>6. Cardinality(Entries(Real)) = 1 BY <1>5, FS_Singleton
<1>7. Real \in Range(devices) BY <1>1 DEF Range
<1>8. QED BY <1>2, <1>4, <1>6, <1>7, RegistryInitInv DEF EInv

(* A thread that registers a device. *)
LEMMA SparedRegister ==
  ASSUME EInv, NEW r \in Registrars, Register(r), UNCHANGED inst PROVE EInv'
<1> DEFINE me == registrar[r]
<1>1. RInv /\ RInv' BY RegisterInv DEF EInv
<1>2. devices \in Seq(Serials) /\ me.sn \in Serials /\ me.pc \in {"out", "insert", "tell"}
  BY <1>1 DEF RInv
<1>3. CASE RegCheck(r)
  <2>1. inst = "up" /\ me.pc = "out" /\ UNCHANGED devices
    BY <1>3 DEF RegCheck
  <2>2. \A sn : Entries(sn)' = Entries(sn) BY <2>1 DEF Entries
  <2>3. CASE UNCHANGED registrar BY <1>1, <2>1, <2>2, <2>3 DEF EInv, Spared, Adding
  <2>4. CASE \E sn \in Serials : /\ sn \notin Range(devices)
                                 /\ registrar' = [registrar EXCEPT ![r] = [pc |-> "insert", sn |-> sn]]
    <3>1. PICK x \in Serials : /\ x \notin Range(devices)
                               /\ registrar' = [registrar EXCEPT ![r] = [pc |-> "insert", sn |-> x]]
      BY <2>4
    <3>2. x # Real BY <2>1, <3>1 DEF EInv
    <3>3. \A sn : sn # x => Adding(sn)' = Adding(sn) BY <1>1, <2>1, <3>1 DEF Adding, RInv
    <3>4. Entries(x) = {} BY <3>1 DEF Entries, Range
    <3>5. Spared(x)'
      <4>1. Adding(x)' \subseteq Registrars BY DEF Adding
      <4>2. QED BY <2>2, <3>4, <4>1, NoneSpared DEF Spared
    <3>6. QED BY <1>1, <2>1, <2>2, <3>2, <3>3, <3>5 DEF EInv, Spared
  <2>5. QED BY <1>3, <2>3, <2>4 DEF RegCheck
<1>4. CASE RegInsert(r)
  <2>0. PICK x \in Serials : x = me.sn BY <1>2
  <2>1. /\ me.pc = "insert" /\ devices' = Append(devices, x)
        /\ registrar' = [registrar EXCEPT ![r].pc = "tell"]
    BY <1>4, <2>0 DEF RegInsert
  <2>2. x # Real BY <2>0, <2>1 DEF EInv, Adding
  <2>3. \A sn \in Serials : sn # x => Adding(sn)' = Adding(sn) /\ Entries(sn)' = Entries(sn)
    <3>1. ASSUME NEW sn \in Serials, sn # x PROVE Adding(sn)' = Adding(sn)
      BY <1>1, <2>0, <2>1, <3>1 DEF Adding, RInv
    <3>2. ASSUME NEW sn \in Serials, sn # x PROVE Entries(sn)' = Entries(sn)
      BY <1>2, <2>1, <3>2, Places, EntriesAre
    <3>3. QED BY <3>1, <3>2
  <2>4. Spared(x)'
    <3>1. Spared(x) BY <1>2, <2>2 DEF EInv
    <3>2. /\ IsFiniteSet(Entries(x)')
          /\ Cardinality(Entries(x)') = Cardinality(Entries(x)) + 1
      <4>1. devices' \in Seq(Serials) BY <1>1 DEF RInv
      <4>2. QED BY <1>2, <2>1, <4>1, Places, EntriesAre
    <3>3. r \in Adding(x) BY <2>0, <2>1 DEF Adding
    <3>4. Adding(x)' = Adding(x) \ {r} BY <1>1, <2>0, <2>1 DEF Adding, RInv
    <3>5. /\ IsFiniteSet(Adding(x)')
          /\ Cardinality(Adding(x)') = Cardinality(Adding(x)) - 1
      BY <3>1, <3>3, <3>4, FS_RemoveElement DEF Spared
    <3>6. Cardinality(Entries(x)) \in Nat /\ Cardinality(Adding(x)) \in Nat
      BY <3>1, FS_CardinalityType DEF Spared
    <3>7. Cardinality(Registrars) \in Nat BY RegistrarsAssumption, FS_CardinalityType
    <3>8. QED BY <3>1, <3>2, <3>5, <3>6, <3>7 DEF Spared
  <2>5. inst \in {"starting", "up"} => Real \in Range(devices')
    BY <1>2, <2>1 DEF EInv, Range
  <2>6. ASSUME NEW sn \in Serials \ {Real} PROVE Spared(sn)'
    <3>1. CASE sn = x BY <2>4, <3>1
    <3>2. CASE sn # x BY <2>3, <3>2 DEF EInv, Spared
    <3>3. QED BY <3>1, <3>2
  <2>7. Adding(Real)' = {} /\ Entries(Real)' = Entries(Real)
    BY <2>2, <2>3, SerialsAssumption DEF EInv
  <2>8. QED BY <1>1, <2>5, <2>6, <2>7 DEF EInv
<1>5. CASE RegFails(r) \/ RegTell(r)
  <2>1. UNCHANGED devices /\ registrar' = [registrar EXCEPT ![r].pc = "out"]
    BY <1>5 DEF RegFails, RegTell
  <2>2. \A sn : Entries(sn)' = Entries(sn) BY <2>1 DEF Entries
  <2>3. \A sn : Adding(sn)' \subseteq Adding(sn) BY <1>1, <2>1 DEF Adding, RInv
  <2>4. ASSUME NEW sn \in Serials \ {Real} PROVE Spared(sn)'
    <3>1. Spared(sn) BY DEF EInv
    <3>2. /\ IsFiniteSet(Adding(sn)') /\ Cardinality(Adding(sn)') \in Nat
          /\ Cardinality(Adding(sn)') <= Cardinality(Adding(sn))
          /\ Cardinality(Adding(sn)) \in Nat /\ Cardinality(Entries(sn)) \in Nat
      BY <2>3, <3>1, FS_Subset, FS_CardinalityType DEF Spared
    <3>3. Cardinality(Registrars) \in Nat BY RegistrarsAssumption, FS_CardinalityType
    <3>4. QED BY <2>2, <3>1, <3>2, <3>3 DEF Spared
  <2>5. QED BY <1>1, <2>1, <2>2, <2>3, <2>4 DEF EInv
<1>6. QED BY <1>3, <1>4, <1>5 DEF Register

LEMMA SparedNext == ASSUME EInv, [Next]_vars PROVE EInv'
<1>1. RInv' BY RegistryNextInv DEF EInv
<1>2. CASE Registering BY <1>2, SparedRegister DEF Registering
<1>3. CASE Destroy
  <2>1. inst' = "gone" /\ devices' = <<>> /\ UNCHANGED registrar BY <1>3 DEF Destroy
  <2>2. \A sn : Entries(sn)' = {} /\ Adding(sn)' = Adding(sn) /\ Adding(sn) \subseteq Registrars
    BY <2>1 DEF Entries, Adding
  <2>3. \A sn \in Serials : Spared(sn)' BY <2>2, NoneSpared DEF Spared
  <2>4. Cardinality(Entries(Real)') = 0 BY <2>2, FS_EmptySet
  <2>5. QED BY <1>1, <2>1, <2>2, <2>3, <2>4 DEF EInv
<1>4. ASSUME UNCHANGED registryVars, inst' \in {"starting", "up"} => inst \in {"starting", "up"}
      PROVE  EInv'
  BY <1>1, <1>4 DEF EInv, Spared, Entries, Adding, registryVars
<1>5. CASE Command \/ Calling \/ Drive \/ Enter \/ Deliver \/ UNCHANGED vars
  BY <1>4, <1>5 DEF Command, Calling, Drive, Enter, Deliver, vars
<1>6. CASE Active \/ Close BY <1>4, <1>6 DEF Active, Close
<1>7. QED BY <1>2, <1>3, <1>5, <1>6 DEF Next

(* A serial number is entered again only by threads that looked for it     *)
(* before its entry was made, so that there are never more entries than    *)
(* threads, and the real device never has two.                             *)
THEOREM DuplicatesRare == Spec => []DuplicateOnlyByRace
<1>1. ASSUME EInv PROVE DuplicateOnlyByRace
  <2>1. ASSUME NEW sn \in Serials \ {Real}
        PROVE  Cardinality(Entries(sn)) <= Cardinality(Registrars)
    <3>1. Spared(sn) BY <1>1 DEF EInv
    <3>2. Cardinality(Entries(sn)) \in Nat /\ Cardinality(Adding(sn)) \in Nat
      BY <3>1, FS_CardinalityType DEF Spared
    <3>3. Cardinality(Registrars) \in Nat BY RegistrarsAssumption, FS_CardinalityType
    <3>4. QED BY <3>1, <3>2, <3>3 DEF Spared
  <2>2. QED BY <1>1, <2>1 DEF EInv, DuplicateOnlyByRace
<1>2. QED BY <1>1, SparedInit, SparedNext, PTL DEF Spec
=============================================================================
