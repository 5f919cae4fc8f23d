-------------------------------- MODULE Fleet --------------------------------
(****************************************************************************)
(* The management plane: the console's HTTP server and its FleetStore       *)
(* (aegorx/management/server.py), the device agents (agent.py) and the      *)
(* administrator's commands.                                                *)
(*                                                                          *)
(* ThreadingHTTPServer runs one handler thread per request (Slots).  Each   *)
(* FleetStore method is one step, except pending_for, which selects and     *)
(* then updates while it holds the store's lock.  The administrator's       *)
(* commands run in processes of their own, with a store and a lock of their *)
(* own on the same database, so that one may come between the two           *)
(* statements.  A device waits for the answer of one call at a time; a call *)
(* it gave up may still be running.                                         *)
(****************************************************************************)
EXTENDS Naturals, Sequences, FiniteSets, Functions

CONSTANTS
  Devices, Names, Tokens,
  Ids,                \* agent ids, drawn fresh by enroll
  Cmds, Reports, Slots,
  None,
  MaxHandled,         \* envelopes a check-in executes (20 in the code)
  ReportBatch,        \* reports sent by a check-in (100)
  ReportCap,          \* reports kept for later check-ins (500)
  MaxLosses           \* bound: lost calls, restarts and crashes

ASSUME FleetAssumption ==
  /\ MaxHandled \in Nat \ {0} /\ ReportBatch \in Nat \ {0}
  /\ ReportCap \in Nat \ {0} /\ MaxLosses \in Nat
  /\ None \notin Devices \cup Names \cup Tokens \cup Ids \cup Cmds \cup Slots
  /\ None \notin [name : Names, used : BOOLEAN, expired : BOOLEAN]
  /\ None \notin [name : Names, token : Tokens, revoked : BOOLEAN]
  /\ Slots \cap {"idle", "submit"} = {}

VARIABLES
  agents,     \* table agents: the row of each id, or None
  pairing,    \* table pairing: the row of each token, or None
  queue,      \* table commands, in the order of created_utc
  addressee, status,   \* columns of the row of each command
  detections, \* table detections: how many rows each report has
  lock,       \* the store's lock while pending_for holds it
  stage, req, rows,    \* handler threads
  cred,       \* agent.json of each device: its id, or None
  call,       \* the call each device is waiting for: its slot, or a state
  todo,       \* envelopes received by the running check-in
  outbox,     \* self._pending_reports
  expired,    \* commands whose expires_utc has passed
  executed,   \* history: executions, in order
  submitted,  \* history: results given to _submit_result, with their sender
  slipped,    \* history: commands queued between select and update
  cutOff,     \* history: commands beyond the MaxHandled of their answer
  lost,       \* history: commands whose answer or result was lost
  losses

server  == <<agents, pairing, queue, addressee, status, detections>>
threads == <<lock, stage, req, rows>>
device  == <<cred, call, todo, outbox>>
drops   == <<slipped, cutOff, lost>>
ghosts  == <<expired, executed, submitted, drops, losses>>
vars    == <<server, threads, device, ghosts>>

NoRequest == [kind |-> "none", dev |-> None, id |-> None, token |-> None,
              batch |-> <<>>, cmd |-> None]

Init ==
  /\ agents = [i \in Ids |-> None]
  /\ pairing = [k \in Tokens |-> None]
  /\ queue = <<>>
  /\ addressee = [c \in Cmds |-> None]
  /\ status = [c \in Cmds |-> "none"]
  /\ detections = [r \in Reports |-> 0]
  /\ lock = None
  /\ stage = [s \in Slots |-> "free"]
  /\ req = [s \in Slots |-> NoRequest]
  /\ rows = [s \in Slots |-> <<>>]
  /\ cred = [d \in Devices |-> None]
  /\ call = [d \in Devices |-> "idle"]
  /\ todo = [d \in Devices |-> <<>>]
  /\ outbox = [d \in Devices |-> <<>>]
  /\ expired = {} /\ executed = <<>> /\ submitted = {} /\ losses = 0
  /\ slipped = {} /\ cutOff = {} /\ lost = {}

----------------------------------------------------------------------------
(* Helpers.                                                                 *)

\* Seeded fault: off by one.
BugTakeShort(q, n) == SubSeq(q, 1, IF Len(q) < n THEN Len(q) ELSE n - 1)

Take(q, n) == SubSeq(q, 1, IF Len(q) < n THEN Len(q) ELSE n)
Rest(q, n) == SubSeq(q, n + 1, Len(q))

\* The rows of q that are in S, in their order.
Select(q, S) ==
  LET among[n \in 0..Len(q)] ==      \* of the first n rows
        IF n = 0 THEN <<>>
        ELSE IF q[n] \in S THEN Append(among[n - 1], q[n]) ELSE among[n - 1]
  IN among[Len(q)]

\* Seeded fault: what has no result yet is handed out again.
BugPendingUntilDone(i) ==
  Select(queue, {c \in Cmds : addressee[c] = i
                              /\ status[c] \in {"pending", "dispatched"}})

\* SELECT ... WHERE agent_id = i AND status = 'pending' ORDER BY created_utc
PendingOf(i) ==
  Select(queue, {c \in Cmds : addressee[c] = i /\ status[c] = "pending"})

\* Seeded fault: the column revoked is not tested.
BugRevokedPasses(i) == i # None /\ agents[i] # None

\* auth_agent: the row exists and is not revoked (bearer tokens are secret).
Authentic(i) ==
  i # None /\ agents[i] # None /\ ~agents[i].revoked

\* Whether a store method of the server may run now.
StoreFree == lock = None

Goto(s, label) == stage' = [stage EXCEPT ![s] = label]

\* A request of device d reaches a free handler thread.
Send(d, r) ==
  \E s \in Slots :
    /\ stage[s] = "free"
    /\ req' = [req EXCEPT ![s] = r]
    /\ Goto(s, r.kind)
    /\ call' = [call EXCEPT ![d] = s]
    /\ UNCHANGED <<lock, rows>>

\* The handler has answered: its thread ends.
Finish(s) ==
  /\ stage' = [stage EXCEPT ![s] = "free"]
  /\ req' = [req EXCEPT ![s] = NoRequest]
  /\ rows' = [rows EXCEPT ![s] = <<>>]

\* The device whose call handler s answers, unless it gave up.
Waiting(s) == {d \in Devices : call[d] = s}

----------------------------------------------------------------------------
(* The administrator.                                                       *)

IssueToken(k, n) ==
  /\ pairing[k] = None
  /\ pairing' = [pairing EXCEPT ![k] =
                   [name |-> n, used |-> FALSE, expired |-> FALSE]]
  /\ UNCHANGED <<agents, queue, addressee, status, detections, threads,
                 device, ghosts>>

\* Only consume_pairing looks whether a token has expired.
ExpireToken(k) ==
  /\ \E s \in Slots : stage[s] = "enroll" /\ req[s].token = k
  /\ pairing[k] # None /\ ~pairing[k].expired /\ ~pairing[k].used
  /\ pairing' = [pairing EXCEPT ![k].expired = TRUE]
  /\ UNCHANGED <<agents, queue, addressee, status, detections, threads,
                 device, ghosts>>

Revoke(n) ==
  /\ \E i \in Ids :
       /\ agents[i] # None /\ agents[i].name = n /\ ~agents[i].revoked
       /\ agents' = [agents EXCEPT ![i].revoked = TRUE]
  /\ UNCHANGED <<pairing, queue, addressee, status, detections, threads,
                 device, ghosts>>

\* `admin send` looks the device up by name, revoked or not.  What is queued
\* while a handler is about to mark the rows of the device slips into them.
QueueCommand(i, c) ==
  /\ agents[i] # None /\ status[c] = "none"
  /\ queue' = Append(queue, c)
  /\ addressee' = [addressee EXCEPT ![c] = i]
  /\ status' = [status EXCEPT ![c] = "pending"]
  /\ slipped' = IF \E s \in Slots : stage[s] = "mark" /\ req[s].id = i
                                     /\ rows[s] # <<>>
                THEN slipped \cup {c} ELSE slipped
  /\ UNCHANGED <<agents, pairing, detections, threads, device, expired,
                 executed, submitted, cutOff, lost, losses>>

\* Five minutes after it was signed, an envelope is stale.  Only Execute looks,
\* so it is enough to let the time pass once the command is dispatched.
ExpireCommand(c) ==
  /\ status[c] = "dispatched" /\ c \notin expired
  /\ expired' = expired \cup {c}
  /\ UNCHANGED <<server, threads, device, executed, submitted, drops, losses>>

----------------------------------------------------------------------------
(* Handler threads.                                                         *)

\* consume_pairing: single use, expiring.
ConsumePairing(s) ==
  LET k == req[s].token IN
  /\ stage[s] = "enroll" /\ StoreFree
  /\ \/ /\ pairing[k] # None /\ ~pairing[k].used /\ ~pairing[k].expired
        /\ pairing' = [pairing EXCEPT ![k].used = TRUE]
        /\ Goto(s, "register")
     \/ /\ pairing[k] = None \/ pairing[k].used \/ pairing[k].expired
        /\ Goto(s, "deny")
        /\ UNCHANGED pairing
  /\ UNCHANGED <<agents, queue, addressee, status, detections, lock, req,
                 rows, device, ghosts>>

\* Seeded fault: enroll takes a name that is in use.
BugNameTaken(s) ==
  LET k == req[s].token IN
  /\ stage[s] = "register" /\ StoreFree
  /\ \E i \in Ids :
       /\ agents[i] = None
       /\ agents' = [agents EXCEPT ![i] =
            [name |-> pairing[k].name, token |-> k, revoked |-> FALSE]]
       /\ req' = [req EXCEPT ![s].id = i]
  /\ Goto(s, "reply")
  /\ UNCHANGED <<pairing, queue, addressee, status, detections, lock, rows,
                 device, ghosts>>

\* Seeded fault: two columns of the INSERT are swapped.
BugColumnsSwapped(s) ==
  LET k == req[s].token IN
  /\ stage[s] = "register" /\ StoreFree
  /\ \E i \in Ids :
       /\ agents[i] = None
       /\ agents' = [agents EXCEPT ![i] =
            [name |-> k, token |-> pairing[k].name, revoked |-> FALSE]]
       /\ req' = [req EXCEPT ![s].id = i]
  /\ Goto(s, "reply")
  /\ UNCHANGED <<pairing, queue, addressee, status, detections, lock, rows,
                 device, ghosts>>

\* enroll: a name has one row for ever, revoked or not.
Register(s) ==
  LET k == req[s].token
      n == pairing[k].name IN
  /\ stage[s] = "register" /\ StoreFree
  /\ \/ /\ \A i \in Ids : agents[i] # None => agents[i].name # n
        /\ \E i \in Ids :
             /\ agents[i] = None
             /\ agents' = [agents EXCEPT ![i] =
                  [name |-> n, token |-> k, revoked |-> FALSE]]
             /\ req' = [req EXCEPT ![s].id = i]
        /\ Goto(s, "reply")
     \/ /\ \E i \in Ids : agents[i] # None /\ agents[i].name = n
        /\ Goto(s, "deny")
        /\ UNCHANGED <<agents, req>>
  /\ UNCHANGED <<pairing, queue, addressee, status, detections, lock, rows,
                 device, ghosts>>

\* _auth of /checkin and /result.
Authenticate(s) ==
  /\ stage[s] \in {"checkin", "result"} /\ StoreFree
  /\ Goto(s, IF ~Authentic(req[s].id) THEN "deny"
             ELSE IF stage[s] = "checkin" THEN "detect" ELSE "store")
  /\ UNCHANGED <<server, lock, req, rows, device, ghosts>>

AddDetections(s) ==
  /\ stage[s] = "detect" /\ StoreFree
  /\ detections' =
       [r \in Reports |->
          detections[r] + Cardinality({n \in DOMAIN req[s].batch :
                                         req[s].batch[n] = r})]
  /\ Goto(s, "select")
  /\ UNCHANGED <<agents, pairing, queue, addressee, status, lock, req, rows,
                 device, ghosts>>

\* pending_for, first statement; the lock is kept.
SelectPending(s) ==
  /\ stage[s] = "select" /\ StoreFree
  /\ rows' = [rows EXCEPT ![s] = PendingOf(req[s].id)]
  /\ lock' = s
  /\ Goto(s, "mark")
  /\ UNCHANGED <<server, req, device, ghosts>>

MarkDispatched(s) ==
  /\ stage[s] = "mark"
  /\ status' = [c \in Cmds |->
                  IF /\ rows[s] # <<>>
                     /\ addressee[c] = req[s].id /\ status[c] = "pending"
                  THEN "dispatched" ELSE status[c]]
  /\ lock' = None
  /\ Goto(s, "reply")
  /\ UNCHANGED <<agents, pairing, queue, addressee, detections, req, rows,
                 device, ghosts>>

\* Seeded fault: only a pending command is closed.
BugStoreIfPending(s) ==
  LET c == req[s].cmd IN
  /\ stage[s] = "store" /\ StoreFree
  /\ status' = [status EXCEPT ![c] =
                  IF status[c] = "pending" THEN "done" ELSE status[c]]
  /\ Goto(s, "reply")
  /\ UNCHANGED <<agents, pairing, queue, addressee, detections, lock, req,
                 rows, device, ghosts>>

StoreResult(s) ==
  LET c == req[s].cmd IN
  /\ stage[s] = "store" /\ StoreFree
  /\ status' = [status EXCEPT ![c] =
                  IF addressee[c] = req[s].id THEN "done" ELSE status[c]]
  /\ Goto(s, "reply")
  /\ UNCHANGED <<agents, pairing, queue, addressee, detections, lock, req,
                 rows, device, ghosts>>

----------------------------------------------------------------------------
(* Answers.                                                                 *)

\* `agent pair` saves the credentials.
AnswerEnroll(s) ==
  /\ stage[s] = "reply" /\ req[s].kind = "enroll"
  /\ cred' = [d \in Devices |-> IF d \in Waiting(s) THEN req[s].id ELSE cred[d]]
  /\ call' = [d \in Devices |-> IF d \in Waiting(s) THEN "idle" ELSE call[d]]
  /\ Finish(s)
  /\ UNCHANGED <<server, lock, todo, outbox, ghosts>>

\* check_in_once keeps the first MaxHandled envelopes; nobody else sees them.
AnswerCheckin(s) ==
  /\ stage[s] = "reply" /\ req[s].kind = "checkin"
  /\ todo' = [d \in Devices |->
                IF d \in Waiting(s) THEN Take(rows[s], MaxHandled) ELSE todo[d]]
  /\ call' = [d \in Devices |-> IF d \in Waiting(s) THEN "idle" ELSE call[d]]
  /\ Finish(s)
  /\ IF Waiting(s) = {}
     THEN lost' = lost \cup Range(rows[s]) /\ UNCHANGED cutOff
     ELSE /\ cutOff' = cutOff \cup Range(Rest(rows[s], MaxHandled))
          /\ UNCHANGED lost
  /\ UNCHANGED <<server, lock, cred, outbox, expired, executed, submitted,
                 slipped, losses>>

AnswerResult(s) ==
  /\ stage[s] = "reply" /\ req[s].kind = "result"
  /\ call' = [d \in Devices |-> IF d \in Waiting(s) THEN "idle" ELSE call[d]]
  /\ Finish(s)
  /\ UNCHANGED <<server, lock, cred, todo, outbox, ghosts>>

\* 403 or 409: pair() and _checkin raise, a refused result is ignored.
AnswerDenied(s) ==
  /\ stage[s] = "deny"
  /\ call' = [d \in Devices |-> IF d \in Waiting(s) THEN "idle" ELSE call[d]]
  /\ Finish(s)
  /\ UNCHANGED <<server, lock, cred, todo, outbox, ghosts>>

----------------------------------------------------------------------------
(* Devices.                                                                 *)

Idle(d) == call[d] = "idle" /\ todo[d] = <<>>

Pair(d, k) ==
  /\ Idle(d) /\ cred[d] = None /\ pairing[k] # None
  /\ Send(d, [NoRequest EXCEPT !.kind = "enroll", !.dev = d, !.token = k])
  /\ UNCHANGED <<server, cred, todo, outbox, ghosts>>

\* Seeded fault: the batch stays in the outbox for the next check-in.
BugBatchStays(d) ==
  /\ Idle(d) /\ cred[d] # None
  /\ Send(d, [NoRequest EXCEPT !.kind = "checkin", !.dev = d,
                               !.id = cred[d],
                               !.batch = Take(outbox[d], ReportBatch)])
  /\ UNCHANGED <<server, cred, todo, outbox, ghosts>>

\* The batch leaves the outbox before the request is sent.
CheckIn(d) ==
  /\ Idle(d) /\ cred[d] # None
  /\ outbox' = [outbox EXCEPT ![d] = Rest(@, ReportBatch)]
  /\ Send(d, [NoRequest EXCEPT !.kind = "checkin", !.dev = d,
                               !.id = cred[d],
                               !.batch = Take(outbox[d], ReportBatch)])
  /\ UNCHANGED <<server, cred, todo, ghosts>>

\* Execute the next envelope: verify_command refuses an expired one; a scan
\* may leave reports for a later check-in, up to the cap.
Execute(d) ==
  LET c == Head(todo[d]) IN
  /\ call[d] = "idle" /\ todo[d] # <<>>
  /\ \/ c \in expired /\ UNCHANGED <<executed, outbox>>
     \/ /\ c \notin expired
        /\ executed' = Append(executed, [dev |-> d, id |-> cred[d], cmd |-> c])
        /\ \/ UNCHANGED outbox
           \/ \E r \in Reports :
                /\ \A e \in Devices : \A n \in DOMAIN outbox[e] :
                     outbox[e][n] # r
                /\ detections[r] = 0
                /\ \A s \in Slots : \A n \in DOMAIN req[s].batch :
                     req[s].batch[n] # r
                /\ outbox' = IF Len(outbox[d]) < ReportCap
                             THEN [outbox EXCEPT ![d] = Append(@, r)]
                             ELSE outbox
  /\ call' = [call EXCEPT ![d] = "submit"]
  /\ UNCHANGED <<server, threads, cred, todo, expired, submitted, drops, losses>>

SubmitResult(d) ==
  LET c == Head(todo[d]) IN
  /\ call[d] = "submit"
  /\ Send(d, [NoRequest EXCEPT !.kind = "result", !.dev = d, !.id = cred[d],
                               !.cmd = c])
  /\ todo' = [todo EXCEPT ![d] = Tail(@)]
  /\ submitted' = submitted \cup {[id |-> cred[d], cmd |-> c]}
  /\ UNCHANGED <<server, cred, outbox, expired, executed, drops, losses>>

----------------------------------------------------------------------------
(* Failures.                                                                *)

Lose == losses < MaxLosses /\ losses' = losses + 1

\* The answer does not come in time; the handler runs on.
GiveUp(d) ==
  /\ call[d] \in Slots /\ Lose
  /\ call' = [call EXCEPT ![d] = "idle"]
  /\ UNCHANGED <<server, threads, cred, todo, outbox, expired, executed,
                 submitted, drops>>

\* A check-in, or a result, never reaches the server.
LoseCheckin(d) ==
  /\ Idle(d) /\ cred[d] # None /\ Lose
  /\ outbox' = [outbox EXCEPT ![d] = Rest(@, ReportBatch)]
  /\ UNCHANGED <<server, threads, cred, call, todo, expired, executed,
                 submitted, drops>>

LoseResult(d) ==
  /\ call[d] = "submit" /\ Lose
  /\ todo' = [todo EXCEPT ![d] = Tail(@)]
  /\ call' = [call EXCEPT ![d] = "idle"]
  /\ lost' = lost \cup {Head(todo[d])}
  /\ UNCHANGED <<server, threads, cred, outbox, expired, executed, submitted,
                 slipped, cutOff>>

\* The agent process is killed and started again.
RestartAgent(d) ==
  /\ Lose
  /\ call' = [call EXCEPT ![d] = "idle"]
  /\ todo' = [todo EXCEPT ![d] = <<>>]
  /\ outbox' = [outbox EXCEPT ![d] = <<>>]
  /\ lost' = lost \cup Range(todo[d])
  /\ UNCHANGED <<server, threads, cred, expired, executed, submitted, slipped,
                 cutOff>>

\* The commands whose answer, or whose result, a handler has in its hands.
InHand(s) ==
  CASE req[s].kind = "result" /\ stage[s] \in {"result", "store"} -> {req[s].cmd}
    [] stage[s] = "reply" -> Range(rows[s])
    [] OTHER -> {}

\* The console is killed and started again: the database is what is left.
RestartServer ==
  /\ Lose
  /\ lock' = None
  /\ stage' = [s \in Slots |-> "free"]
  /\ req' = [s \in Slots |-> NoRequest]
  /\ rows' = [s \in Slots |-> <<>>]
  /\ call' = [d \in Devices |-> IF call[d] \in Slots THEN "idle" ELSE call[d]]
  /\ lost' = lost \cup UNION {InHand(s) : s \in Slots}
  /\ UNCHANGED <<server, cred, todo, outbox, expired, executed, submitted,
                 slipped, cutOff>>

----------------------------------------------------------------------------
Admin ==
  \/ \E k \in Tokens, n \in Names : IssueToken(k, n)
  \/ \E k \in Tokens : ExpireToken(k)
  \/ \E n \in Names : Revoke(n)
  \/ \E i \in Ids, c \in Cmds : QueueCommand(i, c)
  \/ \E c \in Cmds : ExpireCommand(c)

Handle(s) ==
  \/ ConsumePairing(s) \/ Register(s) \/ Authenticate(s) \/ AddDetections(s)
  \/ SelectPending(s) \/ MarkDispatched(s) \/ StoreResult(s)
  \/ AnswerEnroll(s) \/ AnswerCheckin(s) \/ AnswerResult(s) \/ AnswerDenied(s)

Work(d) == Execute(d) \/ SubmitResult(d)

Fail ==
  \/ \E d \in Devices : GiveUp(d) \/ LoseCheckin(d) \/ LoseResult(d)
                        \/ RestartAgent(d)
  \/ RestartServer

Next ==
  \/ Admin \/ Fail
  \/ \E s \in Slots : Handle(s)
  \/ \E d \in Devices : Work(d) \/ CheckIn(d) \/ \E k \in Tokens : Pair(d, k)

\* Handler threads run to their end: the store's lock is held for two statements
\* at a time, and a thread that waits for it finds it free again and again.  An
\* agent works through its list: it needs a handler thread for each result, and
\* the server starts one for every request.
Spec ==
  /\ Init /\ [][Next]_vars
  /\ \A s \in Slots : SF_vars(Handle(s))
  /\ \A d \in Devices : SF_vars(Work(d))

----------------------------------------------------------------------------
(* Properties.                                                              *)

Stages == {"free", "enroll", "register", "checkin", "result", "detect",
           "select", "mark", "store", "reply", "deny"}
Request == [kind : {"none", "enroll", "checkin", "result"},
            dev : Devices \cup {None}, id : Ids \cup {None},
            token : Tokens \cup {None}, batch : Seq(Reports),
            cmd : Cmds \cup {None}]
AgentRow == [name : Names, token : Tokens, revoked : BOOLEAN]
TokenRow == [name : Names, used : BOOLEAN, expired : BOOLEAN]

TypeOK ==
  /\ agents \in [Ids -> AgentRow \cup {None}]
  /\ pairing \in [Tokens -> TokenRow \cup {None}]
  /\ queue \in Seq(Cmds)
  /\ addressee \in [Cmds -> Ids \cup {None}]
  /\ status \in [Cmds -> {"none", "pending", "dispatched", "done"}]
  /\ detections \in [Reports -> Nat]
  /\ lock \in Slots \cup {None}
  /\ stage \in [Slots -> Stages]
  /\ req \in [Slots -> Request]
  /\ rows \in [Slots -> Seq(Cmds)]
  /\ cred \in [Devices -> Ids \cup {None}]
  /\ call \in [Devices -> Slots \cup {"idle", "submit"}]
  /\ todo \in [Devices -> Seq(Cmds)]
  /\ outbox \in [Devices -> Seq(Reports)]
  /\ expired \in SUBSET Cmds
  /\ executed \in Seq([dev : Devices, id : Ids, cmd : Cmds])
  /\ submitted \in SUBSET [id : Ids, cmd : Cmds]
  /\ slipped \in SUBSET Cmds /\ cutOff \in SUBSET Cmds /\ lost \in SUBSET Cmds
  /\ losses \in 0..MaxLosses

\* No signed command is executed twice, although an envelope carries nothing
\* that would let an agent notice: check-ins that overlap on the server, calls
\* given up, restarts on both sides never hand a command out again.  A device
\* executes only what was queued for it, in the order it was queued.
ExecutedOnceInOrder ==
  \A m, n \in DOMAIN executed :
    /\ addressee[executed[m].cmd] = executed[m].id
    /\ m < n => executed[m].cmd # executed[n].cmd
    /\ m < n /\ executed[m].id = executed[n].id =>
         \E x, y \in DOMAIN queue :
           x < y /\ queue[x] = executed[m].cmd /\ queue[y] = executed[n].cmd

\* Enrollments that race for a token or a name leave one identity for each.
OneIdentity ==
  \A i, j \in Ids :
    i # j /\ agents[i] # None /\ agents[j] # None =>
      agents[i].token # agents[j].token /\ agents[i].name # agents[j].name

\* A detection reaches the fleet table at most once, whatever is retried.
ReportedOnce == \A r \in Reports : detections[r] <= 1

Served(i) == {s \in Slots : /\ req[s].id = i
                           /\ stage[s] \in {"detect", "select", "mark", "store"}}

\* README: revoke "immediately": once the handlers that were already past
\* authentication are through, nothing of a revoked agent changes again and no
\* handler serves it.
RevocationCutsOff ==
  [][\A i \in Ids :
       agents[i] # None /\ agents[i].revoked /\ Served(i) = {} =>
         /\ Served(i)' = {}
         /\ \A c \in Cmds : addressee[c] = i => status'[c] = status[c]]_vars

OnItsWay(c) ==
  \/ \E s \in Slots : stage[s] = "reply" /\ c \in Range(rows[s])
  \/ \E d \in Devices : c \in Range(todo[d])
  \/ \E x \in submitted : x.cmd = c

Dispatched(c) == status[c] = "dispatched"

\* pending_for answers what it marks.  A command that is no longer pending is in
\* an answer, in the agent's hands or handled; the only ones that are not were
\* queued by another process between the two statements of pending_for, stood
\* beyond the MaxHandled of an answer, or were in a call that was lost or in a
\* process that was killed.
DispatchedIsDelivered ==
  \A c \in Cmds : Dispatched(c) =>
    OnItsWay(c) \/ c \in slipped \/ c \in cutOff \/ c \in lost

\* docs/OPERATIONS.md: "Long queues drain <=20 per check-in": a command is not
\* given up because others are queued before it.
QueueDrains ==
  \A c \in Cmds : Dispatched(c) => OnItsWay(c) \/ c \in slipped \/ c \in lost

\* cli.py: "queued ...; result arrives on the device's next check-in": the
\* moment at which a command is queued does not matter.
QueuedIsDelivered ==
  \A c \in Cmds : Dispatched(c) => OnItsWay(c) \/ c \in cutOff \/ c \in lost

\* A dispatched command that reaches its agent gets its result, expired or not,
\* unless the agent is revoked or a call or process on the way is lost.
DispatchedIsAnswered ==
  \A c \in Cmds :
    Dispatched(c) ~>
      \/ status[c] = "done" \/ ~Authentic(addressee[c])
      \/ c \in slipped \/ c \in cutOff \/ c \in lost
=============================================================================
