----------------------------- MODULE FleetProofs -----------------------------
(****************************************************************************)
(* Theorems about Fleet, for any number of devices, names, tokens, commands,*)
(* reports, handler threads and losses.  The invariants are layered, each   *)
(* on the one before:                                                       *)
(*   EnrollInv  rows of agents, and the tokens handlers enroll with         *)
(*   CallInv    types; a thread's stage, its request, the call waited for   *)
(*   IdInv      an id belongs to one device, or to one answer on its way    *)
(*   TableInv   the queue is handed out oldest first; what threads selected *)
(*              and devices received is in that order and theirs            *)
(*   OrderInv   what comes after what: executed, received, answered, queued *)
(*   DrainInv   what pending_for marks it has selected, or it slipped in    *)
(*   ReportInv  a report has one place (on CallInv)                         *)
(****************************************************************************)
EXTENDS Fleet, TLAPS, SequenceTheorems, FiniteSetTheorems, WellFoundedInduction

\* The fields of the records that enrollment changes one by one.
IsRequest(r) == r = [kind |-> r.kind, dev |-> r.dev, id |-> r.id, token |-> r.token,
                     batch |-> r.batch, cmd |-> r.cmd]
IsAgentRow(a) == a = [name |-> a.name, token |-> a.token, revoked |-> a.revoked]

RecordsOK ==
  /\ DOMAIN agents = Ids /\ DOMAIN pairing = Tokens
  /\ DOMAIN stage = Slots /\ DOMAIN req = Slots
  /\ \A i \in Ids : agents[i] # None => IsAgentRow(agents[i])
  /\ \A k \in Tokens : pairing[k] # None => pairing[k] \in TokenRow
  /\ \A s \in Slots :
       /\ IsRequest(req[s])
       /\ stage[s] \in {"enroll", "register"} => req[s].token \in Tokens

Used(k) == k \in Tokens /\ pairing[k] # None /\ pairing[k].used = TRUE

\* The token of a row is used; so is the one a handler is about to enroll with,
\* which no row and no other handler has.
EnrollInv ==
  /\ RecordsOK
  /\ OneIdentity
  /\ \A i \in Ids : agents[i] # None => Used(agents[i].token)
  /\ \A s \in Slots : stage[s] = "register" =>
       /\ Used(req[s].token)
       /\ \A i \in Ids : agents[i] # None => agents[i].token # req[s].token
       /\ \A u \in Slots \ {s} : stage[u] = "register" => req[u].token # req[s].token

LEMMA NoRequestIsOne == IsRequest(NoRequest)
  BY DEF IsRequest, NoRequest

\* What the devices send.
LEMMA SentRequests ==
  ASSUME NEW d, NEW i, NEW k, NEW b, NEW c
  PROVE  /\ IsRequest([NoRequest EXCEPT !.kind = "enroll", !.dev = d, !.token = k])
         /\ IsRequest([NoRequest EXCEPT !.kind = "checkin", !.dev = d, !.id = i, !.batch = b])
         /\ IsRequest([NoRequest EXCEPT !.kind = "result", !.dev = d, !.id = i, !.cmd = c])
  <1> DEFINE R == [kind : {"none", "enroll", "checkin", "result"}, dev : {None, d},
                   id : {None, i}, token : {None, k}, batch : {<<>>, b}, cmd : {None, c}]
  <1>1. NoRequest \in R
    BY DEF NoRequest
  <1>2. /\ [NoRequest EXCEPT !.kind = "enroll", !.dev = d, !.token = k] \in R
        /\ [NoRequest EXCEPT !.kind = "checkin", !.dev = d, !.id = i, !.batch = b] \in R
        /\ [NoRequest EXCEPT !.kind = "result", !.dev = d, !.id = i, !.cmd = c] \in R
    BY <1>1
  <1>3. ASSUME NEW r \in R PROVE IsRequest(r)
    BY DEF IsRequest
  <1> HIDE DEF R
  <1> QED
    BY <1>2, <1>3

LEMMA ChangedRequest ==
  ASSUME NEW r, NEW i, IsRequest(r)
  PROVE  IsRequest([r EXCEPT !.id = i]) /\ [r EXCEPT !.id = i].token = r.token
  <1>1. [r EXCEPT !.id = i] = [kind |-> r.kind, dev |-> r.dev, id |-> i, token |-> r.token,
                               batch |-> r.batch, cmd |-> r.cmd]
    BY DEF IsRequest
  <1> QED
    BY <1>1 DEF IsRequest

LEMMA ChangedAgentRow ==
  ASSUME NEW a, NEW x, IsAgentRow(a)
  PROVE  /\ IsAgentRow([a EXCEPT !.revoked = x])
         /\ [a EXCEPT !.revoked = x].name = a.name
         /\ [a EXCEPT !.revoked = x].token = a.token
  <1>1. [a EXCEPT !.revoked = x] = [name |-> a.name, token |-> a.token, revoked |-> x]
    BY DEF IsAgentRow
  <1> QED
    BY <1>1 DEF IsAgentRow

LEMMA ChangedTokenRow ==
  ASSUME NEW p \in TokenRow
  PROVE  /\ [p EXCEPT !.used = TRUE] \in TokenRow /\ [p EXCEPT !.used = TRUE].used = TRUE
         /\ [p EXCEPT !.expired = TRUE] \in TokenRow
  BY DEF TokenRow

LEMMA EnrollInit == Init => EnrollInv
  BY NoRequestIsOne DEF Init, EnrollInv, RecordsOK, OneIdentity

-----------------------------------------------------------------------------
\* A handler thread moves, not to the registration of an agent.
Moves(s) ==
  /\ agents' = agents /\ pairing' = pairing
  /\ DOMAIN stage' = Slots /\ DOMAIN req' = Slots
  /\ \A u \in Slots \ {s} : stage'[u] = stage[u] /\ req'[u] = req[u]
  /\ IsRequest(req'[s]) /\ stage'[s] # "register"
  /\ stage'[s] = "enroll" => req'[s].token \in Tokens

LEMMA MovesKeeps ==
  ASSUME EnrollInv, NEW s \in Slots, Moves(s) PROVE EnrollInv'
  BY DEF EnrollInv, RecordsOK, OneIdentity, Used, Moves

\* Requests that are sent.
LEMMA SendMoves ==
  ASSUME EnrollInv, NEW d \in Devices, NEW r, IsRequest(r),
         r.kind \in {"enroll", "checkin", "result"}, r.kind = "enroll" => r.token \in Tokens,
         Send(d, r), agents' = agents, pairing' = pairing
  PROVE  EnrollInv'
  <1>1. PICK s \in Slots : req' = [req EXCEPT ![s] = r] /\ stage' = [stage EXCEPT ![s] = r.kind]
    BY DEF Send, Goto
  <1>2. Moves(s)
    BY <1>1 DEF Moves, EnrollInv, RecordsOK
  <1> QED
    BY <1>2, MovesKeeps

\* The two steps of an enrollment.
LEMMA ConsumeKeeps ==
  ASSUME EnrollInv, NEW s \in Slots, ConsumePairing(s) PROVE EnrollInv'
  <1> DEFINE k == req[s].token
  <1>1. k \in Tokens /\ req' = req /\ agents' = agents
    BY DEF ConsumePairing, EnrollInv, RecordsOK
  <1>2. CASE /\ pairing[k] # None /\ ~pairing[k].used
             /\ pairing' = [pairing EXCEPT ![k].used = TRUE]
             /\ Goto(s, "register")
    <2>1. /\ DOMAIN pairing' = Tokens /\ DOMAIN stage' = Slots
          /\ pairing'[k] = [pairing[k] EXCEPT !.used = TRUE]
          /\ \A j \in Tokens \ {k} : pairing'[j] = pairing[j]
          /\ stage'[s] = "register" /\ \A u \in Slots \ {s} : stage'[u] = stage[u]
      BY <1>1, <1>2 DEF Goto, EnrollInv, RecordsOK
    <2>2. pairing'[k] \in TokenRow /\ pairing'[k].used = TRUE
      BY <1>1, <1>2, <2>1, ChangedTokenRow DEF EnrollInv, RecordsOK
    <2>3. pairing'[k] # None
      BY <2>2, FleetAssumption DEF TokenRow
    <2> QED
      BY <1>1, <1>2, <2>1, <2>2, <2>3 DEF EnrollInv, RecordsOK, OneIdentity, Used
  <1>3. CASE pairing' = pairing /\ Goto(s, "deny")
    <2>1. Moves(s)
      BY <1>1, <1>3 DEF Moves, Goto, EnrollInv, RecordsOK
    <2> QED
      BY <2>1, MovesKeeps
  <1> QED
    BY <1>2, <1>3 DEF ConsumePairing

LEMMA RegisterKeeps ==
  ASSUME EnrollInv, NEW s \in Slots, Register(s) PROVE EnrollInv'
  <1> DEFINE k == req[s].token
             n == pairing[k].name
  <1>1. pairing' = pairing /\ stage[s] = "register"
    BY DEF Register
  <1>2. ASSUME NEW i \in Ids, \A j \in Ids : agents[j] # None => agents[j].name # n,
               agents[i] = None,
               agents' = [agents EXCEPT ![i] = [name |-> n, token |-> k, revoked |-> FALSE]],
               req' = [req EXCEPT ![s].id = i], Goto(s, "reply")
        PROVE  EnrollInv'
    <2>1. /\ DOMAIN agents' = Ids /\ agents'[i] = [name |-> n, token |-> k, revoked |-> FALSE]
          /\ \A j \in Ids \ {i} : agents'[j] = agents[j]
          /\ DOMAIN req' = Slots /\ req'[s] = [req[s] EXCEPT !.id = i]
          /\ \A u \in Slots \ {s} : req'[u] = req[u] /\ stage'[u] = stage[u]
          /\ DOMAIN stage' = Slots /\ stage'[s] = "reply"
      BY <1>2 DEF Goto, EnrollInv, RecordsOK
    <2>2. IsAgentRow(agents'[i]) /\ agents'[i].name = n /\ agents'[i].token = k
      BY <2>1 DEF IsAgentRow
    <2>3. IsRequest(req'[s])
      <3>1. IsRequest(req[s])
        BY DEF EnrollInv, RecordsOK
      <3> QED
        BY <2>1, <3>1, ChangedRequest
    <2>4. RecordsOK'
      BY <1>1, <2>1, <2>2, <2>3 DEF EnrollInv, RecordsOK
    <2>5. OneIdentity'
      BY <1>1, <1>2, <2>1, <2>2 DEF EnrollInv, OneIdentity
    <2> QED
      BY <1>1, <2>1, <2>2, <2>4, <2>5 DEF EnrollInv, Used
  <1>3. CASE UNCHANGED <<agents, req>> /\ Goto(s, "deny")
    <2>1. Moves(s)
      BY <1>1, <1>3 DEF Moves, Goto, EnrollInv, RecordsOK
    <2> QED
      BY <2>1, MovesKeeps
  <1> QED
    BY <1>2, <1>3 DEF Register

\* The rest of a handler thread.
LEMMA HandleKeeps ==
  ASSUME EnrollInv, NEW s \in Slots, Handle(s) PROVE EnrollInv'
  <1>1. CASE ConsumePairing(s)
    BY <1>1, ConsumeKeeps
  <1>2. CASE Register(s)
    BY <1>2, RegisterKeeps
  <1>3. CASE Authenticate(s) \/ AddDetections(s) \/ SelectPending(s) \/ MarkDispatched(s)
             \/ StoreResult(s)
    <2>1. Moves(s)
      BY <1>3 DEF Authenticate, AddDetections, SelectPending, MarkDispatched, StoreResult,
                  Goto, server, Moves, EnrollInv, RecordsOK
    <2> QED
      BY <2>1, MovesKeeps
  <1>4. CASE AnswerEnroll(s) \/ AnswerCheckin(s) \/ AnswerResult(s) \/ AnswerDenied(s)
    <2>1. Finish(s) /\ agents' = agents /\ pairing' = pairing
      BY <1>4 DEF AnswerEnroll, AnswerCheckin, AnswerResult, AnswerDenied, server
    <2>2. Moves(s)
      BY <2>1, NoRequestIsOne DEF Finish, Moves, EnrollInv, RecordsOK
    <2> QED
      BY <2>2, MovesKeeps
  <1> QED
    BY <1>1, <1>2, <1>3, <1>4 DEF Handle

\* The rows of the pairing table, as long as none that is used is touched.
LEMMA UnusedRowChanges ==
  ASSUME EnrollInv, NEW k \in Tokens, ~Used(k), UNCHANGED <<agents, stage, req>>,
         DOMAIN pairing' = Tokens, pairing'[k] \in TokenRow,
         \A j \in Tokens \ {k} : pairing'[j] = pairing[j]
  PROVE  EnrollInv'
  <1>1. \A j : Used(j) => Used(j)'
    BY DEF Used
  <1>2. RecordsOK'
    BY DEF EnrollInv, RecordsOK
  <1>3. OneIdentity'
    BY DEF EnrollInv, OneIdentity
  <1> QED
    BY <1>1, <1>2, <1>3 DEF EnrollInv

LEMMA AdminKeeps ==
  ASSUME EnrollInv, Admin PROVE EnrollInv'
  <1> USE DEF EnrollInv, RecordsOK
  <1>1. ASSUME NEW k \in Tokens, NEW n \in Names, IssueToken(k, n) PROVE EnrollInv'
    <2>1. /\ agents' = agents /\ stage' = stage /\ req' = req /\ pairing[k] = None
          /\ DOMAIN pairing' = Tokens
          /\ pairing'[k] = [name |-> n, used |-> FALSE, expired |-> FALSE]
          /\ \A j \in Tokens \ {k} : pairing'[j] = pairing[j]
      BY <1>1 DEF IssueToken, threads
    <2>2. pairing'[k] \in TokenRow
      BY <2>1 DEF TokenRow
    <2> QED
      BY <2>1, <2>2, UnusedRowChanges DEF Used
  <1>2. ASSUME NEW k \in Tokens, ExpireToken(k) PROVE EnrollInv'
    <2>1. /\ agents' = agents /\ stage' = stage /\ req' = req
          /\ pairing[k] # None /\ ~pairing[k].used
          /\ DOMAIN pairing' = Tokens
          /\ pairing'[k] = [pairing[k] EXCEPT !.expired = TRUE]
          /\ \A j \in Tokens \ {k} : pairing'[j] = pairing[j]
      BY <1>2 DEF ExpireToken, threads
    <2>2. pairing'[k] \in TokenRow
      BY <2>1, ChangedTokenRow
    <2> QED
      BY <2>1, <2>2, UnusedRowChanges DEF Used
  <1>3. ASSUME NEW n \in Names, Revoke(n) PROVE EnrollInv'
    <2>1. PICK i \in Ids : agents[i] # None /\ agents' = [agents EXCEPT ![i].revoked = TRUE]
      BY <1>3 DEF Revoke
    <2>2. /\ DOMAIN agents' = Ids /\ agents'[i] = [agents[i] EXCEPT !.revoked = TRUE]
          /\ \A j \in Ids \ {i} : agents'[j] = agents[j]
          /\ pairing' = pairing /\ stage' = stage /\ req' = req
      BY <1>3, <2>1 DEF Revoke, threads
    <2>3. /\ IsAgentRow(agents'[i]) /\ agents'[i].name = agents[i].name
          /\ agents'[i].token = agents[i].token
      BY <2>1, <2>2, ChangedAgentRow
    <2> QED
      BY <2>1, <2>2, <2>3 DEF OneIdentity, Used
  <1>4. CASE UNCHANGED <<agents, pairing, stage, req>>
    BY <1>4 DEF OneIdentity, Used
  <1>5. ASSUME NEW i \in Ids, NEW c \in Cmds, QueueCommand(i, c) PROVE EnrollInv'
    BY <1>4, <1>5 DEF QueueCommand, threads
  <1>6. ASSUME NEW c \in Cmds, ExpireCommand(c) PROVE EnrollInv'
    BY <1>4, <1>6 DEF ExpireCommand, server, threads
  <1> QED
    BY <1>1, <1>2, <1>3, <1>5, <1>6 DEF Admin

LEMMA DeviceKeeps ==
  ASSUME EnrollInv, NEW d \in Devices,
         Work(d) \/ CheckIn(d) \/ \E k \in Tokens : Pair(d, k)
  PROVE  EnrollInv'
  <1>1. CASE Execute(d)
    BY <1>1 DEF Execute, server, threads, EnrollInv, RecordsOK, OneIdentity, Used
  <1>2. CASE SubmitResult(d)
    <2> DEFINE r == [NoRequest EXCEPT !.kind = "result", !.dev = d, !.id = cred[d],
                                      !.cmd = Head(todo[d])]
    <2>1. IsRequest(r) /\ r.kind = "result"
      BY SentRequests DEF NoRequest
    <2>2. Send(d, r) /\ agents' = agents /\ pairing' = pairing
      BY <1>2 DEF SubmitResult, server
    <2> HIDE DEF r
    <2> QED
      BY <2>1, <2>2, SendMoves
  <1>3. CASE CheckIn(d)
    <2> DEFINE r == [NoRequest EXCEPT !.kind = "checkin", !.dev = d, !.id = cred[d],
                                      !.batch = Take(outbox[d], ReportBatch)]
    <2>1. IsRequest(r) /\ r.kind = "checkin"
      BY SentRequests DEF NoRequest
    <2>2. Send(d, r) /\ agents' = agents /\ pairing' = pairing
      BY <1>3 DEF CheckIn, server
    <2> HIDE DEF r
    <2> QED
      BY <2>1, <2>2, SendMoves
  <1>4. ASSUME NEW k \in Tokens, Pair(d, k) PROVE EnrollInv'
    <2> DEFINE r == [NoRequest EXCEPT !.kind = "enroll", !.dev = d, !.token = k]
    <2>1. IsRequest(r) /\ r.kind = "enroll" /\ r.token = k
      BY SentRequests DEF NoRequest
    <2>2. Send(d, r) /\ agents' = agents /\ pairing' = pairing
      BY <1>4 DEF Pair, server
    <2> HIDE DEF r
    <2> QED
      BY <2>1, <2>2, SendMoves
  <1> QED
    BY <1>1, <1>2, <1>3, <1>4 DEF Work

LEMMA FailKeeps ==
  ASSUME EnrollInv, Fail PROVE EnrollInv'
  <1>1. CASE RestartServer
    BY <1>1, NoRequestIsOne DEF RestartServer, server, EnrollInv, RecordsOK, OneIdentity, Used
  <1>2. ASSUME NEW d \in Devices,
               GiveUp(d) \/ LoseCheckin(d) \/ LoseResult(d) \/ RestartAgent(d)
        PROVE  UNCHANGED <<server, threads>>
    BY <1>2 DEF GiveUp, LoseCheckin, LoseResult, RestartAgent
  <1>3. CASE UNCHANGED <<server, threads>>
    BY <1>3 DEF server, threads, EnrollInv, RecordsOK, OneIdentity, Used
  <1> QED
    BY <1>1, <1>2, <1>3 DEF Fail

LEMMA EnrollNext == EnrollInv /\ [Next]_vars => EnrollInv'
  <1> SUFFICES ASSUME EnrollInv, [Next]_vars PROVE EnrollInv'
    OBVIOUS
  <1>1. CASE UNCHANGED vars
    BY <1>1 DEF vars, server, threads, EnrollInv, RecordsOK, OneIdentity, Used
  <1> QED
    BY <1>1, HandleKeeps, AdminKeeps, DeviceKeeps, FailKeeps DEF Next

(* Enrollments that race for a pairing token or a name, on any number of    *)
(* handler threads and across restarts, leave one identity for each.        *)
THEOREM OneIdentityHolds == Spec => []OneIdentity
  <1>1. EnrollInv => OneIdentity
    BY DEF EnrollInv
  <1> QED
    BY EnrollInit, EnrollNext, <1>1, PTL DEF Spec

-----------------------------------------------------------------------------
(* Selecting rows in order.                                                 *)

LEMMA Least ==
  ASSUME NEW T \in SUBSET Nat, T # {}
  PROVE  \E x \in T : \A y \in T : x <= y
  <1>1. PICK x \in T : \A y \in T : ~(<<y, x>> \in OpToRel(<, Nat))
    BY NatLessThanWellFounded, WFMin, Zenon
  <1>2. \A y \in T : ~(y < x)
    BY <1>1 DEF OpToRel
  <1> QED
    BY <1>2

LEMMA Inductive ==
  ASSUME NEW T, 0 \in T, \A n \in Nat : n \in T => n + 1 \in T
  PROVE  Nat \subseteq T
  <1> SUFFICES ASSUME Nat \ T # {} PROVE FALSE
    OBVIOUS
  <1>1. PICK x \in Nat \ T : \A y \in Nat \ T : x <= y
    BY Least
  <1>2. x - 1 \in Nat /\ x - 1 \in T
    BY <1>1
  <1> QED
    BY <1>1, <1>2

Among(q, S, n, f) ==
  f = [m \in 0..n |-> IF m = 0 THEN <<>>
                      ELSE IF q[m] \in S THEN Append(f[m - 1], q[m]) ELSE f[m - 1]]

Precedes(q, a, b) == \E x, y \in DOMAIN q : x < y /\ q[x] = a /\ q[y] = b

LEMMA AmongExists ==
  ASSUME NEW q, NEW S, NEW n \in Nat
  PROVE  \E f : Among(q, S, n, f)
  <1> DEFINE T == {m \in Nat : \E f : Among(q, S, m, f)}
  <1>1. 0 \in T
    <2> DEFINE f == [m \in 0..0 |-> <<>>]
    <2>1. f = [m \in 0..0 |-> IF m = 0 THEN <<>>
                      ELSE IF q[m] \in S THEN Append(f[m - 1], q[m]) ELSE f[m - 1]]
      OBVIOUS
    <2> HIDE DEF f
    <2>2. Among(q, S, 0, f)
      BY <2>1 DEF Among
    <2> QED
      BY <2>2
  <1>2. ASSUME NEW m \in Nat, m \in T PROVE m + 1 \in T
    <2>1. PICK f : Among(q, S, m, f)
      BY <1>2
    <2> DEFINE g == [k \in 0..(m + 1) |-> IF k = m + 1
                       THEN IF q[k] \in S THEN Append(f[m], q[k]) ELSE f[m] ELSE f[k]]
    <2>2. \A k \in 0..m : f[k] = IF k = 0 THEN <<>>
                      ELSE IF q[k] \in S THEN Append(f[k - 1], q[k]) ELSE f[k - 1]
      BY <2>1 DEF Among
    <2>3. \A k \in 0..(m + 1) : g[k] = IF k = 0 THEN <<>>
                      ELSE IF q[k] \in S THEN Append(g[k - 1], q[k]) ELSE g[k - 1]
      <3> TAKE k \in 0..(m + 1)
      <3>1. CASE k = m + 1
        BY <3>1
      <3>2. CASE k = 0
        BY <3>2, <2>2
      <3>3. CASE k \in 1..m
        BY <3>3, <2>2
      <3> QED BY <3>1, <3>2, <3>3
    <2>4. DOMAIN g = 0..(m + 1) /\ g = [k \in DOMAIN g |-> g[k]]
      OBVIOUS
    <2> HIDE DEF g
    <2>5. Among(q, S, m + 1, g)
      BY <2>3, <2>4 DEF Among
    <2> QED BY <2>5
  <1> HIDE DEF T
  <1>3. n \in T
    BY <1>1, <1>2, Inductive
  <1> QED BY <1>3 DEF T

LEMMA SelectProperties ==
  ASSUME NEW C, NEW q \in Seq(C), NEW S
  PROVE  /\ Select(q, S) \in Seq(C)
         /\ \A k \in DOMAIN Select(q, S) : Select(q, S)[k] \in S
         /\ \A x \in DOMAIN q : q[x] \in S
              => \E k \in DOMAIN Select(q, S) : Select(q, S)[k] = q[x]
         /\ \A j, k \in DOMAIN Select(q, S) :
              j < k => Precedes(q, Select(q, S)[j], Select(q, S)[k])
  <1>0. Len(q) \in Nat /\ DOMAIN q = 1..Len(q)
    OBVIOUS
  <1>1. \E f : Among(q, S, Len(q), f)
    BY <1>0, AmongExists
  <1>2. Among(q, S, Len(q), CHOOSE f : Among(q, S, Len(q), f))
    BY <1>1
  <1> DEFINE g == CHOOSE f : Among(q, S, Len(q), f)
  <1>3. Select(q, S) = g[Len(q)]
    BY DEF Select, Among
  <1>4. Among(q, S, Len(q), g)
    BY <1>2
  <1> HIDE DEF g
  <1>5. \A n \in 0..Len(q) : g[n] = IF n = 0 THEN <<>>
                      ELSE IF q[n] \in S THEN Append(g[n - 1], q[n]) ELSE g[n - 1]
    BY <1>4 DEF Among
  <1> DEFINE OK(h, n) ==
        /\ h \in Seq(C)
        /\ \A k \in DOMAIN h : h[k] \in S /\ \E x \in 1..n : h[k] = q[x]
        /\ \A x \in 1..n : q[x] \in S => \E k \in DOMAIN h : h[k] = q[x]
        /\ \A j, k \in DOMAIN h : j < k => \E x, y \in 1..n : x < y /\ q[x] = h[j] /\ q[y] = h[k]
  <1> DEFINE T == {n \in Nat : n <= Len(q) => OK(g[n], n)}
  <1>6. 0 \in T
    <2>1. g[0] = <<>>
      BY <1>0, <1>5
    <2>2. OK(<<>>, 0)
      OBVIOUS
    <2> HIDE DEF OK
    <2> QED
      BY <2>1, <2>2
  <1>7. ASSUME NEW n \in Nat, n \in T PROVE n + 1 \in T
    <2> SUFFICES ASSUME n + 1 <= Len(q) PROVE OK(g[n + 1], n + 1)
      OBVIOUS
    <2>1. OK(g[n], n) /\ n + 1 \in DOMAIN q /\ q[n + 1] \in C
      BY <1>7
    <2>2. CASE q[n + 1] \notin S
      <3>1. g[n + 1] = g[n]
        BY <1>5, <2>2
      <3> QED
        BY <3>1, <2>1, <2>2
    <2>3. CASE q[n + 1] \in S
      <3> DEFINE h == g[n]
                 e == q[n + 1]
      <3>1. g[n + 1] = Append(h, e)
        <4>1. n + 1 \in 0..Len(q) /\ n + 1 # 0 /\ (n + 1) - 1 = n
          OBVIOUS
        <4> QED BY <4>1, <1>5, <2>3
      <3>2. h \in Seq(C) /\ e \in C
        BY <2>1
      <3>3. /\ Append(h, e) \in Seq(C) /\ DOMAIN Append(h, e) = 1..(Len(h) + 1)
            /\ \A k \in DOMAIN h : Append(h, e)[k] = h[k]
            /\ Append(h, e)[Len(h) + 1] = e
            /\ DOMAIN h = 1..Len(h) /\ Len(h) \in Nat
        <4> HIDE DEF h, e
        <4> QED BY <3>2
      <3>4. /\ \A k \in DOMAIN h : h[k] \in S /\ \E x \in 1..n : h[k] = q[x]
            /\ \A x \in 1..n : q[x] \in S => \E k \in DOMAIN h : h[k] = q[x]
            /\ \A j, k \in DOMAIN h : j < k
                 => \E x, y \in 1..n : x < y /\ q[x] = h[j] /\ q[y] = h[k]
        BY <2>1
      <3> DEFINE a == Append(h, e)
      <3>a. e = q[n + 1] /\ e \in S
        BY <2>3
      <3> HIDE DEF h, e, a
      <3>5. \A k \in DOMAIN a : a[k] \in S /\ \E x \in 1..(n + 1) : a[k] = q[x]
        <4> TAKE k \in DOMAIN a
        <4>1. CASE k \in DOMAIN h
          BY <4>1, <3>3, <3>4 DEF a
        <4>2. CASE k = Len(h) + 1
          BY <4>2, <3>3, <3>a DEF a
        <4> QED BY <4>1, <4>2, <3>3 DEF a
      <3>6. \A x \in 1..(n + 1) : q[x] \in S => \E k \in DOMAIN a : a[k] = q[x]
        <4> SUFFICES ASSUME NEW x \in 1..(n + 1), q[x] \in S PROVE \E k \in DOMAIN a : a[k] = q[x]
          OBVIOUS
        <4>1. CASE x \in 1..n
          <5>1. PICK k \in DOMAIN h : h[k] = q[x]
            BY <4>1, <3>4
          <5> QED BY <5>1, <3>3 DEF a
        <4>2. CASE x = n + 1
          BY <4>2, <3>3, <3>a DEF a
        <4> QED BY <4>1, <4>2
      <3>7. \A j, k \in DOMAIN a :
               j < k => \E x, y \in 1..(n + 1) : x < y /\ q[x] = a[j] /\ q[y] = a[k]
        <4> SUFFICES ASSUME NEW j \in DOMAIN a, NEW k \in DOMAIN a, j < k
                     PROVE \E x, y \in 1..(n + 1) : x < y /\ q[x] = a[j] /\ q[y] = a[k]
          OBVIOUS
        <4>1. j \in DOMAIN h /\ a[j] = h[j]
          BY <3>3 DEF a
        <4>2. CASE k \in DOMAIN h
          <5>1. PICK x, y \in 1..n : x < y /\ q[x] = h[j] /\ q[y] = h[k]
            BY <4>1, <4>2, <3>4
          <5> QED BY <5>1, <4>1, <4>2, <3>3 DEF a
        <4>3. CASE k = Len(h) + 1
          <5>1. PICK x \in 1..n : h[j] = q[x]
            BY <4>1, <3>4
          <5> QED BY <5>1, <4>1, <4>3, <3>3, <3>a DEF a
        <4> QED BY <4>2, <4>3, <3>3 DEF a
      <3>8. a \in Seq(C)
        BY <3>3 DEF a
      <3>9. OK(a, n + 1)
        BY <3>5, <3>6, <3>7, <3>8
      <3> HIDE DEF OK
      <3> QED
        BY <3>1, <3>9 DEF a
    <2> QED BY <2>2, <2>3
  <1> HIDE DEF T
  <1>8. Len(q) \in T
    BY <1>6, <1>7, Inductive
  <1> HIDE DEF OK
  <1>9. OK(g[Len(q)], Len(q))
    BY <1>0, <1>8 DEF T
  <1> DEFINE h == g[Len(q)]
  <1>10. /\ h \in Seq(C)
         /\ \A k \in DOMAIN h : h[k] \in S
         /\ \A x \in DOMAIN q : q[x] \in S => \E k \in DOMAIN h : h[k] = q[x]
         /\ \A j, k \in DOMAIN h : j < k => Precedes(q, h[j], h[k])
    <2> HIDE DEF h
    <2> SUFFICES ASSUME OK(h, Len(q))
                 PROVE  /\ h \in Seq(C)
                        /\ \A k \in DOMAIN h : h[k] \in S
                        /\ \A x \in DOMAIN q : q[x] \in S => \E k \in DOMAIN h : h[k] = q[x]
                        /\ \A j, k \in DOMAIN h : j < k => Precedes(q, h[j], h[k])
      BY <1>9 DEF h
    <2>1. h \in Seq(C) /\ \A k \in DOMAIN h : h[k] \in S
      BY DEF OK
    <2>2. \A x \in DOMAIN q : q[x] \in S => \E k \in DOMAIN h : h[k] = q[x]
      BY <1>0 DEF OK
    <2>3. ASSUME NEW j \in DOMAIN h, NEW k \in DOMAIN h, j < k PROVE Precedes(q, h[j], h[k])
      <3>1. PICK x, y \in 1..Len(q) : x < y /\ q[x] = h[j] /\ q[y] = h[k]
        BY <2>3 DEF OK
      <3> QED
        BY <1>0, <3>1 DEF Precedes
    <2> QED
      BY <2>1, <2>2, <2>3
  <1> HIDE DEF h
  <1> QED
    BY <1>3, <1>10 DEF h

\* The rows that pending_for selects.
LEMMA PendingRows ==
  ASSUME TypeOK, NEW i \in Ids
  PROVE  /\ PendingOf(i) \in Seq(Cmds)
         /\ \A k \in DOMAIN PendingOf(i) :
              addressee[PendingOf(i)[k]] = i /\ status[PendingOf(i)[k]] = "pending"
         /\ \A x \in DOMAIN queue : addressee[queue[x]] = i /\ status[queue[x]] = "pending"
              => \E k \in DOMAIN PendingOf(i) : PendingOf(i)[k] = queue[x]
         /\ \A j, k \in DOMAIN PendingOf(i) :
              j < k => Precedes(queue, PendingOf(i)[j], PendingOf(i)[k])
  <1> DEFINE S == {c \in Cmds : addressee[c] = i /\ status[c] = "pending"}
             p == Select(queue, S)
  <1>1. queue \in Seq(Cmds) /\ PendingOf(i) = p
    BY DEF TypeOK, PendingOf
  <1>2. \A x \in DOMAIN queue : queue[x] \in Cmds
    BY <1>1
  <1>3. \A c : c \in S <=> c \in Cmds /\ addressee[c] = i /\ status[c] = "pending"
    OBVIOUS
  <1> HIDE DEF S
  <1>4. /\ p \in Seq(Cmds)
        /\ \A k \in DOMAIN p : p[k] \in S
        /\ \A x \in DOMAIN queue : queue[x] \in S => \E k \in DOMAIN p : p[k] = queue[x]
        /\ \A j, k \in DOMAIN p : j < k => Precedes(queue, p[j], p[k])
    BY <1>1, SelectProperties
  <1> HIDE DEF p
  <1> QED
    BY <1>1, <1>2, <1>3, <1>4

-----------------------------------------------------------------------------
(* Requests, calls and handler threads; type correctness.                   *)

\* How often a report stands in a batch.
LEMMA CountOf ==
  ASSUME NEW S, NEW q \in Seq(S), NEW r
  PROVE  LET H == {n \in DOMAIN q : q[n] = r} IN
         /\ Cardinality(H) \in Nat
         /\ H = {} => Cardinality(H) = 0
         /\ (\A m, n \in H : m = n) => Cardinality(H) <= 1
  <1> DEFINE H == {n \in DOMAIN q : q[n] = r}
             l == Len(q)
  <1>1. DOMAIN q = 1..l /\ l \in Nat
    OBVIOUS
  <1> HIDE DEF l
  <1>2. IsFiniteSet(1..l)
    BY <1>1, FS_Interval
  <1>3. H \in SUBSET (1..l)
    BY <1>1
  <1> HIDE DEF H
  <1>4. IsFiniteSet(H) /\ Cardinality(H) \in Nat
    BY <1>2, <1>3, FS_Subset, FS_CardinalityType
  <1>5. H = {} => Cardinality(H) = 0
    BY FS_EmptySet
  <1>6. ASSUME \A m, n \in H : m = n, H # {} PROVE Cardinality(H) = 1
    <2>1. PICK m \in H : TRUE
      BY <1>6
    <2>2. H = {m}
      BY <1>6, <2>1
    <2> QED
      BY <2>2, FS_Singleton
  <1> QED
    BY <1>4, <1>5, <1>6 DEF H

\* The stage of a handler thread and its request.
SlotOK(s) ==
  /\ stage[s] = "free" <=> req[s].kind = "none"
  /\ stage[s] \in {"enroll", "register"} => req[s].kind = "enroll"
  /\ stage[s] \in {"checkin", "detect", "select", "mark"} => req[s].kind = "checkin"
  /\ stage[s] \in {"result", "store"} => req[s].kind = "result"
  /\ req[s].kind \in {"checkin", "result"} => req[s].id # None
  /\ req[s].kind = "result" => req[s].cmd # None
  /\ stage[s] = "reply" => req[s].id # None
  /\ rows[s] # <<>> => stage[s] \in {"mark", "reply"} /\ req[s].kind = "checkin"

\* The call a device waits for and what it has left to do.
CallOK(d) ==
  /\ call[d] \in Slots =>
       /\ req[call[d]].kind # "none" /\ req[call[d]].dev = d
       /\ req[call[d]].kind = "enroll" => cred[d] = None
       /\ req[call[d]].kind # "enroll" => req[call[d]].id = cred[d]
       /\ req[call[d]].kind # "result" => todo[d] = <<>>
  /\ call[d] = "submit" => todo[d] # <<>>
  /\ todo[d] # <<>> => cred[d] # None

CallsOK == (\A s \in Slots : SlotOK(s)) /\ (\A d \in Devices : CallOK(d))

LEMMA SentFields ==
  ASSUME NEW d, NEW i, NEW k, NEW b, NEW c
  PROVE  LET e == [NoRequest EXCEPT !.kind = "enroll", !.dev = d, !.token = k]
             p == [NoRequest EXCEPT !.kind = "checkin", !.dev = d, !.id = i, !.batch = b]
             r == [NoRequest EXCEPT !.kind = "result", !.dev = d, !.id = i, !.cmd = c]
         IN  /\ e.kind = "enroll" /\ e.dev = d /\ e.id = None /\ e.batch = <<>>
             /\ p.kind = "checkin" /\ p.dev = d /\ p.id = i /\ p.batch = b
             /\ r.kind = "result" /\ r.dev = d /\ r.id = i /\ r.cmd = c /\ r.batch = <<>>
  BY DEF NoRequest

CallInv == EnrollInv /\ TypeOK /\ CallsOK

LEMMA CallInit == Init => CallInv
  <1> SUFFICES ASSUME Init PROVE CallInv
    OBVIOUS
  <1>1. TypeOK
    <2>1. NoRequest \in Request
      BY DEF NoRequest, Request
    <2> QED
      BY <2>1, FleetAssumption DEF Init, TypeOK, Stages
  <1>2. CallsOK
    BY FleetAssumption DEF Init, CallsOK, SlotOK, CallOK, NoRequest
  <1> QED
    BY <1>1, <1>2, EnrollInit DEF CallInv

\* A request is sent.
LEMMA SendCalls ==
  ASSUME CallInv, NEW d \in Devices, NEW r \in Request, Send(d, r),
         r.kind # "none", r.dev = d, call[d] = "idle" \/ call[d] = "submit",
         r.kind = "enroll" => r.id = None /\ cred[d] = None,
         r.kind # "enroll" => r.id # None /\ r.id = cred[d],
         r.kind = "result" => r.cmd # None,
         todo' \in [Devices -> Seq(Cmds)],
         r.kind # "result" => todo'[d] = <<>>,
         todo'[d] # <<>> => cred[d] # None,
         \A e \in Devices \ {d} : todo'[e] = todo[e],
         cred' = cred
  PROVE  /\ stage' \in [Slots -> Stages] /\ req' \in [Slots -> Request]
         /\ call' \in [Devices -> Slots \cup {"idle", "submit"}]
         /\ lock' = lock /\ rows' = rows /\ CallsOK'
  <1>1. PICK s \in Slots :
          /\ stage[s] = "free" /\ req' = [req EXCEPT ![s] = r]
          /\ stage' = [stage EXCEPT ![s] = r.kind] /\ call' = [call EXCEPT ![d] = s]
          /\ lock' = lock /\ rows' = rows
    BY DEF Send, Goto
  <1>2. r.kind \in {"enroll", "checkin", "result"}
    BY DEF Request
  <1>3. /\ stage' \in [Slots -> Stages] /\ req' \in [Slots -> Request]
        /\ call' \in [Devices -> Slots \cup {"idle", "submit"}]
    BY <1>1, <1>2 DEF CallInv, TypeOK, Stages
  <1>4. \A e \in Devices : call[e] # s
    BY <1>1 DEF CallInv, CallsOK, SlotOK, CallOK
  <1>5. rows[s] = <<>>
    BY <1>1 DEF CallInv, CallsOK, SlotOK, CallOK
  <1>6. ASSUME NEW u \in Slots
        PROVE  SlotOK(u)'
    BY <1>1, <1>2, <1>5 DEF CallInv, CallsOK, SlotOK, CallOK, TypeOK
  <1>7. ASSUME NEW e \in Devices
        PROVE  CallOK(e)'
    BY <1>1, <1>2, <1>4, FleetAssumption DEF CallInv, CallsOK, SlotOK, CallOK, TypeOK
  <1> QED
    BY <1>1, <1>3, <1>6, <1>7 DEF CallsOK

\* A handler thread ends, and the device that waits for it goes on.
LEMMA FinishCalls ==
  ASSUME CallInv, NEW s \in Slots, Finish(s),
         call' = [d \in Devices |-> IF d \in Waiting(s) THEN "idle" ELSE call[d]],
         \A d \in Devices :
           /\ d \notin Waiting(s) => cred'[d] = cred[d] /\ todo'[d] = todo[d]
           /\ todo'[d] # <<>> => cred'[d] # None
  PROVE  /\ stage' \in [Slots -> Stages] /\ req' \in [Slots -> Request]
         /\ call' \in [Devices -> Slots \cup {"idle", "submit"}]
         /\ rows' \in [Slots -> Seq(Cmds)]
         /\ CallsOK'
  <1>1. NoRequest \in Request /\ <<>> \in Seq(Cmds) /\ NoRequest.kind = "none"
    BY DEF NoRequest, Request
  <1>2. /\ stage' \in [Slots -> Stages] /\ req' \in [Slots -> Request]
        /\ call' \in [Devices -> Slots \cup {"idle", "submit"}]
        /\ rows' \in [Slots -> Seq(Cmds)]
    BY <1>1 DEF CallInv, TypeOK, Stages, Finish
  <1>3. ASSUME NEW u \in Slots PROVE SlotOK(u)'
    BY <1>1, <1>2 DEF CallInv, CallsOK, SlotOK, TypeOK, Finish
  <1>4. ASSUME NEW d \in Devices PROVE CallOK(d)'
    BY <1>1, <1>2, FleetAssumption DEF CallInv, CallsOK, CallOK, TypeOK, Finish, Waiting
  <1> QED
    BY <1>2, <1>3, <1>4 DEF CallsOK

LEMMA TakeTyped ==
  ASSUME NEW S, NEW q \in Seq(S), NEW n \in Nat
  PROVE  Take(q, n) \in Seq(S) /\ Rest(q, n) \in Seq(S)
  BY DEF Take, Rest

LEMMA RangeTyped ==
  ASSUME NEW S, NEW q \in Seq(S)
  PROVE  Range(q) \subseteq S
  BY DEF Range

LEMMA AnswerTypes ==
  ASSUME CallInv, NEW s \in Slots,
         AnswerEnroll(s) \/ AnswerCheckin(s) \/ AnswerResult(s) \/ AnswerDenied(s)
  PROVE  TypeOK' /\ CallsOK'
  <1>0. /\ server' = server /\ lock' = lock /\ outbox' = outbox
        /\ UNCHANGED <<expired, executed, submitted, slipped, losses>>
        /\ Finish(s) /\ call' = [d \in Devices |-> IF d \in Waiting(s) THEN "idle" ELSE call[d]]
    BY DEF AnswerEnroll, AnswerCheckin, AnswerResult, AnswerDenied, ghosts, drops
  <1>1. ASSUME NEW d \in Devices, d \in Waiting(s)
        PROVE  call[d] = s /\ req[s].dev = d
    BY <1>1 DEF CallInv, CallsOK, CallOK, Waiting
  <1>2. /\ cred' \in [Devices -> Ids \cup {None}] /\ todo' \in [Devices -> Seq(Cmds)]
        /\ \A d \in Devices :
             /\ d \notin Waiting(s) => cred'[d] = cred[d] /\ todo'[d] = todo[d]
             /\ todo'[d] # <<>> => cred'[d] # None
    <2>1. CASE AnswerEnroll(s)
      BY <2>1, <1>1 DEF AnswerEnroll, CallInv, TypeOK, CallsOK, CallOK, SlotOK, Request
    <2>2. CASE AnswerCheckin(s)
      <3>1. Take(rows[s], MaxHandled) \in Seq(Cmds)
        BY TakeTyped, FleetAssumption DEF CallInv, TypeOK
      <3>2. /\ cred' = cred /\ req[s].kind = "checkin"
            /\ todo' = [d \in Devices |->
                          IF d \in Waiting(s) THEN Take(rows[s], MaxHandled) ELSE todo[d]]
        BY <2>2 DEF AnswerCheckin
      <3>3. todo' \in [Devices -> Seq(Cmds)]
        BY <3>1, <3>2 DEF CallInv, TypeOK
      <3>4. ASSUME NEW d \in Devices, d \in Waiting(s) PROVE cred[d] # None
        BY <1>1, <3>2, <3>4 DEF CallInv, CallsOK, CallOK, SlotOK
      <3>5. \A d \in Devices : todo[d] # <<>> => cred[d] # None
        BY DEF CallInv, CallsOK, CallOK
      <3>6. ASSUME NEW d \in Devices
            PROVE  /\ d \notin Waiting(s) => todo'[d] = todo[d]
                   /\ todo'[d] # <<>> => cred[d] # None
        BY <3>2, <3>4, <3>5
      <3> QED
        BY <3>2, <3>3, <3>6 DEF CallInv, TypeOK
    <2>3. CASE AnswerResult(s) \/ AnswerDenied(s)
      BY <2>3 DEF AnswerResult, AnswerDenied, CallInv, TypeOK, CallsOK, CallOK
    <2> QED
      BY <2>1, <2>2, <2>3
  <1>3. /\ stage' \in [Slots -> Stages] /\ req' \in [Slots -> Request]
        /\ call' \in [Devices -> Slots \cup {"idle", "submit"}]
        /\ rows' \in [Slots -> Seq(Cmds)]
        /\ CallsOK'
    BY <1>0, <1>2, FinishCalls
  <1>4. cutOff' \in SUBSET Cmds /\ lost' \in SUBSET Cmds
    <2>1. /\ Range(rows[s]) \subseteq Cmds /\ Range(Rest(rows[s], MaxHandled)) \subseteq Cmds
          /\ cutOff \in SUBSET Cmds /\ lost \in SUBSET Cmds
      BY RangeTyped, TakeTyped, FleetAssumption DEF CallInv, TypeOK
    <2> QED
      BY <2>1 DEF AnswerEnroll, AnswerCheckin, AnswerResult, AnswerDenied, ghosts, drops
  <1> QED
    BY <1>0, <1>2, <1>3, <1>4 DEF CallInv, TypeOK, server

\* The other steps of a handler thread: it goes to another stage.
LEMMA StageCalls ==
  ASSUME CallInv, NEW s \in Slots, NEW label \in Stages, Goto(s, label),
         \/ req' = req
         \/ \E i \in Ids : req' = [req EXCEPT ![s].id = i] /\ req[s].kind = "enroll",
         label # "free", stage[s] # "free",
         label \in {"enroll", "register"} => req[s].kind = "enroll",
         label \in {"checkin", "detect", "select", "mark"} => req[s].kind = "checkin",
         label \in {"result", "store"} => req[s].kind = "result",
         label = "reply" => req'[s].id # None,
         rows' \in [Slots -> Seq(Cmds)], \A u \in Slots \ {s} : rows'[u] = rows[u],
         rows'[s] # <<>> => label \in {"mark", "reply"} /\ req[s].kind = "checkin",
         UNCHANGED device
  PROVE  /\ stage' \in [Slots -> Stages] /\ req' \in [Slots -> Request]
         /\ CallsOK'
  <1>1. stage' \in [Slots -> Stages] /\ req' \in [Slots -> Request]
    <2>1. stage' \in [Slots -> Stages]
      BY DEF CallInv, TypeOK, Goto
    <2>2. ASSUME NEW i \in Ids, NEW r \in Request PROVE [r EXCEPT !.id = i] \in Request
      BY DEF Request
    <2>3. req[s] \in Request /\ req \in [Slots -> Request]
      BY DEF CallInv, TypeOK
    <2>4. ASSUME NEW i \in Ids, req' = [req EXCEPT ![s].id = i] PROVE req' \in [Slots -> Request]
      <3>1. req' = [req EXCEPT ![s] = [req[s] EXCEPT !.id = i]]
        BY <2>4
      <3> QED
        BY <2>2, <2>3, <3>1
    <2> QED
      BY <2>1, <2>3, <2>4
  <1>2. /\ req'[s].kind = req[s].kind /\ req'[s].dev = req[s].dev /\ req'[s].cmd = req[s].cmd
        /\ req[s].kind # "enroll" => req'[s] = req[s]
        /\ req[s].kind = "enroll" => req'[s].id = req[s].id \/ req'[s].id \in Ids
        /\ \A u \in Slots \ {s} : req'[u] = req[u]
    BY DEF CallInv, TypeOK, Request
  <1>3. ASSUME NEW u \in Slots PROVE SlotOK(u)'
    BY <1>1, <1>2 DEF CallInv, CallsOK, SlotOK, TypeOK, Goto
  <1>4. ASSUME NEW d \in Devices PROVE CallOK(d)'
    <2>1. CallOK(d) /\ call' = call /\ cred' = cred /\ todo' = todo
      BY DEF CallInv, CallsOK, device
    <2>2. ASSUME call[d] \in Slots
          PROVE  /\ req'[call[d]].kind = req[call[d]].kind /\ req'[call[d]].dev = req[call[d]].dev
                 /\ req[call[d]].kind # "enroll" => req'[call[d]].id = req[call[d]].id
      BY <1>2, <2>2
    <2> QED
      BY <2>1, <2>2 DEF CallOK
  <1> QED
    BY <1>1, <1>3, <1>4 DEF CallsOK

LEMMA EnrollTypes ==
  ASSUME CallInv, NEW s \in Slots, ConsumePairing(s) \/ Register(s)
  PROVE  TypeOK' /\ CallsOK'
  <1>0. req[s] \in Request /\ req[s].kind = "enroll" /\ req[s].token \in Tokens /\ stage[s] # "free"
    <2>1. stage[s] \in {"enroll", "register"}
      BY DEF ConsumePairing, Register
    <2>2. req[s] \in Request /\ SlotOK(s) /\ req[s].token \in Tokens
      BY <2>1 DEF CallInv, TypeOK, CallsOK, EnrollInv, RecordsOK
    <2> QED
      BY <2>1, <2>2 DEF SlotOK
  <1> DEFINE k == req[s].token
  <1>1. CASE ConsumePairing(s)
    <2>1. /\ pairing' = pairing \/ (pairing[k] # None /\ pairing' = [pairing EXCEPT ![k].used = TRUE])
          /\ Goto(s, "register") \/ Goto(s, "deny")
          /\ UNCHANGED <<agents, queue, addressee, status, detections, lock, req, rows, device, ghosts>>
      BY <1>1 DEF ConsumePairing
    <2>2. pairing' \in [Tokens -> TokenRow \cup {None}]
      <3>1. pairing \in [Tokens -> TokenRow \cup {None}]
        BY DEF CallInv, TypeOK
      <3>2. ASSUME pairing[k] # None, pairing' = [pairing EXCEPT ![k].used = TRUE]
            PROVE  pairing' \in [Tokens -> TokenRow \cup {None}]
        <4>1. pairing[k] \in TokenRow /\ [pairing[k] EXCEPT !.used = TRUE] \in TokenRow
          BY <1>0, <3>1, <3>2, ChangedTokenRow
        <4>2. pairing' = [pairing EXCEPT ![k] = [pairing[k] EXCEPT !.used = TRUE]]
          BY <3>2
        <4> QED
          BY <1>0, <3>1, <4>1, <4>2
      <3> QED
        BY <2>1, <3>1, <3>2
    <2>3. /\ stage' \in [Slots -> Stages] /\ req' \in [Slots -> Request]
          /\ CallsOK'
      <3>1. rows[s] = <<>>
        BY <1>1 DEF ConsumePairing, CallInv, CallsOK, SlotOK
      <3>2. rows' = rows /\ rows \in [Slots -> Seq(Cmds)] /\ req' = req /\ UNCHANGED device
        BY <2>1 DEF CallInv, TypeOK
      <3>3. CASE Goto(s, "register")
        BY <1>0, <3>1, <3>2, <3>3, StageCalls DEF Stages
      <3>4. CASE Goto(s, "deny")
        BY <1>0, <3>1, <3>2, <3>4, StageCalls DEF Stages
      <3> QED
        BY <2>1, <3>3, <3>4
    <2> QED
      BY <2>1, <2>2, <2>3 DEF CallInv, TypeOK, device, ghosts, drops
  <1>2. CASE Register(s)
    <2>1. /\ UNCHANGED <<pairing, queue, addressee, status, detections, lock, rows, device, ghosts>>
          /\ stage[s] = "register"
      BY <1>2 DEF Register
    <2>2. pairing[k] # None /\ pairing[k] \in TokenRow
      BY <1>0, <2>1 DEF CallInv, EnrollInv, RecordsOK, Used
    <2>3. agents' \in [Ids -> AgentRow \cup {None}]
      <3>1. [name |-> pairing[k].name, token |-> k, revoked |-> FALSE] \in AgentRow
        BY <1>0, <2>2 DEF AgentRow, TokenRow
      <3> QED
        BY <1>2, <3>1 DEF Register, CallInv, TypeOK
    <2>4. /\ stage' \in [Slots -> Stages] /\ req' \in [Slots -> Request]
          /\ CallsOK'
      <3>1. rows[s] = <<>> /\ rows' = rows /\ rows \in [Slots -> Seq(Cmds)] /\ UNCHANGED device
        BY <2>1 DEF CallInv, CallsOK, SlotOK, TypeOK
      <3>2. ASSUME NEW i \in Ids, req' = [req EXCEPT ![s].id = i], Goto(s, "reply")
            PROVE  /\ stage' \in [Slots -> Stages] /\ req' \in [Slots -> Request] /\ CallsOK'
        <4>1. req'[s].id # None
          BY <1>0, <3>2, FleetAssumption DEF CallInv, TypeOK, Request
        <4> QED
          BY <1>0, <3>1, <3>2, <4>1, StageCalls DEF Stages
      <3>3. CASE req' = req /\ Goto(s, "deny")
        BY <1>0, <3>1, <3>3, StageCalls DEF Stages
      <3> QED
        BY <1>2, <3>2, <3>3 DEF Register
    <2> QED
      BY <2>1, <2>3, <2>4 DEF CallInv, TypeOK, device, ghosts, drops
  <1> QED
    BY <1>1, <1>2

LEMMA ServeTypes ==
  ASSUME CallInv, NEW s \in Slots,
         \/ Authenticate(s) \/ AddDetections(s) \/ SelectPending(s) \/ MarkDispatched(s)
         \/ StoreResult(s)
  PROVE  TypeOK' /\ CallsOK'
  <1>0. /\ req[s] \in Request /\ SlotOK(s) /\ req \in [Slots -> Request]
        /\ rows \in [Slots -> Seq(Cmds)]
    BY DEF CallInv, TypeOK, CallsOK
  <1>1. CASE Authenticate(s)
    <2>1. /\ stage[s] \in {"checkin", "result"} /\ UNCHANGED <<server, lock, req, rows, device, ghosts>>
          /\ \/ Goto(s, "deny")
             \/ Goto(s, "detect") /\ stage[s] = "checkin"
             \/ Goto(s, "store") /\ stage[s] = "result"
      BY <1>1 DEF Authenticate
    <2>2. rows[s] = <<>>
      BY <1>0, <2>1 DEF SlotOK
    <2>3. /\ stage' \in [Slots -> Stages] /\ req' \in [Slots -> Request] /\ CallsOK'
      <3>1. CASE Goto(s, "deny")
        BY <1>0, <2>1, <2>2, <3>1, StageCalls DEF Stages
      <3>2. CASE Goto(s, "detect") /\ stage[s] = "checkin"
        BY <1>0, <2>1, <2>2, <3>2, StageCalls DEF Stages, SlotOK
      <3>3. CASE Goto(s, "store") /\ stage[s] = "result"
        BY <1>0, <2>1, <2>2, <3>3, StageCalls DEF Stages, SlotOK
      <3> QED
        BY <2>1, <3>1, <3>2, <3>3
    <2> QED
      BY <2>1, <2>3 DEF CallInv, TypeOK, server, device, ghosts, drops
  <1>2. CASE AddDetections(s)
    <2>1. /\ stage[s] = "detect" /\ Goto(s, "select")
          /\ UNCHANGED <<agents, pairing, queue, addressee, status, lock, req, rows, device, ghosts>>
      BY <1>2 DEF AddDetections
    <2>2. /\ stage' \in [Slots -> Stages] /\ req' \in [Slots -> Request] /\ CallsOK'
      BY <1>0, <2>1, StageCalls DEF Stages, SlotOK
    <2>3. detections' \in [Reports -> Nat]
      <3>1. ASSUME NEW r \in Reports
            PROVE  Cardinality({n \in DOMAIN req[s].batch : req[s].batch[n] = r}) \in Nat
        <4>1. req[s].batch \in Seq(Reports)
          BY <1>0 DEF Request
        <4> QED
          BY <4>1, CountOf
      <3>2. /\ detections \in [Reports -> Nat]
            /\ detections' =
                 [r \in Reports |->
                    detections[r] + Cardinality({n \in DOMAIN req[s].batch : req[s].batch[n] = r})]
        BY <1>2 DEF AddDetections, CallInv, TypeOK
      <3> QED
        BY <3>1, <3>2
    <2> QED
      BY <2>1, <2>2, <2>3 DEF CallInv, TypeOK, device, ghosts, drops
  <1>3. CASE SelectPending(s)
    <2>1. /\ stage[s] = "select" /\ Goto(s, "mark") /\ lock' = s
          /\ rows' = [rows EXCEPT ![s] = PendingOf(req[s].id)]
          /\ UNCHANGED <<server, req, device, ghosts>>
      BY <1>3 DEF SelectPending
    <2>2. req[s].id \in Ids /\ req[s].kind = "checkin"
      BY <1>0, <2>1 DEF SlotOK, Request
    <2>3. rows' \in [Slots -> Seq(Cmds)]
      BY <1>0, <2>1, <2>2, PendingRows DEF CallInv
    <2>4. /\ stage' \in [Slots -> Stages] /\ req' \in [Slots -> Request] /\ CallsOK'
      BY <1>0, <2>1, <2>2, <2>3, StageCalls DEF Stages
    <2> QED
      BY <2>1, <2>3, <2>4 DEF CallInv, TypeOK, server, device, ghosts, drops
  <1>4. CASE MarkDispatched(s)
    <2>1. /\ stage[s] = "mark" /\ Goto(s, "reply") /\ lock' = None
          /\ UNCHANGED <<agents, pairing, queue, addressee, detections, req, rows, device, ghosts>>
      BY <1>4 DEF MarkDispatched
    <2>2. /\ stage' \in [Slots -> Stages] /\ req' \in [Slots -> Request] /\ CallsOK'
      BY <1>0, <2>1, StageCalls DEF Stages, SlotOK
    <2>3. status' \in [Cmds -> {"none", "pending", "dispatched", "done"}]
      BY <1>4 DEF MarkDispatched, CallInv, TypeOK
    <2> QED
      BY <2>1, <2>2, <2>3 DEF CallInv, TypeOK, device, ghosts, drops
  <1>5. CASE StoreResult(s)
    <2>1. /\ stage[s] = "store" /\ Goto(s, "reply")
          /\ UNCHANGED <<agents, pairing, queue, addressee, detections, lock, req, rows, device, ghosts>>
      BY <1>5 DEF StoreResult
    <2>2. /\ stage' \in [Slots -> Stages] /\ req' \in [Slots -> Request] /\ CallsOK'
      BY <1>0, <2>1, StageCalls DEF Stages, SlotOK
    <2>3. status' \in [Cmds -> {"none", "pending", "dispatched", "done"}]
      BY <1>5 DEF StoreResult, CallInv, TypeOK
    <2> QED
      BY <2>1, <2>2, <2>3 DEF CallInv, TypeOK, device, ghosts, drops
  <1> QED
    BY <1>1, <1>2, <1>3, <1>4, <1>5

LEMMA AdminTypes ==
  ASSUME CallInv, Admin PROVE TypeOK' /\ CallsOK'
  <1>0. threads' = threads /\ device' = device
    BY DEF Admin, IssueToken, ExpireToken, Revoke, QueueCommand, ExpireCommand
  <1>1. CallsOK'
    BY <1>0 DEF threads, device, CallInv, CallsOK, SlotOK, CallOK
  <1>2. ASSUME NEW k \in Tokens, NEW n \in Names, IssueToken(k, n) PROVE TypeOK'
    BY <1>0, <1>2 DEF IssueToken, threads, device, ghosts, drops, CallInv, TypeOK, TokenRow
  <1>3. ASSUME NEW k \in Tokens, ExpireToken(k) PROVE TypeOK'
    <2>1. pairing[k] \in TokenRow /\ [pairing[k] EXCEPT !.expired = TRUE] \in TokenRow
      BY <1>3, ChangedTokenRow DEF ExpireToken, CallInv, TypeOK
    <2>2. pairing' = [pairing EXCEPT ![k] = [pairing[k] EXCEPT !.expired = TRUE]]
      BY <1>3 DEF ExpireToken
    <2> QED
      BY <1>0, <1>3, <2>1, <2>2 DEF ExpireToken, threads, device, ghosts, drops, CallInv, TypeOK
  <1>4. ASSUME NEW n \in Names, Revoke(n) PROVE TypeOK'
    <2>1. PICK i \in Ids : agents[i] # None /\ agents' = [agents EXCEPT ![i].revoked = TRUE]
      BY <1>4 DEF Revoke
    <2>2. agents[i] \in AgentRow /\ [agents[i] EXCEPT !.revoked = TRUE] \in AgentRow
      BY <2>1 DEF CallInv, TypeOK, AgentRow
    <2>3. agents' = [agents EXCEPT ![i] = [agents[i] EXCEPT !.revoked = TRUE]]
      BY <2>1
    <2> QED
      BY <1>0, <1>4, <2>2, <2>3 DEF Revoke, threads, device, ghosts, drops, CallInv, TypeOK
  <1>5. ASSUME NEW i \in Ids, NEW c \in Cmds, QueueCommand(i, c) PROVE TypeOK'
    BY <1>0, <1>5 DEF QueueCommand, threads, device, ghosts, drops, CallInv, TypeOK
  <1>6. ASSUME NEW c \in Cmds, ExpireCommand(c) PROVE TypeOK'
    BY <1>0, <1>6 DEF ExpireCommand, server, threads, device, drops, CallInv, TypeOK
  <1> QED
    BY <1>1, <1>2, <1>3, <1>4, <1>5, <1>6 DEF Admin

LEMMA ExecuteTypes ==
  ASSUME CallInv, NEW d \in Devices, Execute(d) PROVE TypeOK' /\ CallsOK'
  <1>0. /\ call[d] = "idle" /\ todo[d] # <<>> /\ todo[d] \in Seq(Cmds)
        /\ call' = [call EXCEPT ![d] = "submit"]
        /\ UNCHANGED <<server, threads, cred, todo, expired, submitted, drops, losses>>
        /\ cred[d] \in Ids
    BY DEF Execute, CallInv, TypeOK, CallsOK, CallOK
  <1>1. CallsOK'
    BY <1>0, FleetAssumption DEF threads, CallInv, TypeOK, CallsOK, SlotOK, CallOK
  <1>2. executed' \in Seq([dev : Devices, id : Ids, cmd : Cmds])
    <2>1. Head(todo[d]) \in Cmds
      BY <1>0
    <2>2. [dev |-> d, id |-> cred[d], cmd |-> Head(todo[d])] \in [dev : Devices, id : Ids, cmd : Cmds]
      BY <1>0, <2>1
    <2>3. executed \in Seq([dev : Devices, id : Ids, cmd : Cmds])
      BY DEF CallInv, TypeOK
    <2>4. \/ executed' = executed
          \/ executed' = Append(executed, [dev |-> d, id |-> cred[d], cmd |-> Head(todo[d])])
      BY DEF Execute
    <2> DEFINE R == [dev : Devices, id : Ids, cmd : Cmds]
               x == [dev |-> d, id |-> cred[d], cmd |-> Head(todo[d])]
    <2> HIDE DEF R, x
    <2>5. ASSUME NEW q \in Seq(R), x \in R PROVE Append(q, x) \in Seq(R)
      BY <2>5, AppendProperties
    <2> QED
      BY <2>2, <2>3, <2>4, <2>5 DEF R, x
  <1>3. outbox' \in [Devices -> Seq(Reports)]
    <2>1. outbox \in [Devices -> Seq(Reports)]
      BY DEF CallInv, TypeOK
    <2>2. ASSUME NEW r \in Reports, outbox' = [outbox EXCEPT ![d] = Append(@, r)]
          PROVE  outbox' \in [Devices -> Seq(Reports)]
      <3>1. Append(outbox[d], r) \in Seq(Reports)
        BY <2>1
      <3> QED
        BY <2>1, <2>2, <3>1
    <2>3. \/ outbox' = outbox
          \/ \E r \in Reports : outbox' = [outbox EXCEPT ![d] = Append(@, r)]
      BY DEF Execute
    <2> QED
      BY <2>1, <2>2, <2>3
  <1> QED
    BY <1>0, <1>1, <1>2, <1>3 DEF server, threads, drops, CallInv, TypeOK

LEMMA SendTypes ==
  ASSUME CallInv, NEW d \in Devices,
         SubmitResult(d) \/ CheckIn(d) \/ \E k \in Tokens : Pair(d, k)
  PROVE  TypeOK' /\ CallsOK'
  <1>0. CallOK(d) /\ todo \in [Devices -> Seq(Cmds)] /\ cred \in [Devices -> Ids \cup {None}]
    BY DEF CallInv, TypeOK, CallsOK
  <1>1. CASE SubmitResult(d)
    <2> DEFINE c == Head(todo[d])
               r == [NoRequest EXCEPT !.kind = "result", !.dev = d, !.id = cred[d], !.cmd = c]
    <2>1. /\ call[d] = "submit" /\ Send(d, r)
          /\ todo' = [todo EXCEPT ![d] = Tail(@)]
          /\ submitted' = submitted \cup {[id |-> cred[d], cmd |-> c]}
          /\ UNCHANGED <<server, cred, outbox, expired, executed, drops, losses>>
      BY <1>1 DEF SubmitResult
    <2>2. todo[d] # <<>> /\ cred[d] \in Ids /\ c \in Cmds /\ Tail(todo[d]) \in Seq(Cmds)
      <3>1. todo[d] # <<>> /\ cred[d] \in Ids /\ todo[d] \in Seq(Cmds)
        BY <1>0, <2>1 DEF CallOK
      <3> QED
        BY <3>1
    <2>3. r \in Request
      <3>1. <<>> \in Seq(Reports)
        OBVIOUS
      <3> HIDE DEF c
      <3> QED
        BY <2>2, <3>1 DEF NoRequest, Request
    <2>4. r.kind = "result" /\ r.dev = d /\ r.id = cred[d] /\ r.cmd = c
      BY SentFields
    <2> HIDE DEF r
    <2>5. todo' \in [Devices -> Seq(Cmds)] /\ \A e \in Devices \ {d} : todo'[e] = todo[e]
      BY <1>0, <2>1, <2>2
    <2>6. /\ stage' \in [Slots -> Stages] /\ req' \in [Slots -> Request]
          /\ call' \in [Devices -> Slots \cup {"idle", "submit"}]
          /\ lock' = lock /\ rows' = rows /\ CallsOK'
      BY <2>1, <2>2, <2>3, <2>4, <2>5, FleetAssumption, SendCalls
    <2> HIDE DEF c
    <2> QED
      BY <2>1, <2>2, <2>5, <2>6 DEF server, drops, CallInv, TypeOK
  <1>2. CASE CheckIn(d)
    <2> DEFINE b == Take(outbox[d], ReportBatch)
               r == [NoRequest EXCEPT !.kind = "checkin", !.dev = d, !.id = cred[d], !.batch = b]
    <2>1. /\ call[d] = "idle" /\ todo[d] = <<>> /\ cred[d] # None /\ Send(d, r)
          /\ outbox' = [outbox EXCEPT ![d] = Rest(@, ReportBatch)]
          /\ UNCHANGED <<server, cred, todo, ghosts>>
      BY <1>2 DEF CheckIn, Idle
    <2>2. b \in Seq(Reports) /\ Rest(outbox[d], ReportBatch) \in Seq(Reports)
      BY TakeTyped, FleetAssumption DEF CallInv, TypeOK
    <2>3. r \in Request
      <3>1. cred[d] \in Ids
        BY <1>0, <2>1
      <3> HIDE DEF b
      <3> QED
        BY <2>2, <3>1 DEF NoRequest, Request
    <2>4. r.kind = "checkin" /\ r.dev = d /\ r.id = cred[d]
      BY SentFields
    <2> HIDE DEF r, b
    <2>5. /\ stage' \in [Slots -> Stages] /\ req' \in [Slots -> Request]
          /\ call' \in [Devices -> Slots \cup {"idle", "submit"}]
          /\ lock' = lock /\ rows' = rows /\ CallsOK'
      BY <1>0, <2>1, <2>3, <2>4, SendCalls
    <2>6. outbox' \in [Devices -> Seq(Reports)]
      BY <2>1, <2>2 DEF CallInv, TypeOK
    <2> QED
      BY <2>1, <2>5, <2>6 DEF server, ghosts, drops, CallInv, TypeOK
  <1>3. ASSUME NEW k \in Tokens, Pair(d, k) PROVE TypeOK' /\ CallsOK'
    <2> DEFINE r == [NoRequest EXCEPT !.kind = "enroll", !.dev = d, !.token = k]
    <2>1. /\ call[d] = "idle" /\ todo[d] = <<>> /\ cred[d] = None /\ Send(d, r)
          /\ UNCHANGED <<server, cred, todo, outbox, ghosts>>
      BY <1>3 DEF Pair, Idle
    <2>2. r \in Request
      <3>1. <<>> \in Seq(Reports)
        OBVIOUS
      <3> QED
        BY <3>1 DEF NoRequest, Request
    <2>3. r.kind = "enroll" /\ r.dev = d /\ r.id = None
      BY SentFields
    <2> HIDE DEF r
    <2>4. /\ stage' \in [Slots -> Stages] /\ req' \in [Slots -> Request]
          /\ call' \in [Devices -> Slots \cup {"idle", "submit"}]
          /\ lock' = lock /\ rows' = rows /\ CallsOK'
      BY <1>0, <2>1, <2>2, <2>3, SendCalls
    <2> QED
      BY <2>1, <2>4 DEF server, ghosts, drops, CallInv, TypeOK
  <1> QED
    BY <1>1, <1>2, <1>3

LEMMA FailTypes ==
  ASSUME CallInv, Fail PROVE TypeOK' /\ CallsOK'
  <1>0. losses' \in 0..MaxLosses
    <2>1. losses < MaxLosses /\ losses' = losses + 1 /\ losses \in 0..MaxLosses
      BY DEF Fail, Lose, GiveUp, LoseCheckin, LoseResult, RestartAgent, RestartServer,
             CallInv, TypeOK
    <2> QED
      BY <2>1, FleetAssumption
  <1>1. CASE RestartServer
    <2>1. NoRequest \in Request /\ NoRequest.kind = "none" /\ <<>> \in Seq(Cmds)
      BY DEF NoRequest, Request
    <2>2. TypeOK'
      <3>1. lost' \in SUBSET Cmds
        <4>1. \A s \in Slots : InHand(s) \subseteq Cmds
          BY RangeTyped DEF CallInv, TypeOK, CallsOK, SlotOK, InHand, Request
        <4> QED
          BY <1>1, <4>1 DEF RestartServer, CallInv, TypeOK
      <3> QED
        BY <1>0, <1>1, <2>1, <3>1 DEF RestartServer, server, CallInv, TypeOK, Stages
    <2>3. CallsOK'
      BY <1>1, <2>1, FleetAssumption DEF RestartServer, CallInv, TypeOK, CallsOK, SlotOK, CallOK
    <2> QED
      BY <2>2, <2>3
  <1>2. ASSUME NEW d \in Devices, GiveUp(d) PROVE TypeOK' /\ CallsOK'
    BY <1>0, <1>2, FleetAssumption DEF GiveUp, server, threads, drops, CallInv, TypeOK, CallsOK,
                                       SlotOK, CallOK
  <1>3. ASSUME NEW d \in Devices, LoseCheckin(d) PROVE TypeOK' /\ CallsOK'
    <2>1. Rest(outbox[d], ReportBatch) \in Seq(Reports)
      BY TakeTyped, FleetAssumption DEF CallInv, TypeOK
    <2> QED
      BY <1>0, <1>3, <2>1 DEF LoseCheckin, server, threads, drops, CallInv, TypeOK, CallsOK, SlotOK,
                              CallOK
  <1>4. ASSUME NEW d \in Devices, LoseResult(d) PROVE TypeOK' /\ CallsOK'
    <2>1. todo[d] # <<>> /\ todo[d] \in Seq(Cmds) /\ cred[d] # None
      BY <1>4 DEF LoseResult, CallInv, TypeOK, CallsOK, CallOK
    <2>2. Tail(todo[d]) \in Seq(Cmds)
      BY <2>1
    <2> QED
      BY <1>0, <1>4, <2>1, <2>2, FleetAssumption
         DEF LoseResult, server, threads, CallInv, TypeOK, CallsOK, SlotOK, CallOK
  <1>5. ASSUME NEW d \in Devices, RestartAgent(d) PROVE TypeOK' /\ CallsOK'
    <2>1. <<>> \in Seq(Cmds) /\ <<>> \in Seq(Reports) /\ Range(todo[d]) \subseteq Cmds
      BY RangeTyped DEF CallInv, TypeOK
    <2> QED
      BY <1>0, <1>5, <2>1, FleetAssumption
         DEF RestartAgent, server, threads, CallInv, TypeOK, CallsOK, SlotOK, CallOK
  <1> QED
    BY <1>1, <1>2, <1>3, <1>4, <1>5 DEF Fail

LEMMA CallNext == CallInv /\ [Next]_vars => CallInv'
  <1> SUFFICES ASSUME CallInv, [Next]_vars PROVE TypeOK' /\ CallsOK'
    BY EnrollNext DEF CallInv
  <1>1. CASE UNCHANGED vars
    BY <1>1 DEF vars, server, threads, device, ghosts, drops, CallInv, TypeOK, CallsOK, SlotOK, CallOK
  <1>2. ASSUME NEW s \in Slots, Handle(s) PROVE TypeOK' /\ CallsOK'
    BY <1>2, EnrollTypes, ServeTypes, AnswerTypes DEF Handle
  <1>3. ASSUME NEW d \in Devices, Work(d) \/ CheckIn(d) \/ \E k \in Tokens : Pair(d, k)
        PROVE  TypeOK' /\ CallsOK'
    BY <1>3, ExecuteTypes, SendTypes DEF Work
  <1> QED
    BY <1>1, <1>2, <1>3, AdminTypes, FailTypes DEF Next

(* Every table, handler thread and device keeps its type: a thread's stage  *)
(* goes with the kind of its request, an answer carries an id, and a device *)
(* works on envelopes only with the credentials it was given.               *)
THEOREM TypesHold == Spec => []TypeOK
  <1>1. CallInv => TypeOK
    BY DEF CallInv
  <1> QED
    BY CallInit, CallNext, <1>1, PTL DEF Spec

-----------------------------------------------------------------------------
(* One id for each device.                                                 *)

\* A handler thread that is about to answer an enrollment.
Enrolled(s) == stage[s] = "reply" /\ req[s].kind = "enroll"

IdsOK ==
  /\ \A d \in Devices : cred[d] # None => agents[cred[d]] # None
  /\ \A d, e \in Devices : d # e /\ cred[d] # None => cred[d] # cred[e]
  /\ \A s \in Slots : Enrolled(s) =>
       /\ agents[req[s].id] # None
       /\ \A d \in Devices : cred[d] # req[s].id
       /\ \A u \in Slots \ {s} : Enrolled(u) => req[u].id # req[s].id

IdInv == CallInv /\ IdsOK

LEMMA IdsKept ==
  ASSUME IdInv, cred' = cred,
         \A i \in Ids : agents[i] # None => agents'[i] # None,
         \A s \in Slots : Enrolled(s)' => Enrolled(s) /\ req'[s].id = req[s].id
  PROVE  IdsOK'
  <1>1. \A s \in Slots : Enrolled(s) => req[s].id \in Ids
    BY DEF IdInv, CallInv, TypeOK, CallsOK, SlotOK, Enrolled, Request
  <1>2. \A d \in Devices : cred[d] # None => cred[d] \in Ids
    BY DEF IdInv, CallInv, TypeOK
  <1>3. \A d \in Devices : cred[d] # None => agents'[cred[d]] # None
    BY <1>2 DEF IdInv, IdsOK
  <1>4. ASSUME NEW s \in Slots, Enrolled(s)'
        PROVE  /\ agents'[req'[s].id] # None
               /\ \A d \in Devices : cred[d] # req'[s].id
               /\ \A u \in Slots \ {s} : Enrolled(u)' => req'[u].id # req'[s].id
    BY <1>1, <1>4 DEF IdInv, IdsOK
  <1>5. \A d, e \in Devices : d # e /\ cred[d] # None => cred[d] # cred[e]
    BY DEF IdInv, IdsOK
  <1> QED
    BY <1>3, <1>4, <1>5 DEF IdsOK

LEMMA IdInit == Init => IdInv
  BY CallInit DEF Init, IdInv, IdsOK, Enrolled

LEMMA RegisterIds ==
  ASSUME IdInv, NEW s \in Slots, Register(s) PROVE IdsOK'
  <1>0. /\ stage[s] = "register" /\ cred' = cred /\ agents \in [Ids -> AgentRow \cup {None}]
        /\ req \in [Slots -> Request] /\ stage \in [Slots -> Stages]
        /\ cred \in [Devices -> Ids \cup {None}]
    BY DEF Register, device, IdInv, CallInv, TypeOK
  <1>1. ASSUME NEW i \in Ids, NEW a, agents[i] = None, agents' = [agents EXCEPT ![i] = a],
               a # None,
               req' = [req EXCEPT ![s].id = i], Goto(s, "reply")
        PROVE  IdsOK'
    <2>1. /\ \A j \in Ids : agents[j] # None => agents'[j] # None
          /\ agents'[i] # None
      BY <1>0, <1>1
    <2>2. \A u \in Slots \ {s} : /\ req'[u] = req[u] /\ stage'[u] = stage[u]
                                 /\ Enrolled(u)' <=> Enrolled(u)
      BY <1>0, <1>1 DEF Goto, Enrolled
    <2>3. req'[s].id = i
      BY <1>0, <1>1 DEF Request
    <2>4. \A u \in Slots \ {s} : Enrolled(u) =>
            /\ agents[req[u].id] # None /\ req[u].id \in Ids
            /\ \A d \in Devices : cred[d] # req[u].id
            /\ \A v \in Slots \ {u} : Enrolled(v) => req[v].id # req[u].id
      BY DEF IdInv, CallInv, TypeOK, CallsOK, SlotOK, Request, IdsOK, Enrolled
    <2>5. \A d \in Devices : cred[d] # None => agents[cred[d]] # None /\ cred[d] \in Ids
      BY <1>0 DEF IdInv, IdsOK
    <2>6. \A d \in Devices : cred[d] # i
      BY <1>1, <2>5, FleetAssumption
    <2>7. \A u \in Slots \ {s} : Enrolled(u) => req[u].id # i
      BY <1>1, <2>4
    <2>8. \A d, e \in Devices : d # e /\ cred[d] # None => cred[d] # cred[e]
      BY DEF IdInv, IdsOK
    <2> QED
      BY <1>0, <2>1, <2>2, <2>3, <2>4, <2>5, <2>6, <2>7, <2>8 DEF IdsOK
  <1>2. CASE UNCHANGED <<agents, req>> /\ Goto(s, "deny")
    <2>1. \A u \in Slots : Enrolled(u)' => Enrolled(u) /\ req'[u].id = req[u].id
      BY <1>0, <1>2 DEF Goto, Enrolled
    <2> QED
      BY <1>0, <1>2, <2>1, IdsKept
  <1>3. [name |-> pairing[req[s].token].name, token |-> req[s].token, revoked |-> FALSE] # None
    <2>1. req[s].token \in Tokens /\ pairing[req[s].token] \in TokenRow
      BY <1>0 DEF IdInv, CallInv, EnrollInv, RecordsOK, Used
    <2>2. pairing[req[s].token].name \in Names
      BY <2>1 DEF TokenRow
    <2>3. [name |-> pairing[req[s].token].name, token |-> req[s].token, revoked |-> FALSE]
             \in [name : Names, token : Tokens, revoked : BOOLEAN]
      BY <2>1, <2>2
    <2> QED
      BY <2>3, FleetAssumption
  <1> QED
    BY <1>1, <1>2, <1>3 DEF Register

LEMMA EnrolledIds ==
  ASSUME IdInv, NEW s \in Slots, AnswerEnroll(s) PROVE IdsOK'
  <1>1. /\ Enrolled(s) /\ agents' = agents
        /\ cred' = [d \in Devices |-> IF d \in Waiting(s) THEN req[s].id ELSE cred[d]]
        /\ stage' = [stage EXCEPT ![s] = "free"] /\ req' = [req EXCEPT ![s] = NoRequest]
        /\ req \in [Slots -> Request] /\ stage \in [Slots -> Stages]
    BY DEF AnswerEnroll, Finish, Enrolled, server, IdInv, CallInv, TypeOK
  <1>2. \A d, e \in Waiting(s) : d = e
    BY DEF Waiting, IdInv, CallInv, CallsOK, CallOK
  <1>3. \A u \in Slots : Enrolled(u)' => u # s /\ Enrolled(u) /\ req'[u] = req[u]
    BY <1>1 DEF Enrolled
  <1>4. /\ agents[req[s].id] # None
        /\ \A d \in Devices : cred[d] # req[s].id
        /\ \A u \in Slots \ {s} : Enrolled(u) => req[u].id # req[s].id
    BY <1>1 DEF IdInv, IdsOK
  <1>5. \A d \in Devices : cred'[d] = cred[d] \/ (d \in Waiting(s) /\ cred'[d] = req[s].id)
    BY <1>1
  <1>6. \A d \in Devices : cred'[d] # None => agents'[cred'[d]] # None
    BY <1>1, <1>4, <1>5 DEF IdInv, IdsOK
  <1>7. \A d, e \in Devices : d # e /\ cred'[d] # None => cred'[d] # cred'[e]
    BY <1>2, <1>4, <1>5 DEF IdInv, IdsOK
  <1>8. \A u \in Slots : Enrolled(u)' =>
          /\ agents'[req'[u].id] # None
          /\ \A d \in Devices : cred'[d] # req'[u].id
          /\ \A v \in Slots \ {u} : Enrolled(v)' => req'[v].id # req'[u].id
    BY <1>1, <1>3, <1>4, <1>5 DEF IdInv, IdsOK
  <1> QED
    BY <1>6, <1>7, <1>8 DEF IdsOK

\* What a device does to the handler threads when it sends a request.
Sends(d, s, r) ==
  /\ stage[s] = "free" /\ stage' = [stage EXCEPT ![s] = r.kind]
  /\ req' = [req EXCEPT ![s] = r] /\ call' = [call EXCEPT ![d] = s]
  /\ lock' = lock /\ rows' = rows

LEMMA SendSteps ==
  ASSUME NEW d \in Devices, SubmitResult(d) \/ CheckIn(d) \/ \E k \in Tokens : Pair(d, k)
  PROVE  \E s \in Slots : \E r :
           /\ Sends(d, s, r) /\ r.kind \in {"enroll", "checkin", "result"}
           /\ SubmitResult(d) => r.kind = "result" /\ r.id = cred[d] /\ r.cmd = Head(todo[d])
           /\ ~SubmitResult(d) => r.kind # "result"
  <1>1. ASSUME NEW r, Send(d, r) PROVE \E s \in Slots : Sends(d, s, r)
    BY <1>1 DEF Send, Sends, Goto
  <1>2. CASE SubmitResult(d)
    <2> DEFINE r == [NoRequest EXCEPT !.kind = "result", !.dev = d, !.id = cred[d],
                                      !.cmd = Head(todo[d])]
    <2>1. Send(d, r)
      BY <1>2 DEF SubmitResult
    <2>2. r.kind = "result" /\ r.id = cred[d] /\ r.cmd = Head(todo[d])
      BY SentFields
    <2> HIDE DEF r
    <2> QED
      BY <1>1, <1>2, <2>1, <2>2
  <1>3. CASE CheckIn(d) /\ ~SubmitResult(d)
    <2> DEFINE r == [NoRequest EXCEPT !.kind = "checkin", !.dev = d, !.id = cred[d],
                                      !.batch = Take(outbox[d], ReportBatch)]
    <2>1. Send(d, r)
      BY <1>3 DEF CheckIn
    <2>2. r.kind = "checkin"
      BY SentFields
    <2> HIDE DEF r
    <2> QED
      BY <1>1, <1>3, <2>1, <2>2
  <1>4. ASSUME NEW k \in Tokens, Pair(d, k), ~SubmitResult(d)
        PROVE  \E s \in Slots : \E r : Sends(d, s, r) /\ r.kind = "enroll"
    <2> DEFINE r == [NoRequest EXCEPT !.kind = "enroll", !.dev = d, !.token = k]
    <2>1. Send(d, r)
      BY <1>4 DEF Pair
    <2>2. r.kind = "enroll"
      BY SentFields
    <2> HIDE DEF r
    <2> QED
      BY <1>1, <2>1, <2>2
  <1> QED
    BY <1>2, <1>3, <1>4

LEMMA IdNext == IdInv /\ [Next]_vars => IdInv'
  <1> SUFFICES ASSUME IdInv, [Next]_vars PROVE IdsOK'
    BY CallNext DEF IdInv
  <1>0. /\ req \in [Slots -> Request] /\ stage \in [Slots -> Stages]
        /\ agents \in [Ids -> AgentRow \cup {None}] /\ \A s \in Slots : SlotOK(s)
    BY DEF IdInv, CallInv, TypeOK, CallsOK
  <1>1. CASE UNCHANGED <<agents, cred, stage, req>>
    BY <1>1, IdsKept DEF Enrolled
  <1>2. ASSUME Admin PROVE IdsOK'
    <2>1. cred' = cred /\ stage' = stage /\ req' = req
      BY <1>2 DEF Admin, IssueToken, ExpireToken, Revoke, QueueCommand, ExpireCommand,
                  threads, device
    <2>2. \A i \in Ids : agents[i] # None => agents'[i] # None
      <3>1. ASSUME NEW n \in Names, Revoke(n) PROVE \A i \in Ids : agents[i] # None
                     => agents'[i] # None
        <4>1. PICK j \in Ids : agents[j] # None /\ agents' = [agents EXCEPT ![j].revoked = TRUE]
          BY <3>1 DEF Revoke
        <4>2. agents[j] \in AgentRow /\ [agents[j] EXCEPT !.revoked = TRUE] \in AgentRow
          BY <1>0, <4>1 DEF AgentRow
        <4>3. agents' = [agents EXCEPT ![j] = [agents[j] EXCEPT !.revoked = TRUE]]
          BY <4>1
        <4> QED
          BY <1>0, <4>2, <4>3, FleetAssumption DEF AgentRow
      <3> QED
        BY <1>2, <3>1 DEF Admin, IssueToken, ExpireToken, QueueCommand, ExpireCommand, server
    <2> QED
      BY <2>1, <2>2, IdsKept DEF Enrolled
  <1>3. ASSUME NEW s \in Slots,
               \/ ConsumePairing(s) \/ Authenticate(s) \/ AddDetections(s) \/ SelectPending(s)
               \/ MarkDispatched(s) \/ StoreResult(s)
        PROVE  IdsOK'
    <2>1. /\ agents' = agents /\ cred' = cred /\ req' = req
          /\ \E l : Goto(s, l) /\ (l = "reply" => req[s].kind # "enroll")
      BY <1>0, <1>3 DEF ConsumePairing, Authenticate, AddDetections, SelectPending,
                        MarkDispatched, StoreResult, server, device, SlotOK
    <2>2. \A u \in Slots : Enrolled(u)' => Enrolled(u)
      BY <1>0, <2>1 DEF Goto, Enrolled
    <2> QED
      BY <2>1, <2>2, IdsKept
  <1>4. ASSUME NEW s \in Slots, AnswerCheckin(s) \/ AnswerResult(s) \/ AnswerDenied(s)
        PROVE  IdsOK'
    <2>1. agents' = agents /\ cred' = cred /\ Finish(s)
      BY <1>4 DEF AnswerCheckin, AnswerResult, AnswerDenied, server
    <2>2. \A u \in Slots : Enrolled(u)' => Enrolled(u) /\ req'[u].id = req[u].id
      BY <1>0, <2>1 DEF Finish, Enrolled, NoRequest
    <2> QED
      BY <2>1, <2>2, IdsKept
  <1>5. ASSUME NEW s \in Slots, Handle(s) PROVE IdsOK'
    BY <1>3, <1>4, <1>5, RegisterIds, EnrolledIds DEF Handle
  <1>6. ASSUME NEW d \in Devices, SubmitResult(d) \/ CheckIn(d) \/ \E k \in Tokens : Pair(d, k)
        PROVE  IdsOK'
    <2>1. agents' = agents /\ cred' = cred
      BY <1>6 DEF SubmitResult, CheckIn, Pair, server
    <2>2. PICK s \in Slots : \E r :
            /\ stage' = [stage EXCEPT ![s] = r.kind] /\ req' = [req EXCEPT ![s] = r]
            /\ r.kind \in {"enroll", "checkin", "result"}
      BY <1>6, SendSteps DEF Sends
    <2>3. \A u \in Slots : Enrolled(u)' => Enrolled(u) /\ req'[u].id = req[u].id
      BY <1>0, <2>2 DEF Enrolled
    <2> QED
      BY <2>1, <2>3, IdsKept
  <1>7. ASSUME NEW d \in Devices, Execute(d) PROVE IdsOK'
    BY <1>1, <1>7 DEF Execute, server, threads
  <1>8. ASSUME Fail PROVE IdsOK'
    <2>1. agents' = agents /\ cred' = cred
      BY <1>8 DEF Fail, GiveUp, LoseCheckin, LoseResult, RestartAgent, RestartServer, server
    <2>2. \A u \in Slots : Enrolled(u)' => Enrolled(u) /\ req'[u].id = req[u].id
      BY <1>0, <1>8 DEF Fail, GiveUp, LoseCheckin, LoseResult, RestartAgent, RestartServer,
                        threads, Enrolled
    <2> QED
      BY <2>1, <2>2, IdsKept
  <1>9. CASE UNCHANGED vars
    BY <1>1, <1>9 DEF vars, server, threads, device
  <1> QED
    BY <1>2, <1>5, <1>6, <1>7, <1>8, <1>9 DEF Next, Work

-----------------------------------------------------------------------------
(* The queue.                                                              *)

Handled(c) == status[c] \in {"dispatched", "done"}

\* The rows of a device are handed out oldest first.
QueueOK ==
  /\ \A x, y \in DOMAIN queue : x # y => queue[x] # queue[y]
  /\ \A c \in Cmds : status[c] # "none" <=> \E x \in DOMAIN queue : queue[x] = c
  /\ \A c \in Cmds : status[c] = "none" => addressee[c] = None
  /\ \A x, y \in DOMAIN queue :
       /\ x < y /\ addressee[queue[x]] = addressee[queue[y]]
       /\ status[queue[x]] = "pending"
       => status[queue[y]] = "pending"

RowsOK(s) ==
  /\ stage[s] = "mark" => lock = s
  /\ req[s].kind = "result" => Handled(req[s].cmd)
  /\ \A n \in DOMAIN rows[s] :
       /\ addressee[rows[s][n]] = req[s].id
       /\ stage[s] = "mark" => status[rows[s][n]] = "pending"
       /\ stage[s] # "mark" => Handled(rows[s][n])
  /\ \A m, n \in DOMAIN rows[s] : m < n => Precedes(queue, rows[s][m], rows[s][n])

TodoKnown(d) ==
  \A n \in DOMAIN todo[d] : addressee[todo[d][n]] = cred[d] /\ Handled(todo[d][n])

TableInv ==
  /\ IdInv /\ QueueOK
  /\ \A s \in Slots : RowsOK(s)
  /\ \A d \in Devices : TodoKnown(d)

\* What no step undoes.
Grow ==
  /\ \A c \in Cmds : Handled(c) => Handled(c)'
  /\ \A c \in Cmds : status[c] # "none" => status'[c] # "none" /\ addressee'[c] = addressee[c]
  /\ \A a, b : Precedes(queue, a, b) => Precedes(queue', a, b)

LEMMA TableInit == Init => TableInv
  BY IdInit DEF Init, TableInv, QueueOK, RowsOK, TodoKnown, NoRequest

LEMMA QueueGrows ==
  ASSUME TableInv, NEW i \in Ids, NEW c \in Cmds, QueueCommand(i, c)
  PROVE  Grow /\ QueueOK' /\ \A e \in Cmds : status[e] # "none" => status'[e] = status[e]
  <1>1. /\ queue \in Seq(Cmds) /\ status[c] = "none" /\ queue' = Append(queue, c)
        /\ addressee' = [addressee EXCEPT ![c] = i] /\ status' = [status EXCEPT ![c] = "pending"]
        /\ addressee \in [Cmds -> Ids \cup {None}]
        /\ status \in [Cmds -> {"none", "pending", "dispatched", "done"}]
    BY DEF QueueCommand, TableInv, IdInv, CallInv, TypeOK
  <1>2. /\ DOMAIN queue = 1..Len(queue) /\ DOMAIN queue' = 1..(Len(queue) + 1)
        /\ Len(queue) \in Nat
        /\ \A x \in 1..Len(queue) : queue'[x] = queue[x] /\ queue[x] \in Cmds
        /\ queue'[Len(queue) + 1] = c
    BY <1>1
  <1>3. \A x \in DOMAIN queue : queue[x] # c
    BY <1>1 DEF TableInv, QueueOK
  <1>4. Grow
    BY <1>1, <1>2 DEF Grow, Handled, Precedes
  <1>5. QueueOK'
    <2>1. \A x, y \in DOMAIN queue' : x # y => queue'[x] # queue'[y]
      BY <1>2, <1>3 DEF TableInv, QueueOK
    <2>2. \A e \in Cmds : status'[e] # "none" <=> \E x \in DOMAIN queue' : queue'[x] = e
      <3>1. ASSUME NEW e \in Cmds
            PROVE status'[e] # "none" <=> \E x \in DOMAIN queue' : queue'[x] = e
        <4>1. CASE e = c
          BY <1>1, <1>2, <4>1
        <4>2. CASE e # c
          <5>1. status[e] # "none" <=> \E x \in DOMAIN queue : queue[x] = e
            BY DEF TableInv, QueueOK
          <5> QED
            BY <1>1, <1>2, <4>2, <5>1
        <4> QED
          BY <4>1, <4>2
      <3> QED
        BY <3>1
    <2>3. \A e \in Cmds : status'[e] = "none" => addressee'[e] = None
      BY <1>1 DEF TableInv, QueueOK
    <2>4. ASSUME NEW x \in DOMAIN queue', NEW y \in DOMAIN queue', x < y,
                 addressee'[queue'[x]] = addressee'[queue'[y]], status'[queue'[x]] = "pending"
          PROVE  status'[queue'[y]] = "pending"
      <3>1. CASE y = Len(queue) + 1
        BY <1>1, <1>2, <3>1
      <3>2. CASE y \in DOMAIN queue
        <4>1. x \in DOMAIN queue /\ queue'[x] = queue[x] /\ queue'[y] = queue[y]
          BY <1>2, <2>4, <3>2
        <4>2. /\ status'[queue[x]] = status[queue[x]] /\ status'[queue[y]] = status[queue[y]]
              /\ addressee'[queue[x]] = addressee[queue[x]]
              /\ addressee'[queue[y]] = addressee[queue[y]]
          BY <1>1, <1>2, <1>3, <3>2, <4>1
        <4> QED
          BY <2>4, <3>2, <4>1, <4>2 DEF TableInv, QueueOK
      <3> QED
        BY <1>2, <3>1, <3>2
    <2> QED
      BY <2>1, <2>2, <2>3, <2>4 DEF QueueOK
  <1> QED
    BY <1>1, <1>4, <1>5

\* A step that only changes the status of some rows.
LEMMA StatusGrows ==
  ASSUME TableInv, queue' = queue, addressee' = addressee,
         status' \in [Cmds -> {"none", "pending", "dispatched", "done"}],
         \A c \in Cmds : \/ status'[c] = status[c]
                         \/ Handled(c) /\ Handled(c)'
                         \/ /\ status[c] = "pending" /\ Handled(c)'
                            /\ \A e \in Cmds : addressee[e] = addressee[c] /\ status[e] = "pending"
                                 => Handled(e)'
  PROVE  Grow /\ QueueOK'
  <1>1. Grow
    BY DEF Grow, Handled
  <1>2. \A x \in DOMAIN queue : queue[x] \in Cmds
    BY DEF TableInv, IdInv, CallInv, TypeOK
  <1>3. ASSUME NEW x \in DOMAIN queue, NEW y \in DOMAIN queue, x < y,
               addressee[queue[x]] = addressee[queue[y]], status'[queue[x]] = "pending"
        PROVE  status'[queue[y]] = "pending"
    <2>1. status[queue[x]] = "pending"
      BY <1>2, <1>3 DEF Handled
    <2>2. status[queue[y]] = "pending"
      BY <1>3, <2>1 DEF TableInv, QueueOK
    <2> QED
      BY <1>2, <1>3, <2>1, <2>2 DEF Handled
  <1>4. \A c \in Cmds : status'[c] = "none" <=> status[c] = "none"
    BY DEF Handled
  <1> QED
    BY <1>1, <1>3, <1>4 DEF TableInv, QueueOK

LEMMA MarkGrows ==
  ASSUME TableInv, NEW s \in Slots, MarkDispatched(s)
  PROVE  /\ Grow /\ QueueOK'
         /\ \A n \in DOMAIN rows[s] : Handled(rows[s][n])'
  <1>1. /\ stage[s] = "mark" /\ queue' = queue /\ addressee' = addressee /\ rows' = rows
        /\ status' = [c \in Cmds |->
                  IF /\ rows[s] # <<>>
                     /\ addressee[c] = req[s].id /\ status[c] = "pending"
                  THEN "dispatched" ELSE status[c]]
        /\ status \in [Cmds -> {"none", "pending", "dispatched", "done"}]
        /\ rows[s] \in Seq(Cmds)
    BY DEF MarkDispatched, TableInv, IdInv, CallInv, TypeOK
  <1>2. Grow /\ QueueOK'
    BY <1>1, StatusGrows DEF Handled
  <1>3. ASSUME NEW n \in DOMAIN rows[s] PROVE Handled(rows[s][n])'
    <2>1. rows[s] # <<>> /\ rows[s][n] \in Cmds
      BY <1>1, <1>3
    <2>2. addressee[rows[s][n]] = req[s].id /\ status[rows[s][n]] = "pending"
      BY <1>1, <1>3 DEF TableInv, RowsOK
    <2>3. \A c \in Cmds : addressee[c] = req[s].id /\ status[c] = "pending"
                         => status'[c] = "dispatched"
      BY <1>1, <2>1
    <2> QED
      BY <1>1, <2>1, <2>2, <2>3 DEF Handled
  <1> QED
    BY <1>2, <1>3

LEMMA StoreGrows ==
  ASSUME TableInv, NEW s \in Slots, StoreResult(s)
  PROVE  Grow /\ QueueOK'
  <1>1. /\ stage[s] = "store" /\ queue' = queue /\ addressee' = addressee
        /\ status \in [Cmds -> {"none", "pending", "dispatched", "done"}]
        /\ status' = [status EXCEPT ![req[s].cmd] =
                  IF addressee[req[s].cmd] = req[s].id THEN "done" ELSE status[req[s].cmd]]
    BY DEF StoreResult, TableInv, IdInv, CallInv, TypeOK
  <1>2. Handled(req[s].cmd)
    BY <1>1 DEF TableInv, RowsOK, IdInv, CallInv, CallsOK, SlotOK
  <1> QED
    BY <1>1, <1>2, StatusGrows DEF Handled

LEMMA RowsKept ==
  ASSUME TableInv, Grow, NEW s \in Slots, rows'[s] = rows[s],
         req'[s].kind = req[s].kind, req'[s].cmd = req[s].cmd,
         rows[s] # <<>> => req'[s].id = req[s].id,
         stage'[s] = "mark" <=> stage[s] = "mark",
         stage[s] = "mark" =>
           lock' = lock /\ \A c \in Cmds : status[c] = "pending" => status'[c] = "pending"
  PROVE  RowsOK(s)'
  <1>1. /\ rows[s] \in Seq(Cmds) /\ RowsOK(s)
        /\ req[s].kind = "result" => req[s].cmd \in Cmds
    BY DEF TableInv, IdInv, CallInv, TypeOK, CallsOK, SlotOK, Request
  <1>2. \A n \in DOMAIN rows[s] : rows[s][n] \in Cmds /\ rows[s] # <<>>
    BY <1>1
  <1>3. \A c \in Cmds : status[c] = "pending" \/ Handled(c) => addressee'[c] = addressee[c]
    BY DEF Grow, Handled
  <1>4. \A n \in DOMAIN rows[s] :
          /\ addressee'[rows[s][n]] = req'[s].id
          /\ stage'[s] = "mark" => status'[rows[s][n]] = "pending"
          /\ stage'[s] # "mark"
               => Handled(rows[s][n]) /\ status'[rows[s][n]] \in {"dispatched", "done"}
    BY <1>1, <1>2, <1>3 DEF RowsOK, Grow, Handled
  <1> QED
    BY <1>1, <1>4 DEF RowsOK, Grow, Handled

LEMMA TodoKept ==
  ASSUME TableInv, Grow, NEW d \in Devices,
         todo'[d] \in {todo[d], <<>>} \/ (todo[d] # <<>> /\ todo'[d] = Tail(todo[d])),
         cred'[d] = cred[d] \/ todo'[d] = <<>>
  PROVE  TodoKnown(d)'
  <1>1. todo[d] \in Seq(Cmds) /\ TodoKnown(d)
    BY DEF TableInv, IdInv, CallInv, TypeOK
  <1>2. \A n \in DOMAIN todo'[d] : \E m \in DOMAIN todo[d] : todo'[d][n] = todo[d][m]
    <2>1. CASE todo[d] # <<>> /\ todo'[d] = Tail(todo[d])
      <3>1. \A n \in DOMAIN Tail(todo[d]) : n + 1 \in DOMAIN todo[d] /\ Tail(todo[d])[n] = todo[d][n + 1]
        BY <1>1, <2>1
      <3> QED
        BY <2>1, <3>1
    <2>2. CASE todo'[d] \in {todo[d], <<>>}
      BY <2>2
    <2> QED
      BY <2>1, <2>2
  <1>3. \A m \in DOMAIN todo[d] : todo[d][m] \in Cmds
    BY <1>1
  <1>4. \A n \in DOMAIN todo'[d] : cred'[d] = cred[d]
    OBVIOUS
  <1> QED
    BY <1>1, <1>2, <1>3, <1>4 DEF TodoKnown, Grow, Handled

LEMMA SameGrows ==
  ASSUME TableInv, UNCHANGED <<queue, addressee, status>> PROVE Grow /\ QueueOK'
  BY DEF TableInv, QueueOK, Grow, Handled

LEMMA AdminTable ==
  ASSUME TableInv, Admin
  PROVE  Grow /\ QueueOK' /\ (\A s \in Slots : RowsOK(s)') /\ (\A d \in Devices : TodoKnown(d)')
  <1>1. threads' = threads /\ device' = device
    BY DEF Admin, IssueToken, ExpireToken, Revoke, QueueCommand, ExpireCommand
  <1>2. ASSUME Grow, \A c \in Cmds : status[c] = "pending" => status'[c] = "pending"
        PROVE  (\A s \in Slots : RowsOK(s)') /\ (\A d \in Devices : TodoKnown(d)')
    BY <1>1, <1>2, RowsKept, TodoKept DEF threads, device
  <1>3. ASSUME NEW i \in Ids, NEW c \in Cmds, QueueCommand(i, c)
        PROVE  Grow /\ QueueOK' /\ \A e \in Cmds : status[e] = "pending" => status'[e] = "pending"
    BY <1>3, QueueGrows
  <1>4. CASE UNCHANGED <<queue, addressee, status>>
    BY <1>2, <1>4, SameGrows
  <1>5. \/ UNCHANGED <<queue, addressee, status>>
        \/ \E i \in Ids, c \in Cmds : QueueCommand(i, c)
    BY DEF Admin, IssueToken, ExpireToken, Revoke, ExpireCommand, server
  <1> QED
    BY <1>2, <1>3, <1>4, <1>5

LEMMA ServeTable ==
  ASSUME TableInv, NEW s \in Slots,
         \/ ConsumePairing(s) \/ Register(s) \/ Authenticate(s) \/ AddDetections(s)
         \/ SelectPending(s) \/ MarkDispatched(s) \/ StoreResult(s)
  PROVE  Grow /\ QueueOK' /\ (\A u \in Slots : RowsOK(u)') /\ (\A d \in Devices : TodoKnown(d)')
  <1>0. /\ req \in [Slots -> Request] /\ stage \in [Slots -> Stages] /\ rows \in [Slots -> Seq(Cmds)]
        /\ SlotOK(s) /\ device' = device
    BY DEF TableInv, IdInv, CallInv, CallsOK, TypeOK, ConsumePairing, Register, Authenticate,
           AddDetections, SelectPending, MarkDispatched, StoreResult
  <1>1. Grow => \A d \in Devices : TodoKnown(d)'
    BY <1>0, TodoKept DEF device
  <1>2. CASE ConsumePairing(s) \/ Register(s) \/ Authenticate(s) \/ AddDetections(s)
    <2>1. UNCHANGED <<queue, addressee, status, rows, lock>> /\ rows[s] = <<>>
      BY <1>0, <1>2 DEF ConsumePairing, Register, Authenticate, AddDetections, server, SlotOK
    <2>2. \A u \in Slots :
            /\ req'[u].kind = req[u].kind /\ req'[u].cmd = req[u].cmd
            /\ rows[u] # <<>> => req'[u].id = req[u].id
            /\ stage'[u] = "mark" <=> stage[u] = "mark"
      <3>1. \/ req' = req
            \/ \E i \in Ids : req' = [req EXCEPT ![s].id = i]
        BY <1>2 DEF ConsumePairing, Register, Authenticate, AddDetections
      <3>2. \A u \in Slots :
              /\ req'[u].kind = req[u].kind /\ req'[u].cmd = req[u].cmd
              /\ rows[u] # <<>> => req'[u].id = req[u].id
        <4>1. CASE req' = req
          BY <4>1
        <4>2. ASSUME NEW i \in Ids, req' = [req EXCEPT ![s].id = i], NEW u \in Slots
              PROVE  /\ req'[u].kind = req[u].kind /\ req'[u].cmd = req[u].cmd
                     /\ u # s => req'[u].id = req[u].id
          <5>1. req[s] \in Request /\ req' = [req EXCEPT ![s] = [req[s] EXCEPT !.id = i]]
            BY <1>0, <4>2
          <5>2. [req[s] EXCEPT !.id = i].kind = req[s].kind /\ [req[s] EXCEPT !.id = i].cmd = req[s].cmd
            BY <5>1 DEF Request
          <5> QED
            BY <1>0, <5>1, <5>2
        <4> QED
          BY <2>1, <3>1, <4>1, <4>2
      <3>3. stage[s] # "mark" /\ \E l : Goto(s, l) /\ l # "mark"
        BY <1>2 DEF ConsumePairing, Register, Authenticate, AddDetections
      <3> QED
        BY <1>0, <3>2, <3>3 DEF Goto
    <2> QED
      BY <1>1, <2>1, <2>2, SameGrows, RowsKept
  <1>3. CASE SelectPending(s)
    <2>1. /\ UNCHANGED <<queue, addressee, status, req>> /\ lock = None /\ lock' = s
          /\ stage[s] = "select" /\ stage' = [stage EXCEPT ![s] = "mark"]
          /\ rows' = [rows EXCEPT ![s] = PendingOf(req[s].id)]
      BY <1>3 DEF SelectPending, StoreFree, server, Goto
    <2>2. Grow /\ QueueOK'
      BY <2>1, SameGrows
    <2>3. ASSUME NEW u \in Slots \ {s} PROVE RowsOK(u)'
      <3>1. stage[u] # "mark"
        BY <2>1, FleetAssumption DEF TableInv, RowsOK
      <3> QED
        BY <1>0, <2>1, <2>2, <3>1, RowsKept
    <2>4. RowsOK(s)'
      <3>1. req[s].id \in Ids /\ req[s].kind = "checkin"
        BY <1>0, <2>1 DEF SlotOK, Request
      <3>2. rows'[s] = PendingOf(req[s].id) /\ stage'[s] = "mark"
        BY <1>0, <2>1
      <3>3. TypeOK
        BY DEF TableInv, IdInv, CallInv
      <3> QED
        BY <2>1, <3>1, <3>2, <3>3, PendingRows DEF RowsOK
    <2> QED
      BY <1>1, <2>2, <2>3, <2>4
  <1>4. CASE MarkDispatched(s)
    <2>1. /\ rows' = rows /\ req' = req /\ stage[s] = "mark" /\ stage' = [stage EXCEPT ![s] = "reply"]
      BY <1>4 DEF MarkDispatched, Goto
    <2>2. Grow /\ QueueOK' /\ \A n \in DOMAIN rows[s] : Handled(rows[s][n])'
      BY <1>4, MarkGrows
    <2>3. ASSUME NEW u \in Slots \ {s} PROVE RowsOK(u)'
      <3>1. stage[u] # "mark"
        BY <2>1 DEF TableInv, RowsOK
      <3> QED
        BY <1>0, <2>1, <2>2, <3>1, RowsKept
    <2>4. RowsOK(s)'
      <3>1. stage'[s] = "reply" /\ req'[s].kind # "result"
        BY <1>0, <2>1 DEF SlotOK
      <3>2. RowsOK(s) /\ queue' = queue /\ addressee' = addressee
        BY <1>4 DEF TableInv, MarkDispatched
      <3> QED
        BY <2>1, <2>2, <3>1, <3>2 DEF RowsOK
    <2> QED
      BY <1>1, <2>2, <2>3, <2>4
  <1>5. CASE StoreResult(s)
    <2>1. /\ rows' = rows /\ req' = req /\ stage[s] = "store" /\ stage' = [stage EXCEPT ![s] = "reply"]
          /\ lock = None
      BY <1>5 DEF StoreResult, StoreFree, Goto
    <2>2. Grow /\ QueueOK'
      BY <1>5, StoreGrows
    <2>3. ASSUME NEW u \in Slots PROVE RowsOK(u)'
      <3>1. stage[u] # "mark"
        BY <2>1, FleetAssumption DEF TableInv, RowsOK
      <3> QED
        BY <1>0, <2>1, <2>2, <3>1, RowsKept
    <2> QED
      BY <1>1, <2>2, <2>3
  <1> QED
    BY <1>2, <1>3, <1>4, <1>5

LEMMA AnswerTable ==
  ASSUME TableInv, NEW s \in Slots,
         AnswerEnroll(s) \/ AnswerCheckin(s) \/ AnswerResult(s) \/ AnswerDenied(s)
  PROVE  Grow /\ QueueOK' /\ (\A u \in Slots : RowsOK(u)') /\ (\A d \in Devices : TodoKnown(d)')
  <1>0. /\ UNCHANGED <<queue, addressee, status, lock>> /\ Finish(s)
        /\ req \in [Slots -> Request] /\ stage \in [Slots -> Stages] /\ rows \in [Slots -> Seq(Cmds)]
        /\ todo \in [Devices -> Seq(Cmds)] /\ cred \in [Devices -> Ids \cup {None}]
    BY DEF TableInv, IdInv, CallInv, TypeOK, AnswerEnroll, AnswerCheckin, AnswerResult,
           AnswerDenied, server
  <1>1. Grow /\ QueueOK'
    BY <1>0, SameGrows
  <1>2. ASSUME NEW u \in Slots PROVE RowsOK(u)'
    <2>1. CASE u = s
      BY <1>0, <2>1 DEF Finish, RowsOK, NoRequest
    <2>2. CASE u # s
      BY <1>0, <1>1, <2>2, RowsKept DEF Finish
    <2> QED
      BY <2>1, <2>2
  <1>3. ASSUME NEW d \in Devices PROVE TodoKnown(d)'
    <2>1. CASE AnswerEnroll(s)
      <3>1. todo' = todo /\ cred'[d] = IF d \in Waiting(s) THEN req[s].id ELSE cred[d]
        BY <2>1 DEF AnswerEnroll
      <3>2. d \in Waiting(s) => todo[d] = <<>>
        BY <2>1 DEF AnswerEnroll, Waiting, TableInv, IdInv, CallInv, CallsOK, CallOK
      <3> QED
        BY <1>1, <3>1, <3>2, TodoKept
    <2>2. CASE AnswerCheckin(s) /\ d \in Waiting(s)
      <3>1. /\ todo'[d] = Take(rows[s], MaxHandled) /\ cred' = cred
            /\ stage[s] = "reply" /\ req[s].kind = "checkin"
        BY <2>2 DEF AnswerCheckin
      <3>2. call[d] = s /\ req[s].id = cred[d]
        BY <2>2, <3>1 DEF Waiting, TableInv, IdInv, CallInv, CallsOK, CallOK
      <3>3. \A n \in DOMAIN Take(rows[s], MaxHandled) :
              n \in DOMAIN rows[s] /\ Take(rows[s], MaxHandled)[n] = rows[s][n]
        BY <1>0, FleetAssumption DEF Take
      <3>4. \A n \in DOMAIN rows[s] : addressee[rows[s][n]] = cred[d] /\ Handled(rows[s][n])
        BY <3>1, <3>2 DEF TableInv, RowsOK
      <3> QED
        BY <1>0, <3>1, <3>3, <3>4 DEF TodoKnown, Handled
    <2>3. CASE AnswerResult(s) \/ AnswerDenied(s) \/ (AnswerCheckin(s) /\ d \notin Waiting(s))
      <3>1. todo'[d] = todo[d] /\ cred' = cred
        BY <2>3 DEF AnswerResult, AnswerDenied, AnswerCheckin
      <3> QED
        BY <1>1, <3>1, TodoKept
    <2> QED
      BY <2>1, <2>2, <2>3
  <1> QED
    BY <1>1, <1>2, <1>3

LEMMA DeviceTable ==
  ASSUME TableInv, NEW d \in Devices, Work(d) \/ CheckIn(d) \/ \E k \in Tokens : Pair(d, k)
  PROVE  Grow /\ QueueOK' /\ (\A u \in Slots : RowsOK(u)') /\ (\A e \in Devices : TodoKnown(e)')
  <1>0. /\ UNCHANGED <<queue, addressee, status, cred>>
        /\ req \in [Slots -> Request] /\ stage \in [Slots -> Stages] /\ rows \in [Slots -> Seq(Cmds)]
        /\ todo \in [Devices -> Seq(Cmds)] /\ CallOK(d)
    BY DEF TableInv, IdInv, CallInv, CallsOK, TypeOK, Work, Execute, SubmitResult, CheckIn,
           Pair, server
  <1>1. Grow /\ QueueOK'
    BY <1>0, SameGrows
  <1>2. CASE Execute(d)
    <2>1. threads' = threads /\ todo' = todo
      BY <1>2 DEF Execute
    <2> QED
      BY <1>0, <1>1, <2>1, RowsKept, TodoKept DEF threads
  <1>3. CASE SubmitResult(d) \/ CheckIn(d) \/ \E k \in Tokens : Pair(d, k)
    <2>1. PICK s \in Slots : \E r :
           /\ Sends(d, s, r) /\ r.kind \in {"enroll", "checkin", "result"}
           /\ SubmitResult(d) => r.kind = "result" /\ r.id = cred[d] /\ r.cmd = Head(todo[d])
           /\ ~SubmitResult(d) => r.kind # "result"
      BY <1>3, SendSteps
    <2>2. PICK r :
           /\ Sends(d, s, r) /\ r.kind \in {"enroll", "checkin", "result"}
           /\ SubmitResult(d) => r.kind = "result" /\ r.id = cred[d] /\ r.cmd = Head(todo[d])
           /\ ~SubmitResult(d) => r.kind # "result"
      BY <2>1
    <2>3. ASSUME NEW u \in Slots \ {s} PROVE RowsOK(u)'
      BY <1>0, <1>1, <2>2, <2>3, RowsKept DEF Sends
    <2>4. RowsOK(s)'
      <3>1. rows'[s] = <<>> /\ stage'[s] # "mark" /\ req'[s] = r
        BY <1>0, <2>2 DEF Sends, TableInv, IdInv, CallInv, CallsOK, SlotOK
      <3>2. r.kind = "result" => SubmitResult(d) /\ r.cmd = Head(todo[d])
        BY <2>2
      <3>3. SubmitResult(d) => todo[d] # <<>>
        BY <1>0 DEF SubmitResult, CallOK
      <3>4. todo[d] # <<>>
              => 1 \in DOMAIN todo[d] /\ Head(todo[d]) = todo[d][1] /\ todo[d][1] \in Cmds
        BY <1>0
      <3>5. r.kind = "result" => Handled(r.cmd) /\ r.cmd \in Cmds
        BY <3>2, <3>3, <3>4 DEF TableInv, TodoKnown
      <3> QED
        BY <1>0, <3>1, <3>5 DEF RowsOK, Handled
    <2>5. ASSUME NEW e \in Devices PROVE TodoKnown(e)'
      <3>1. todo' = todo \/ (SubmitResult(d) /\ todo' = [todo EXCEPT ![d] = Tail(@)] /\ todo[d] # <<>>)
        BY <1>0, <1>3 DEF SubmitResult, CheckIn, Pair, CallOK
      <3>2. todo'[e] = todo[e] \/ (todo[e] # <<>> /\ todo'[e] = Tail(todo[e]))
        BY <1>0, <3>1
      <3> QED
        BY <1>0, <1>1, <3>2, TodoKept
    <2> QED
      BY <1>1, <2>3, <2>4, <2>5
  <1> QED
    BY <1>2, <1>3 DEF Work

LEMMA FailTable ==
  ASSUME TableInv, Fail
  PROVE  Grow /\ QueueOK' /\ (\A u \in Slots : RowsOK(u)') /\ (\A e \in Devices : TodoKnown(e)')
  <1>0. UNCHANGED <<queue, addressee, status, cred>> /\ todo \in [Devices -> Seq(Cmds)]
    BY DEF TableInv, IdInv, CallInv, TypeOK, Fail, GiveUp, LoseCheckin, LoseResult,
           RestartAgent, RestartServer, server
  <1>1. Grow /\ QueueOK'
    BY <1>0, SameGrows
  <1>2. ASSUME NEW s \in Slots PROVE RowsOK(s)'
    <2>1. CASE RestartServer
      BY <2>1 DEF RestartServer, RowsOK, NoRequest
    <2>2. CASE threads' = threads
      BY <1>0, <1>1, <2>2, RowsKept DEF threads
    <2> QED
      BY <2>1, <2>2 DEF Fail, GiveUp, LoseCheckin, LoseResult, RestartAgent
  <1>3. ASSUME NEW e \in Devices PROVE TodoKnown(e)'
    <2>1. todo'[e] \in {todo[e], <<>>} \/ (todo[e] # <<>> /\ todo'[e] = Tail(todo[e]))
      <3>1. ASSUME NEW d \in Devices, LoseResult(d) PROVE todo[d] # <<>>
        BY <3>1 DEF LoseResult, TableInv, IdInv, CallInv, CallsOK, CallOK
      <3> QED
        BY <1>0, <3>1 DEF Fail, GiveUp, LoseCheckin, LoseResult, RestartAgent, RestartServer
    <2> QED
      BY <1>0, <1>1, <2>1, TodoKept
  <1> QED
    BY <1>1, <1>2, <1>3

LEMMA TableNext == TableInv /\ [Next]_vars => TableInv' /\ Grow
  <1> SUFFICES ASSUME TableInv, [Next]_vars
               PROVE  /\ Grow /\ QueueOK' /\ (\A u \in Slots : RowsOK(u)')
                      /\ (\A e \in Devices : TodoKnown(e)')
    BY IdNext DEF TableInv
  <1>1. CASE UNCHANGED vars
    BY <1>1, SameGrows, RowsKept, TodoKept DEF vars, server, threads, device
  <1>2. ASSUME NEW s \in Slots, Handle(s)
        PROVE  /\ Grow /\ QueueOK' /\ (\A u \in Slots : RowsOK(u)')
               /\ (\A e \in Devices : TodoKnown(e)')
    BY <1>2, ServeTable, AnswerTable DEF Handle
  <1> QED
    BY <1>1, <1>2, AdminTable, DeviceTable, FailTable DEF Next

-----------------------------------------------------------------------------
(* The order of execution.                                                 *)

\* In the queue q, whatever x says was executed under the id i is before c.
After(x, q, i, c) ==
  \A m \in DOMAIN x : x[m].id = i => Precedes(q, x[m].cmd, c)

\* While a result is being sent the first of todo is executed already.
OrderOK(d) ==
  /\ \A m, n \in DOMAIN todo[d] : m < n => Precedes(queue, todo[d][m], todo[d][n])
  /\ \A n \in DOMAIN todo[d] : (call[d] = "submit" => n > 1)
       => After(executed, queue, cred[d], todo[d][n])
  /\ call[d] \in Slots
       => \A n \in DOMAIN rows[call[d]] : After(executed, queue, cred[d], rows[call[d]][n])

ExecOK ==
  /\ \A m \in DOMAIN executed :
       addressee[executed[m].cmd] = executed[m].id /\ Handled(executed[m].cmd)
  /\ \A m, n \in DOMAIN executed :
       m < n /\ executed[m].id = executed[n].id
         => Precedes(queue, executed[m].cmd, executed[n].cmd)

OrderInv == TableInv /\ ExecOK /\ \A d \in Devices : OrderOK(d)

LEMMA OrderInit == Init => OrderInv
  BY TableInit, FleetAssumption DEF Init, OrderInv, OrderOK, ExecOK, After

LEMMA ExecutedTyped ==
  ASSUME NEW x \in Seq([dev : Devices, id : Ids, cmd : Cmds])
  PROVE  \A m \in DOMAIN x : x[m].id \in Ids /\ x[m].cmd \in Cmds
  <1> SUFFICES ASSUME NEW m \in DOMAIN x PROVE x[m] \in [dev : Devices, id : Ids, cmd : Cmds]
    OBVIOUS
  <1> DEFINE R == [dev : Devices, id : Ids, cmd : Cmds]
  <1> HIDE DEF R
  <1>1. x \in Seq(R)
    BY DEF R
  <1>2. x[m] \in R
    BY <1>1
  <1> QED
    BY <1>2 DEF R

LEMMA ExecKept ==
  ASSUME OrderInv, Grow, executed' = executed PROVE ExecOK'
  <1>1. executed \in Seq([dev : Devices, id : Ids, cmd : Cmds])
    BY DEF OrderInv, TableInv, IdInv, CallInv, TypeOK
  <1>2. \A m \in DOMAIN executed : executed[m].cmd \in Cmds
    BY <1>1, ExecutedTyped
  <1> QED
    BY <1>2 DEF OrderInv, ExecOK, Grow, Handled

LEMMA OrderKept ==
  ASSUME OrderInv, Grow, executed' = executed, NEW d \in Devices,
         cred'[d] = cred[d] \/ todo'[d] = <<>>,
         \/ todo'[d] = todo[d] /\ (call[d] = "submit" => call'[d] = "submit")
         \/ todo'[d] = <<>>
         \/ todo[d] # <<>> /\ todo'[d] = Tail(todo[d]),
         call'[d] \in Slots =>
           \/ rows'[call'[d]] = <<>>
           \/ call'[d] = call[d] /\ rows'[call[d]] = rows[call[d]] /\ cred'[d] = cred[d]
  PROVE  OrderOK(d)'
  <1>1. cred'[d] = cred[d] => \A c : After(executed, queue, cred[d], c)
          => After(executed', queue', cred'[d], c)
    BY DEF After, Grow
  <1>2. todo[d] \in Seq(Cmds) /\ OrderOK(d)
    BY DEF OrderInv, TableInv, IdInv, CallInv, TypeOK
  <1>3. /\ \A m, n \in DOMAIN todo'[d] : m < n => Precedes(queue', todo'[d][m], todo'[d][n])
        /\ \A n \in DOMAIN todo'[d] : (call'[d] = "submit" => n > 1)
             => After(executed', queue', cred'[d], todo'[d][n])
    <2>1. CASE todo'[d] = todo[d] /\ todo'[d] # <<>> /\ (call[d] = "submit"
                 => call'[d] = "submit")
      BY <1>1, <1>2, <2>1 DEF OrderOK, Grow
    <2>2. CASE todo[d] # <<>> /\ todo'[d] = Tail(todo[d]) /\ todo'[d] # <<>>
      <3>1. \A n \in DOMAIN Tail(todo[d]) :
              n \in Nat /\ n + 1 > 1 /\ n + 1 \in DOMAIN todo[d] /\ Tail(todo[d])[n] = todo[d][n + 1]
        BY <1>2, <2>2
      <3>2. \A n \in DOMAIN Tail(todo[d]) : After(executed, queue, cred[d], Tail(todo[d])[n])
        BY <1>2, <3>1 DEF OrderOK
      <3>3. \A m, n \in DOMAIN Tail(todo[d]) :
              m < n => Precedes(queue, Tail(todo[d])[m], Tail(todo[d])[n])
        <4>1. \A m, n \in DOMAIN Tail(todo[d]) : m < n => m + 1 < n + 1
          BY <3>1
        <4> QED
          BY <1>2, <3>1, <4>1 DEF OrderOK
      <3> QED
        BY <1>1, <2>2, <3>2, <3>3 DEF Grow
    <2>3. CASE todo'[d] = <<>>
      BY <2>3
    <2> QED
      BY <2>1, <2>2, <2>3
  <1>4. call'[d] \in Slots
          => \A n \in DOMAIN rows'[call'[d]] : After(executed', queue', cred'[d], rows'[call'[d]][n])
    <2>1. CASE rows'[call'[d]] = <<>>
      BY <2>1
    <2>2. CASE call'[d] \in Slots /\ call'[d] = call[d] /\ rows'[call[d]] = rows[call[d]] /\ cred'[d] = cred[d]
      BY <1>1, <1>2, <2>2 DEF OrderOK
    <2> QED
      BY <2>1, <2>2
  <1> QED
    BY <1>3, <1>4 DEF OrderOK

\* What is pending was queued after everything that was dispatched before.
LEMMA PendingAfter ==
  ASSUME TableInv, NEW a \in Cmds, NEW b \in Cmds, Handled(a), status[b] = "pending",
         addressee[a] = addressee[b]
  PROVE  Precedes(queue, a, b)
  <1>1. PICK x, y \in DOMAIN queue : queue[x] = a /\ queue[y] = b
    BY DEF TableInv, QueueOK, Handled
  <1>2. x \in Nat /\ y \in Nat /\ x # y
    BY <1>1 DEF TableInv, IdInv, CallInv, TypeOK, Handled
  <1>3. ~(y < x)
    BY <1>1 DEF TableInv, QueueOK, Handled
  <1> QED
    BY <1>1, <1>2, <1>3 DEF Precedes

LEMMA SelectOrder ==
  ASSUME OrderInv, NEW s \in Slots, SelectPending(s),
         Grow PROVE ExecOK' /\ \A d \in Devices : OrderOK(d)'
  <1>0. /\ stage[s] = "select" /\ executed' = executed /\ cred' = cred /\ todo' = todo /\ call' = call
        /\ queue' = queue /\ rows' = [rows EXCEPT ![s] = PendingOf(req[s].id)]
        /\ rows \in [Slots -> Seq(Cmds)] /\ SlotOK(s) /\ TypeOK
    BY DEF SelectPending, device, ghosts, server, OrderInv, TableInv, IdInv, CallInv, CallsOK,
           TypeOK
  <1>1. ASSUME NEW d \in Devices PROVE OrderOK(d)'
    <2>1. CASE call[d] # s
      BY <1>0, <2>1, OrderKept
    <2>2. CASE call[d] = s
      <3>1. req[s].kind = "checkin" /\ req[s].id = cred[d] /\ req[s].id \in Ids
        BY <1>0, <2>2 DEF SlotOK, Request, TypeOK, OrderInv, TableInv, IdInv, CallInv, CallsOK,
                          CallOK
      <3> DEFINE p == PendingOf(req[s].id)
      <3>2. /\ p \in Seq(Cmds)
            /\ \A k \in DOMAIN p : addressee[p[k]] = cred[d] /\ status[p[k]] = "pending"
        BY <1>0, <3>1, PendingRows
      <3> HIDE DEF p
      <3>3. \A k \in DOMAIN p : p[k] \in Cmds
        BY <3>2
      <3>4. \A m \in DOMAIN executed :
              /\ executed[m].cmd \in Cmds /\ Handled(executed[m].cmd)
              /\ addressee[executed[m].cmd] = executed[m].id
        BY <1>0, ExecutedTyped DEF OrderInv, ExecOK, TypeOK
      <3>5. \A k \in DOMAIN p : After(executed, queue, cred[d], p[k])
        BY <3>2, <3>3, <3>4, PendingAfter DEF After, OrderInv
      <3>6. rows'[s] = p
        BY <1>0 DEF p
      <3>7. \A c : After(executed, queue, cred[d], c) => After(executed', queue', cred'[d], c)
        BY <1>0 DEF After
      <3>8. OrderOK(d)
        BY DEF OrderInv
      <3>9. \A n \in DOMAIN todo[d] : (call[d] = "submit" => n > 1)
              => After(executed', queue', cred'[d], todo[d][n])
        BY <3>7, <3>8 DEF OrderOK
      <3> QED
        BY <1>0, <2>2, <3>5, <3>6, <3>7, <3>8, <3>9 DEF OrderOK
    <2> QED
      BY <2>1, <2>2
  <1> QED
    BY <1>0, <1>1, ExecKept

LEMMA HandleOrder ==
  ASSUME OrderInv, NEW s \in Slots, Handle(s),
         Grow PROVE ExecOK' /\ \A d \in Devices : OrderOK(d)'
  <1>0. executed' = executed /\ rows \in [Slots -> Seq(Cmds)] /\ queue \in Seq(Cmds)
    BY DEF Handle, ConsumePairing, Register, Authenticate, AddDetections, SelectPending,
           MarkDispatched,
           StoreResult, AnswerEnroll, AnswerCheckin, AnswerResult, AnswerDenied, ghosts,
           OrderInv, TableInv, IdInv, CallInv, TypeOK
  <1>1. CASE ConsumePairing(s) \/ Register(s) \/ Authenticate(s) \/ AddDetections(s)
             \/ MarkDispatched(s) \/ StoreResult(s)
    <2>1. rows' = rows /\ device' = device
      BY <1>1 DEF ConsumePairing, Register, Authenticate, AddDetections, MarkDispatched,
                  StoreResult
    <2> QED
      BY <1>0, <2>1, ExecKept, OrderKept DEF device
  <1>2. CASE AnswerEnroll(s) \/ AnswerCheckin(s) \/ AnswerResult(s) \/ AnswerDenied(s)
    <2>1. /\ call' = [d \in Devices |-> IF d \in Waiting(s) THEN "idle" ELSE call[d]]
          /\ rows' = [rows EXCEPT ![s] = <<>>]
      BY <1>2 DEF AnswerEnroll, AnswerCheckin, AnswerResult, AnswerDenied, Finish
    <2>2. ASSUME NEW d \in Devices, d \notin Waiting(s) PROVE OrderOK(d)'
      <3>1. cred'[d] = cred[d] /\ todo'[d] = todo[d] /\ call'[d] = call[d] /\ call[d] # s
        BY <1>2, <2>1, <2>2 DEF AnswerEnroll, AnswerCheckin, AnswerResult, AnswerDenied, Waiting
      <3> QED
        BY <1>0, <2>1, <3>1, OrderKept
    <2>3. ASSUME NEW d \in Devices, d \in Waiting(s) PROVE OrderOK(d)'
      <3>1. call[d] = s /\ call'[d] = "idle" /\ "idle" \notin Slots /\ call[d] # "submit"
        BY <2>1, <2>3, FleetAssumption DEF Waiting
      <3>2. CASE AnswerCheckin(s)
        <4>1. todo'[d] = Take(rows[s], MaxHandled) /\ cred' = cred /\ queue' = queue
          BY <2>3, <3>2 DEF AnswerCheckin, server
        <4>2. \A n \in DOMAIN Take(rows[s], MaxHandled) :
                n \in DOMAIN rows[s] /\ Take(rows[s], MaxHandled)[n] = rows[s][n]
          BY <1>0, FleetAssumption DEF Take
        <4>3. \A n \in DOMAIN rows[s] : After(executed, queue, cred[d], rows[s][n])
          BY <3>1 DEF OrderInv, OrderOK
        <4>4. \A m, n \in DOMAIN rows[s] : m < n => Precedes(queue, rows[s][m], rows[s][n])
          BY DEF OrderInv, TableInv, RowsOK
        <4>5. \A c : After(executed, queue, cred[d], c) => After(executed', queue', cred'[d], c)
          BY <1>0, <4>1 DEF After
        <4> QED
          BY <3>1, <4>1, <4>2, <4>3, <4>4, <4>5 DEF OrderOK
      <3>3. CASE AnswerEnroll(s)
        <4>1. todo'[d] = <<>>
          BY <3>1, <3>3 DEF AnswerEnroll, OrderInv, TableInv, IdInv, CallInv, CallsOK, CallOK
        <4> QED
          BY <1>0, <3>1, <4>1, OrderKept
      <3>4. CASE AnswerResult(s) \/ AnswerDenied(s)
        <4>1. todo' = todo /\ cred' = cred
          BY <3>4 DEF AnswerResult, AnswerDenied
        <4> QED
          BY <1>0, <3>1, <4>1, OrderKept
      <3> QED
        BY <1>2, <3>2, <3>3, <3>4
    <2> QED
      BY <1>0, <2>2, <2>3, ExecKept
  <1> QED
    BY <1>1, <1>2, SelectOrder DEF Handle

LEMMA ExecuteOrder ==
  ASSUME OrderInv, NEW d \in Devices, Execute(d),
         Grow PROVE ExecOK' /\ \A e \in Devices : OrderOK(e)'
  <1> DEFINE c == Head(todo[d])
             x == [dev |-> d, id |-> cred[d], cmd |-> c]
  <1>0. /\ call[d] = "idle" /\ todo[d] # <<>> /\ todo[d] \in Seq(Cmds)
        /\ call' = [call EXCEPT ![d] = "submit"] /\ call \in [Devices -> Slots \cup {"idle", "submit"}]
        /\ UNCHANGED <<queue, addressee, status, rows, cred, todo>>
        /\ executed' = executed \/ executed' = Append(executed, x)
        /\ executed \in Seq([dev : Devices, id : Ids, cmd : Cmds])
        /\ CallOK(d) /\ TodoKnown(d) /\ OrderOK(d)
    BY DEF Execute, server, threads, OrderInv, TableInv, IdInv, CallInv, CallsOK, TypeOK
  <1>1. /\ 1 \in DOMAIN todo[d] /\ c = todo[d][1] /\ c \in Cmds /\ cred[d] # None
        /\ \A n \in DOMAIN todo[d] : n \in Nat
    BY <1>0 DEF CallOK
  <1>2. /\ addressee[c] = cred[d] /\ Handled(c) /\ After(executed, queue, cred[d], c)
        /\ \A n \in DOMAIN todo[d] : n > 1 => Precedes(queue, c, todo[d][n])
        /\ \A n \in DOMAIN todo[d] : After(executed, queue, cred[d], todo[d][n])
    BY <1>0, <1>1 DEF TodoKnown, OrderOK
  <1>3. x.id = cred[d] /\ x.cmd = c
    OBVIOUS
  <1>4. cred[d] \in Ids
    BY <1>1 DEF OrderInv, TableInv, IdInv, CallInv, TypeOK
  <1> HIDE DEF c
  <1>5. x \in [dev : Devices, id : Ids, cmd : Cmds]
    BY <1>1, <1>4
  <1> HIDE DEF x
  <1>6. CASE executed' = executed
    <2>1. ASSUME NEW e \in Devices PROVE OrderOK(e)'
      <3>1. \A b : After(executed, queue, cred[e], b) => After(executed', queue', cred'[e], b)
        BY <1>0, <1>6 DEF After
      <3>2. CASE e = d
        <4>1. call'[d] = "submit" /\ "submit" \notin Slots
          BY <1>0, FleetAssumption
        <4> QED
          BY <1>0, <1>2, <3>1, <3>2, <4>1 DEF OrderOK
      <3>3. CASE e # d
        BY <1>0, <1>6, <3>3, OrderKept
      <3> QED
        BY <3>2, <3>3
    <2> QED
      BY <1>6, <2>1, ExecKept
  <1>7. CASE executed' = Append(executed, x)
    <2>1. /\ DOMAIN executed = 1..Len(executed) /\ DOMAIN executed' = 1..(Len(executed) + 1)
          /\ Len(executed) \in Nat /\ executed'[Len(executed) + 1] = x
          /\ \A m \in DOMAIN executed : executed'[m] = executed[m]
      BY <1>0, <1>5, <1>7
    <2>2. ASSUME NEW e \in Devices, NEW b, After(executed, queue, cred[e], b), e = d
                   => Precedes(queue, c, b)
          PROVE  After(executed', queue', cred'[e], b)
      <3>1. e # d => cred[e] # cred[d]
        BY <1>1 DEF OrderInv, TableInv, IdInv, IdsOK
      <3> QED
        BY <1>0, <1>3, <2>1, <2>2, <3>1 DEF After
    <2>3. ASSUME NEW e \in Devices, e # d PROVE OrderOK(e)'
      <3>1. OrderOK(e) /\ \A b : After(executed, queue, cred[e], b)
              => After(executed', queue', cred'[e], b)
        BY <2>2, <2>3 DEF OrderInv
      <3>2. call'[e] = call[e]
        BY <1>0, <2>3
      <3> QED
        BY <1>0, <3>1, <3>2 DEF OrderOK
    <2>4. OrderOK(d)'
      <3>1. call'[d] = "submit" /\ "submit" \notin Slots
        BY <1>0, FleetAssumption
      <3>2. \A n \in DOMAIN todo[d] : n > 1 => After(executed', queue', cred'[d], todo[d][n])
        BY <1>2, <2>2
      <3> QED
        BY <1>0, <3>1, <3>2 DEF OrderOK
    <2>5. ExecOK'
      <3>1. \A m \in DOMAIN executed' :
              addressee[executed'[m].cmd] = executed'[m].id /\ Handled(executed'[m].cmd)
        BY <1>2, <1>3, <2>1 DEF OrderInv, ExecOK
      <3>2. \A m, n \in DOMAIN executed' :
              m < n /\ executed'[m].id = executed'[n].id
                => Precedes(queue, executed'[m].cmd, executed'[n].cmd)
        BY <1>2, <1>3, <2>1 DEF OrderInv, ExecOK, After
      <3> QED
        BY <1>0, <3>1, <3>2 DEF ExecOK, Handled
    <2> QED
      BY <2>3, <2>4, <2>5
  <1> QED
    BY <1>0, <1>6, <1>7

LEMMA OtherOrder ==
  ASSUME OrderInv, Grow,
         \/ Admin \/ Fail \/ UNCHANGED vars
         \/ \E d \in Devices : SubmitResult(d) \/ CheckIn(d) \/ \E k \in Tokens : Pair(d, k)
  PROVE  ExecOK' /\ \A e \in Devices : OrderOK(e)'
  <1>0. executed' = executed /\ cred' = cred /\ rows \in [Slots -> Seq(Cmds)]
        /\ todo \in [Devices -> Seq(Cmds)] /\ call \in [Devices -> Slots \cup {"idle", "submit"}]
    BY DEF Admin, IssueToken, ExpireToken, Revoke, QueueCommand, ExpireCommand, Fail, GiveUp,
           LoseCheckin, LoseResult, RestartAgent, RestartServer, SubmitResult, CheckIn, Pair,
           vars, ghosts, device, OrderInv, TableInv, IdInv, CallInv, TypeOK
  <1>1. CASE Admin \/ UNCHANGED vars
    <2>1. device' = device /\ rows' = rows
      BY <1>1 DEF Admin, IssueToken, ExpireToken, Revoke, QueueCommand, ExpireCommand, vars,
                  threads
    <2> QED
      BY <1>0, <2>1, ExecKept, OrderKept DEF device
  <1>2. ASSUME NEW d \in Devices, SubmitResult(d) \/ CheckIn(d) \/ \E k \in Tokens : Pair(d, k)
        PROVE  \A e \in Devices : OrderOK(e)'
    <2>1. PICK s \in Slots : stage[s] = "free" /\ call' = [call EXCEPT ![d] = s] /\ rows' = rows
      BY <1>2, SendSteps DEF Sends
    <2>2. rows[s] = <<>> /\ CallOK(d)
      BY <2>1 DEF OrderInv, TableInv, IdInv, CallInv, CallsOK, SlotOK
    <2>3. \/ todo' = todo /\ call[d] # "submit"
          \/ todo[d] # <<>> /\ todo' = [todo EXCEPT ![d] = Tail(@)]
      BY <1>2, <2>2 DEF SubmitResult, CheckIn, Pair, Idle, CallOK
    <2>4. ASSUME NEW e \in Devices, e # d PROVE OrderOK(e)'
      <3>1. todo'[e] = todo[e] /\ call'[e] = call[e]
        BY <1>0, <2>1, <2>3, <2>4
      <3> QED
        BY <1>0, <2>1, <3>1, OrderKept
    <2>5. OrderOK(d)'
      <3>1. call'[d] = s /\ rows'[s] = <<>>
        BY <1>0, <2>1, <2>2
      <3>2. \/ todo'[d] = todo[d] /\ call[d] # "submit"
            \/ todo[d] # <<>> /\ todo'[d] = Tail(todo[d])
        BY <1>0, <2>3
      <3> QED
        BY <1>0, <3>1, <3>2, OrderKept
    <2> QED
      BY <2>4, <2>5
  <1>3. CASE Fail
    <2>1. ASSUME NEW e \in Devices PROVE OrderOK(e)'
      <3>1. \/ todo'[e] = todo[e] /\ (call[e] = "submit" => call'[e] = "submit")
            \/ todo'[e] = <<>>
            \/ todo[e] # <<>> /\ todo'[e] = Tail(todo[e])
        <4>1. CallOK(e)
          BY DEF OrderInv, TableInv, IdInv, CallInv, CallsOK
        <4> QED
          BY <1>0, <1>3, <4>1, FleetAssumption
             DEF Fail, GiveUp, LoseCheckin, LoseResult, RestartAgent, RestartServer, CallOK
      <3>2. call'[e] \in Slots => call'[e] = call[e] /\ rows'[call[e]] \in {<<>>, rows[call[e]]}
        BY <1>0, <1>3, FleetAssumption
           DEF Fail, GiveUp, LoseCheckin, LoseResult, RestartAgent, RestartServer, threads
      <3> QED
        BY <1>0, <3>1, <3>2, OrderKept
    <2> QED
      BY <2>1, ExecKept, <1>0
  <1> QED
    BY <1>0, <1>1, <1>2, <1>3, ExecKept

LEMMA OrderNext == OrderInv /\ [Next]_vars => OrderInv'
  <1> SUFFICES ASSUME OrderInv, [Next]_vars PROVE OrderInv'
    OBVIOUS
  <1>1. TableInv' /\ Grow
    BY TableNext DEF OrderInv
  <1>2. ExecOK' /\ \A d \in Devices : OrderOK(d)'
    BY <1>1, HandleOrder, ExecuteOrder, OtherOrder DEF Next, Work
  <1> QED
    BY <1>1, <1>2 DEF OrderInv

(* pending_for, check_in_once and execute: no command is executed twice,    *)
(* only its addressee executes it, and a device executes in the order of    *)
(* the queue, whatever calls and processes are lost on the way.             *)
THEOREM ExecutedOnceInOrderHolds == Spec => []ExecutedOnceInOrder
  <1>1. OrderInv => ExecutedOnceInOrder
    <2> SUFFICES ASSUME OrderInv PROVE ExecutedOnceInOrder
      OBVIOUS
    <2>1. ASSUME NEW m \in DOMAIN executed, NEW n \in DOMAIN executed, m < n
          PROVE  executed[m].cmd # executed[n].cmd
      <3>1. CASE executed[m].id # executed[n].id
        BY <3>1 DEF OrderInv, ExecOK
      <3>2. CASE executed[m].id = executed[n].id
        <4>1. PICK x, y \in DOMAIN queue : x < y /\ queue[x] = executed[m].cmd /\ queue[y] = executed[n].cmd
          BY <2>1, <3>2 DEF OrderInv, ExecOK, Precedes
        <4>2. x # y
          BY <4>1 DEF OrderInv, TableInv, IdInv, CallInv, TypeOK
        <4> QED
          BY <4>1, <4>2 DEF OrderInv, TableInv, QueueOK
      <3> QED
        BY <3>1, <3>2
    <2> QED
      BY <2>1 DEF ExecutedOnceInOrder, OrderInv, ExecOK, Precedes
  <1> QED
    BY OrderInit, OrderNext, <1>1, PTL DEF Spec

-----------------------------------------------------------------------------
(* Revocation.                                                             *)

\* What RevocationCutsOff says of a step, for one id.
CutOff(i) ==
  agents[i] # None /\ agents[i].revoked /\ Served(i) = {} =>
    /\ Served(i)' = {}
    /\ \A c \in Cmds : addressee[c] = i => status'[c] = status[c]

LEMMA StageServed ==
  ASSUME TableInv, NEW i \in Ids, Served(i) = {}, NEW s \in Slots,
         \A u \in Slots \ {s} : stage'[u] = stage[u] /\ req'[u] = req[u],
         s \notin Served(i)'
  PROVE  Served(i)' = {}
  BY DEF Served

LEMMA HandleCutsOff ==
  ASSUME TableInv, NEW i \in Ids, NEW s \in Slots, Handle(s) PROVE CutOff(i)
  <1> SUFFICES ASSUME agents[i] # None, agents[i].revoked, Served(i) = {}
               PROVE  /\ Served(i)' = {}
                      /\ \A c \in Cmds : addressee[c] = i => status'[c] = status[c]
    BY DEF CutOff
  <1>0. /\ req \in [Slots -> Request] /\ stage \in [Slots -> Stages]
        /\ status \in [Cmds -> {"none", "pending", "dispatched", "done"}]
        /\ \A u \in Slots : stage[u] \in {"detect", "select", "mark", "store"} => req[u].id # i
    BY DEF TableInv, IdInv, CallInv, TypeOK, Served
  <1>1. CASE ConsumePairing(s) \/ Register(s)
    <2>1. /\ \A u \in Slots \ {s} : stage'[u] = stage[u] /\ req'[u] = req[u]
          /\ stage'[s] \in {"register", "deny", "reply"} /\ status' = status
      BY <1>0, <1>1 DEF ConsumePairing, Register, Goto
    <2> QED
      BY <2>1, StageServed DEF Served
  <1>2. CASE Authenticate(s)
    <2>1. /\ \A u \in Slots \ {s} : stage'[u] = stage[u]
          /\ req' = req /\ status' = status
          /\ stage'[s] = "deny" \/ Authentic(req[s].id)
      BY <1>0, <1>2 DEF Authenticate, Goto, server
    <2>2. Authentic(req[s].id) => req[s].id # i
      BY DEF Authentic
    <2> QED
      BY <2>1, <2>2, StageServed DEF Served
  <1>3. CASE AddDetections(s) \/ SelectPending(s)
    <2>1. /\ \A u \in Slots \ {s} : stage'[u] = stage[u]
          /\ req' = req /\ status' = status /\ stage[s] \in {"detect", "select"}
      BY <1>0, <1>3 DEF AddDetections, SelectPending, Goto, server
    <2> QED
      BY <1>0, <2>1, StageServed DEF Served
  <1>4. CASE MarkDispatched(s)
    <2>1. /\ \A u \in Slots \ {s} : stage'[u] = stage[u]
          /\ req' = req /\ stage[s] = "mark"
          /\ \A c \in Cmds : addressee[c] # req[s].id => status'[c] = status[c]
      BY <1>0, <1>4 DEF MarkDispatched, Goto
    <2> QED
      BY <1>0, <2>1, StageServed DEF Served
  <1>5. CASE StoreResult(s)
    <2>1. /\ \A u \in Slots \ {s} : stage'[u] = stage[u]
          /\ req' = req /\ stage[s] = "store"
          /\ \A c \in Cmds : addressee[c] # req[s].id => status'[c] = status[c]
      BY <1>0, <1>5 DEF StoreResult, Goto
    <2> QED
      BY <1>0, <2>1, StageServed DEF Served
  <1>6. CASE AnswerEnroll(s) \/ AnswerCheckin(s) \/ AnswerResult(s) \/ AnswerDenied(s)
    <2>1. /\ \A u \in Slots \ {s} : stage'[u] = stage[u] /\ req'[u] = req[u]
          /\ stage'[s] = "free" /\ status' = status
      BY <1>0, <1>6 DEF AnswerEnroll, AnswerCheckin, AnswerResult, AnswerDenied, Finish, server
    <2> QED
      BY <2>1, StageServed DEF Served
  <1> QED
    BY <1>1, <1>2, <1>3, <1>4, <1>5, <1>6 DEF Handle

LEMMA NextCutsOff ==
  ASSUME TableInv, [Next]_vars, NEW i \in Ids PROVE CutOff(i)
  <1>0. /\ req \in [Slots -> Request] /\ stage \in [Slots -> Stages]
        /\ status \in [Cmds -> {"none", "pending", "dispatched", "done"}]
        /\ \A c \in Cmds : status[c] = "none" => addressee[c] = None
    BY DEF TableInv, IdInv, CallInv, TypeOK, QueueOK
  <1>1. CASE UNCHANGED vars
    BY <1>1 DEF vars, server, threads, CutOff, Served
  <1>2. CASE Admin
    <2>1. threads' = threads
      BY <1>2 DEF Admin, IssueToken, ExpireToken, Revoke, QueueCommand, ExpireCommand
    <2>2. \A c \in Cmds : status'[c] = status[c] \/ status[c] = "none"
      BY <1>0, <1>2 DEF Admin, IssueToken, ExpireToken, Revoke, QueueCommand, ExpireCommand,
                        server
    <2> QED
      BY <1>0, <2>1, <2>2, FleetAssumption DEF threads, CutOff, Served
  <1>3. CASE Fail
    <2>1. status' = status
      BY <1>3 DEF Fail, GiveUp, LoseCheckin, LoseResult, RestartAgent, RestartServer, server
    <2>2. threads' = threads \/ \A s \in Slots : stage'[s] = "free"
      BY <1>3 DEF Fail, GiveUp, LoseCheckin, LoseResult, RestartAgent, RestartServer
    <2> QED
      BY <2>1, <2>2 DEF threads, CutOff, Served
  <1>4. ASSUME NEW d \in Devices, SubmitResult(d) \/ CheckIn(d) \/ \E k \in Tokens : Pair(d, k)
        PROVE  CutOff(i)
    <2>1. status' = status
      BY <1>4 DEF SubmitResult, CheckIn, Pair, server
    <2>2. PICK s \in Slots : \E r :
            Sends(d, s, r) /\ r.kind \in {"enroll", "checkin", "result"}
      BY <1>4, SendSteps
    <2>3. /\ \A u \in Slots \ {s} : stage'[u] = stage[u] /\ req'[u] = req[u]
          /\ stage'[s] \in {"enroll", "checkin", "result"}
      BY <1>0, <2>2 DEF Sends
    <2> QED
      BY <2>1, <2>3, StageServed DEF CutOff, Served
  <1>5. ASSUME NEW d \in Devices, Execute(d) PROVE CutOff(i)
    BY <1>5 DEF Execute, server, threads, CutOff, Served
  <1> QED
    BY <1>1, <1>2, <1>3, <1>4, <1>5, HandleCutsOff DEF Next, Work

(* auth_agent and revoke: once the handlers past authentication are through *)
(* no handler serves a revoked agent and no row of its commands changes.    *)
THEOREM RevocationCutsOffHolds == Spec => RevocationCutsOff
  <1>1. TableInv /\ [Next]_vars => \A i \in Ids : CutOff(i)
    BY NextCutsOff
  <1>2. TableInv /\ [Next]_vars =>
          [\A i \in Ids :
             agents[i] # None /\ agents[i].revoked /\ Served(i) = {} =>
               /\ Served(i)' = {}
               /\ \A c \in Cmds : addressee[c] = i => status'[c] = status[c]]_vars
    BY <1>1 DEF CutOff
  <1>3. TableInv /\ [Next]_vars => TableInv'
    BY TableNext
  <1> QED
    BY TableInit, <1>2, <1>3, PTL DEF Spec, RevocationCutsOff

-----------------------------------------------------------------------------
(* What becomes of a dispatched command.                                   *)

\* While pending_for holds the lock, what is pending for the agent it serves has
\* been selected or has slipped in since.
Selected(s) ==
  stage[s] = "mark" /\ rows[s] # <<>> =>
    \A c \in Cmds : addressee[c] = req[s].id /\ status[c] = "pending"
      => c \in Range(rows[s]) \/ c \in slipped

DrainInv ==
  /\ TableInv
  /\ \A s \in Slots : Selected(s)
  /\ DispatchedIsDelivered

LEMMA DrainInit == Init => DrainInv
  BY TableInit DEF Init, DrainInv, Selected, DispatchedIsDelivered, Dispatched

LEMMA DropsGrow ==
  ASSUME [Next]_vars
  PROVE  /\ slipped \subseteq slipped' /\ cutOff \subseteq cutOff' /\ lost \subseteq lost'
         /\ submitted \subseteq submitted'
  BY DEF Next, Admin, IssueToken, ExpireToken, Revoke, QueueCommand, ExpireCommand, Handle,
         ConsumePairing, Register, Authenticate, AddDetections, SelectPending, MarkDispatched,
         StoreResult, AnswerEnroll, AnswerCheckin, AnswerResult, AnswerDenied, Work, Execute,
         SubmitResult, CheckIn, Pair, Fail, GiveUp, LoseCheckin, LoseResult, RestartAgent,
         RestartServer, vars, ghosts, drops

LEMMA SelectedKept ==
  ASSUME TableInv, [Next]_vars, \A u \in Slots : Selected(u), NEW s \in Slots
  PROVE  Selected(s)'
  <1>0. /\ req \in [Slots -> Request] /\ stage \in [Slots -> Stages]
        /\ rows \in [Slots -> Seq(Cmds)]
        /\ stage[s] = "mark" => lock = s /\ lock # None
    BY FleetAssumption DEF TableInv, IdInv, CallInv, TypeOK, RowsOK
  <1>. slipped \subseteq slipped'
    BY DropsGrow
  <1>1. CASE SelectPending(s)
    <2>1. /\ UNCHANGED <<queue, addressee, status, req>> /\ stage[s] = "select"
          /\ rows'[s] = PendingOf(req[s].id)
      BY <1>0, <1>1 DEF SelectPending, server
    <2>2. req[s].id \in Ids /\ TypeOK
      BY <1>0, <2>1 DEF TableInv, IdInv, CallInv, CallsOK, SlotOK, Request
    <2>3. ASSUME NEW c \in Cmds, addressee[c] = req[s].id, status[c] = "pending"
          PROVE  c \in Range(PendingOf(req[s].id))
      <3>1. PICK x \in DOMAIN queue : queue[x] = c
        BY <2>3 DEF TableInv, QueueOK
      <3> QED
        BY <2>2, <2>3, <3>1, PendingRows DEF Range
    <2> QED
      BY <2>1, <2>3 DEF Selected
  <1>2. CASE stage[s] # "mark" /\ ~SelectPending(s)
    <2>1. stage'[s] # "mark"
      <3>1. ASSUME NEW u \in Slots, Handle(u) PROVE stage'[s] # "mark"
        <4>1. CASE u = s
          BY <1>0, <1>2, <3>1, <4>1
             DEF Handle, ConsumePairing, Register, Authenticate, AddDetections, MarkDispatched,
                 StoreResult, AnswerEnroll, AnswerCheckin, AnswerResult, AnswerDenied, Goto,
                 Finish
        <4>2. CASE u # s
          BY <1>0, <1>2, <3>1, <4>2
             DEF Handle, ConsumePairing, Register, Authenticate, AddDetections, SelectPending,
                 MarkDispatched, StoreResult, AnswerEnroll, AnswerCheckin, AnswerResult,
                 AnswerDenied, Goto, Finish
        <4> QED
          BY <4>1, <4>2
      <3>2. ASSUME NEW d \in Devices, SubmitResult(d) \/ CheckIn(d) \/ \E k \in Tokens : Pair(d,
                   k)
            PROVE  stage'[s] # "mark"
        <4>1. PICK u \in Slots : \E r : Sends(d, u, r) /\ r.kind \in {"enroll", "checkin", "result"}
          BY <3>2, SendSteps
        <4> QED
          BY <1>0, <1>2, <4>1 DEF Sends
      <3>3. CASE Admin \/ Fail \/ UNCHANGED vars \/ \E d \in Devices : Execute(d)
        BY <1>2, <3>3 DEF Admin, IssueToken, ExpireToken, Revoke, QueueCommand, ExpireCommand,
                          Fail,
               GiveUp, LoseCheckin, LoseResult, RestartAgent, RestartServer, Execute, vars,
               threads
      <3> QED
        BY <3>1, <3>2, <3>3 DEF Next, Work
    <2> QED
      BY <2>1 DEF Selected
  <1>3. CASE stage[s] = "mark"
    <2>1. ASSUME UNCHANGED <<addressee, status>>, rows'[s] = rows[s],
                 req'[s] = req[s] PROVE Selected(s)'
      BY <1>3, <2>1 DEF Selected
    <2>2. ASSUME NEW u \in Slots, Handle(u) PROVE Selected(s)'
      <3>1. CASE u # s
        <4>1. rows'[s] = rows[s] /\ req'[s] = req[s] /\ UNCHANGED <<addressee, status>>
          <5>1. ~MarkDispatched(u) /\ ~StoreResult(u)
            <6>1. stage[u] = "mark" => lock = u
              BY DEF TableInv, RowsOK
            <6> QED
              BY <1>0, <1>3, <3>1, <6>1 DEF MarkDispatched, StoreResult, StoreFree
          <5> QED
            BY <1>0, <2>2, <3>1, <5>1
               DEF Handle, ConsumePairing, Register, Authenticate, AddDetections, SelectPending,
                   AnswerEnroll, AnswerCheckin, AnswerResult, AnswerDenied, Finish, server
        <4> QED
          BY <2>1, <4>1
      <3>2. CASE u = s
        <4>1. stage'[s] # "mark"
          BY <1>0, <1>3, <2>2, <3>2
             DEF Handle, ConsumePairing, Register, Authenticate, AddDetections, SelectPending,
                 MarkDispatched, StoreResult, AnswerEnroll, AnswerCheckin, AnswerResult,
                 AnswerDenied,
                 Goto, Finish
        <4> QED
          BY <4>1 DEF Selected
      <3> QED
        BY <3>1, <3>2
    <2>3. ASSUME NEW d \in Devices, SubmitResult(d) \/ CheckIn(d) \/ \E k \in Tokens : Pair(d, k)
          PROVE  Selected(s)'
      <3>1. PICK u \in Slots : \E r : Sends(d, u, r)
        BY <2>3, SendSteps
      <3>2. UNCHANGED <<addressee, status>>
        BY <2>3 DEF SubmitResult, CheckIn, Pair, server
      <3> QED
        BY <1>0, <1>3, <2>1, <3>1, <3>2 DEF Sends
    <2>4. ASSUME NEW i \in Ids, NEW c \in Cmds, QueueCommand(i, c) PROVE Selected(s)'
      <3>1. /\ UNCHANGED <<stage, req, rows>>
            /\ addressee' = [addressee EXCEPT ![c] = i]
            /\ status' = [status EXCEPT ![c] = "pending"]
            /\ req[s].id = i /\ rows[s] # <<>> => c \in slipped'
        BY <1>3, <2>4 DEF QueueCommand, threads
      <3>2. \A e \in Cmds \ {c} : addressee'[e] = addressee[e] /\ status'[e] = status[e]
        BY <3>1 DEF TableInv, IdInv, CallInv, TypeOK
      <3>3. addressee'[c] = i
        BY <3>1 DEF TableInv, IdInv, CallInv, TypeOK
      <3> QED
        BY <1>3, <3>1, <3>2, <3>3 DEF Selected
    <2>7. CASE Admin /\ ~(\E i \in Ids, c \in Cmds : QueueCommand(i, c))
      BY <2>1, <2>7 DEF Admin, IssueToken, ExpireToken, Revoke, ExpireCommand, server, threads
    <2>5. CASE RestartServer
      BY <2>5 DEF RestartServer, Selected
    <2>6. CASE UNCHANGED vars \/ (\E d \in Devices : Execute(d)) \/ (Fail /\ ~RestartServer)
      BY <2>1, <2>6 DEF Fail, GiveUp, LoseCheckin, LoseResult, RestartAgent, Execute, vars,
                        server, threads
    <2> QED
      BY <2>2, <2>3, <2>4, <2>5, <2>6, <2>7 DEF Next, Work
  <1> QED
    BY <1>1, <1>2, <1>3

LEMMA TakeOrRest ==
  ASSUME NEW S, NEW q \in Seq(S), NEW n \in Nat, NEW c \in Range(q)
  PROVE  c \in Range(Take(q, n)) \/ c \in Range(Rest(q, n))
  <1>1. PICK x \in DOMAIN q : q[x] = c
    BY DEF Range
  <1>2. DOMAIN q = 1..Len(q) /\ Len(q) \in Nat
    OBVIOUS
  <1>3. CASE x <= n
    <2>1. x \in DOMAIN Take(q, n) /\ Take(q, n)[x] = c
      BY <1>1, <1>2, <1>3 DEF Take
    <2> QED
      BY <2>1 DEF Range
  <1>4. CASE x > n
    <2>1. \A i \in n + 1..Len(q) : q[i] \in S
      BY <1>2
    <2>2. x - n \in 1..(Len(q) - n)
      BY <1>1, <1>2, <1>4
    <2>8. n + 1 \in Int /\ Len(q) \in Int /\ n + 1 <= Len(q)
      BY <1>1, <1>2, <1>4
    <2>5. /\ Len(Rest(q, n)) = Len(q) - (n + 1) + 1
          /\ \A i \in 1..(Len(q) - (n + 1) + 1) : Rest(q, n)[i] = q[n + 1 + i - 1]
      BY <2>1, <2>8, SubSeqProperties DEF Rest
    <2>6. Len(q) - (n + 1) + 1 = Len(q) - n
      BY <1>2
    <2>7. Rest(q, n) \in Seq(S)
      BY TakeTyped
    <2>9. DOMAIN Rest(q, n) = 1..Len(Rest(q, n))
      BY <2>7
    <2>3. x - n \in DOMAIN Rest(q, n) /\ Rest(q, n)[x - n] = q[n + 1 + (x - n) - 1]
      BY <2>2, <2>5, <2>6, <2>9
    <2>4. n + 1 + (x - n) - 1 = x
      BY <1>1, <1>2
    <2> QED
      BY <1>1, <2>3, <2>4 DEF Range
  <1> QED
    BY <1>1, <1>2, <1>3, <1>4

LEMMA HeadOrTail ==
  ASSUME NEW S, NEW q \in Seq(S), q # <<>>, NEW c \in Range(q)
  PROVE  c = Head(q) \/ c \in Range(Tail(q))
  <1>1. PICK x \in DOMAIN q : q[x] = c
    BY DEF Range
  <1>2. CASE x = 1
    BY <1>1, <1>2
  <1>3. CASE x # 1
    <2>1. x - 1 \in DOMAIN Tail(q) /\ Tail(q)[x - 1] = c
      BY <1>1, <1>3
    <2> QED
      BY <2>1 DEF Range
  <1> QED
    BY <1>2, <1>3

\* Where a dispatched command is: in an answer, in a device's hands, submitted, or gone.
Answered(s, c) == stage[s] = "reply" /\ c \in Range(rows[s])
Held(d, c) == c \in Range(todo[d])
Dropped(c) == c \in slipped \/ c \in cutOff \/ c \in lost

LEMMA AnsweredKept ==
  ASSUME TableInv, [Next]_vars, NEW c \in Cmds, NEW s \in Slots, Answered(s, c)
  PROVE  Answered(s, c)' \/ Dropped(c)' \/ \E d \in Devices : Held(d, c)'
  <1>0. /\ stage \in [Slots -> Stages] /\ rows \in [Slots -> Seq(Cmds)]
        /\ todo \in [Devices -> Seq(Cmds)]
        /\ stage[s] = "reply" /\ req[s].kind = "checkin"
    BY DEF Answered, TableInv, IdInv, CallInv, CallsOK, SlotOK, TypeOK, Range
  <1>3. ASSUME stage'[s] = stage[s], rows'[s] = rows[s] PROVE Answered(s, c)'
    BY <1>3 DEF Answered
  <1>4. ASSUME NEW u \in Slots, Handle(u), u # s PROVE Answered(s, c)'
    <2>1. stage'[s] = stage[s] /\ rows'[s] = rows[s]
      BY <1>0, <1>4
         DEF Handle, ConsumePairing, Register, Authenticate, AddDetections, SelectPending,
             MarkDispatched, StoreResult, AnswerEnroll, AnswerCheckin, AnswerResult, AnswerDenied,
             Goto, Finish
    <2> QED
      BY <1>3, <2>1
  <1>5. ASSUME Handle(s) PROVE Dropped(c)' \/ \E e \in Devices : Held(e, c)'
    <2>1. AnswerCheckin(s)
      BY <1>0, <1>5
         DEF Handle, ConsumePairing, Register, Authenticate, AddDetections, SelectPending,
             MarkDispatched, StoreResult, AnswerEnroll, AnswerResult, AnswerDenied
    <2>2. CASE Waiting(s) = {}
      BY <2>1, <2>2 DEF AnswerCheckin, Answered, Dropped
    <2>3. ASSUME NEW d \in Waiting(s) PROVE Dropped(c)' \/ \E e \in Devices : Held(e, c)'
      <3>1. /\ d \in Devices /\ todo'[d] = Take(rows[s], MaxHandled)
            /\ cutOff' = cutOff \cup Range(Rest(rows[s], MaxHandled))
        BY <2>1, <2>3 DEF AnswerCheckin, Waiting
      <3>2. c \in Range(Take(rows[s], MaxHandled)) \/ c \in Range(Rest(rows[s], MaxHandled))
        BY <1>0, TakeOrRest, FleetAssumption DEF Answered
      <3> QED
        BY <3>1, <3>2 DEF Dropped, Held
    <2> QED
      BY <2>2, <2>3
  <1>6. ASSUME NEW e \in Devices, SubmitResult(e) \/ CheckIn(e) \/ \E k \in Tokens : Pair(e, k)
        PROVE  Answered(s, c)'
    <2>1. PICK u \in Slots : \E r : Sends(e, u, r)
      BY <1>6, SendSteps
    <2>2. stage'[s] = stage[s] /\ rows'[s] = rows[s]
      BY <1>0, <2>1 DEF Sends
    <2> QED
      BY <1>3, <2>2
  <1>7. CASE RestartServer
    <2>1. InHand(s) = Range(rows[s])
      BY <1>0 DEF InHand
    <2> QED
      BY <1>7, <2>1 DEF RestartServer, Answered, Dropped
  <1>8. CASE Admin \/ UNCHANGED vars \/ (Fail /\ ~RestartServer) \/ \E e \in Devices : Execute(e)
    BY <1>3, <1>8 DEF Admin, IssueToken, ExpireToken, Revoke, QueueCommand, ExpireCommand,
           Fail, GiveUp, LoseCheckin, LoseResult, RestartAgent, Execute, vars, threads
  <1> QED
    BY <1>4, <1>5, <1>6, <1>7, <1>8 DEF Next, Work

LEMMA HeldKept ==
  ASSUME TableInv, [Next]_vars, NEW c \in Cmds, NEW d \in Devices, Held(d, c)
  PROVE  Held(d, c)' \/ Dropped(c)' \/ \E x \in submitted' : x.cmd = c
  <1>0. /\ todo \in [Devices -> Seq(Cmds)] /\ todo[d] # <<>> /\ CallOK(d)
    BY DEF Held, TableInv, IdInv, CallInv, CallsOK, TypeOK, Range
  <1>2. CASE todo'[d] = todo[d]
    BY <1>2 DEF Held
  <1>3. CASE SubmitResult(d) \/ LoseResult(d)
    <2>1. /\ todo'[d] = Tail(todo[d])
          /\ \/ [id |-> cred[d], cmd |-> Head(todo[d])] \in submitted'
             \/ Head(todo[d]) \in lost'
      BY <1>0, <1>3 DEF SubmitResult, LoseResult
    <2>2. c = Head(todo[d]) \/ c \in Range(Tail(todo[d]))
      BY <1>0, HeadOrTail DEF Held
    <2> QED
      BY <2>1, <2>2 DEF Held, Dropped
  <1>7. CASE RestartAgent(d)
    BY <1>7 DEF RestartAgent, Held, Dropped
  <1>4. ASSUME NEW s \in Slots, Handle(s) PROVE todo'[d] = todo[d]
    <2>1. AnswerCheckin(s) => d \notin Waiting(s)
      BY <1>0 DEF AnswerCheckin, Waiting, CallOK
    <2> QED
      BY <1>0, <1>4, <2>1
         DEF Handle, ConsumePairing, Register, Authenticate, AddDetections, SelectPending,
             MarkDispatched, StoreResult, AnswerEnroll, AnswerCheckin, AnswerResult,
             AnswerDenied, device
  <1>5. ASSUME NEW e \in Devices, ~SubmitResult(d), ~LoseResult(d), ~RestartAgent(d),
               \/ Work(e) \/ CheckIn(e) \/ GiveUp(e) \/ LoseCheckin(e) \/ LoseResult(e)
               \/ RestartAgent(e) \/ \E k \in Tokens : Pair(e, k)
        PROVE  todo'[d] = todo[d]
    BY <1>0, <1>5 DEF Work, Execute, SubmitResult, CheckIn, Pair, GiveUp, LoseCheckin, LoseResult,
                      RestartAgent
  <1>6. CASE Admin \/ UNCHANGED vars \/ RestartServer
    BY <1>2, <1>6 DEF Admin, IssueToken, ExpireToken, Revoke, QueueCommand, ExpireCommand,
                      RestartServer, vars, device
  <1> QED
    BY <1>2, <1>3, <1>4, <1>5, <1>6, <1>7 DEF Next, Fail

LEMMA DispatchedNow ==
  ASSUME DrainInv, [Next]_vars, NEW c \in Cmds, ~Dispatched(c), Dispatched(c)'
  PROVE  Dropped(c)' \/ \E s \in Slots : Answered(s, c)'
  <1>0. status \in [Cmds -> {"none", "pending", "dispatched", "done"}] /\ stage \in [Slots -> Stages]
    BY DEF DrainInv, TableInv, IdInv, CallInv, TypeOK
  <1>1. PICK s \in Slots : MarkDispatched(s)
    BY <1>0 DEF Next, Admin, IssueToken, ExpireToken, Revoke, QueueCommand, ExpireCommand, Handle,
           ConsumePairing, Register, Authenticate, AddDetections, SelectPending,
           StoreResult, AnswerEnroll, AnswerCheckin, AnswerResult, AnswerDenied, Work, Execute,
           SubmitResult, CheckIn, Pair, Fail, GiveUp, LoseCheckin, LoseResult, RestartAgent,
           RestartServer, vars, server, Dispatched
  <1>2. /\ stage[s] = "mark" /\ stage'[s] = "reply" /\ rows' = rows /\ rows[s] # <<>>
        /\ addressee[c] = req[s].id /\ status[c] = "pending" /\ slipped' = slipped
    BY <1>0, <1>1 DEF MarkDispatched, Goto, Dispatched, ghosts, drops
  <1>3. c \in Range(rows[s]) \/ c \in slipped
    BY <1>2 DEF DrainInv, Selected
  <1> QED
    BY <1>2, <1>3 DEF Answered, Dropped

LEMMA DrainNext == DrainInv /\ [Next]_vars => DrainInv'
  <1> SUFFICES ASSUME DrainInv, [Next]_vars PROVE DrainInv'
    OBVIOUS
  <1>1. TableInv'
    BY TableNext DEF DrainInv
  <1>2. \A s \in Slots : Selected(s)'
    BY SelectedKept DEF DrainInv
  <1>3. ASSUME NEW c \in Cmds, Dispatched(c)' PROVE OnItsWay(c)' \/ Dropped(c)'
    <2>1. CASE ~Dispatched(c)
      <3>1. Dropped(c)' \/ \E s \in Slots : Answered(s, c)'
        BY <1>3, <2>1, DispatchedNow
      <3> QED
        BY <3>1 DEF OnItsWay, Answered
    <2>2. CASE Dispatched(c)
      <3>1. \/ \E s \in Slots : Answered(s, c)
            \/ \E d \in Devices : Held(d, c)
            \/ \E x \in submitted : x.cmd = c
            \/ Dropped(c)
        BY <2>2 DEF DrainInv, DispatchedIsDelivered, OnItsWay, Answered, Held, Dropped
      <3>2. submitted \subseteq submitted' /\ (Dropped(c) => Dropped(c)')
        BY DropsGrow DEF Dropped
      <3>3. \/ \E s \in Slots : Answered(s, c)'
            \/ \E d \in Devices : Held(d, c)'
            \/ \E x \in submitted' : x.cmd = c
            \/ Dropped(c)'
        BY <3>1, <3>2, AnsweredKept, HeldKept DEF DrainInv
      <3> QED
        BY <3>3 DEF OnItsWay, Answered, Held
    <2> QED
      BY <2>1, <2>2
  <1> QED
    BY <1>1, <1>2, <1>3 DEF DrainInv, DispatchedIsDelivered, Dropped

(* The ways in which a command is dispatched and never handed to its agent, *)
(* although an administrator queues whenever he likes and a queue is as     *)
(* long as it is: it came between the two statements of pending_for, stood  *)
(* beyond the MaxHandled of an answer, or was lost with a call or a process.*)
THEOREM DispatchedIsDeliveredHolds == Spec => []DispatchedIsDelivered
  <1>1. DrainInv => DispatchedIsDelivered
    BY DEF DrainInv
  <1> QED
    BY DrainInit, DrainNext, <1>1, PTL DEF Spec

-----------------------------------------------------------------------------
(* Reports.                                                                 *)

In(r, q) == \E n \in DOMAIN q : q[n] = r
Distinct(q) == \A m, n \in DOMAIN q : q[m] = q[n] => m = n

\* The handler has not stored the reports of its request yet.
Sending(s) == stage[s] \in {"checkin", "detect"}

\* A report is in one place: an outbox, a request, or the table.
ReportsOK ==
  /\ \A d \in Devices : Distinct(outbox[d])
  /\ \A s \in Slots : Distinct(req[s].batch)
  /\ \A r \in Reports :
       /\ \A d, e \in Devices : In(r, outbox[d]) /\ In(r, outbox[e]) => d = e
       /\ \A s, u \in Slots : In(r, req[s].batch) /\ In(r, req[u].batch) => s = u
       /\ \A d \in Devices : \A s \in Slots : ~(In(r, outbox[d]) /\ In(r, req[s].batch))
       /\ detections[r] <= 1
       /\ detections[r] # 0 =>
            /\ \A d \in Devices : ~In(r, outbox[d])
            /\ \A s \in Slots : Sending(s) => ~In(r, req[s].batch)

ReportInv == CallInv /\ ReportsOK

LEMMA TakeRest ==
  ASSUME NEW q \in Seq(Reports), Distinct(q), NEW n \in Nat
  PROVE  /\ Distinct(Take(q, n)) /\ Distinct(Rest(q, n))
         /\ \A r : In(r, Take(q, n)) => In(r, q) /\ ~In(r, Rest(q, n))
         /\ \A r : In(r, Rest(q, n)) => In(r, q)
  <1>1. /\ DOMAIN q = 1..Len(q) /\ Len(q) \in Nat
        /\ \A m \in DOMAIN Take(q, n) : m \in DOMAIN q /\ m <= n /\ Take(q, n)[m] = q[m]
        /\ \A m \in DOMAIN Rest(q, n) : n + m \in DOMAIN q /\ m \in Nat \ {0}
                                        /\ Rest(q, n)[m] = q[n + m]
    BY DEF Take, Rest
  <1>2. Distinct(Take(q, n))
    BY <1>1 DEF Distinct
  <1>3. Distinct(Rest(q, n))
    BY <1>1 DEF Distinct
  <1>4. \A r : In(r, Take(q, n)) => In(r, q)
    BY <1>1 DEF In
  <1>5. \A r : In(r, Rest(q, n)) => In(r, q)
    BY <1>1 DEF In
  <1>6. ASSUME NEW r, In(r, Take(q, n)), In(r, Rest(q, n)) PROVE FALSE
    <2>1. PICK j \in DOMAIN Take(q, n) : Take(q, n)[j] = r
      BY <1>6 DEF In
    <2>2. PICK k \in DOMAIN Rest(q, n) : Rest(q, n)[k] = r
      BY <1>6 DEF In
    <2>3. j = n + k /\ j <= n /\ k \in Nat \ {0}
      BY <1>1, <2>1, <2>2 DEF Distinct
    <2> QED
      BY <2>3
  <1> QED
    BY <1>2, <1>3, <1>4, <1>5, <1>6

LEMMA ReportsInit == Init => ReportInv
  BY CallInit DEF Init, ReportInv, ReportsOK, In, Distinct, NoRequest

\* A step that brings no report to a new place.
LEMMA ReportsKept ==
  ASSUME ReportInv, detections' = detections,
         \A d \in Devices : /\ Distinct(outbox'[d])
                            /\ \A r \in Reports : In(r, outbox'[d]) => In(r, outbox[d]),
         \A s \in Slots : /\ Distinct(req'[s].batch)
                          /\ \A r \in Reports : In(r, req'[s].batch) =>
                               In(r, req[s].batch) /\ (Sending(s)' => Sending(s))
  PROVE  ReportsOK'
  <1>1. ASSUME NEW r \in Reports
        PROVE  /\ \A d, e \in Devices : In(r, outbox'[d]) /\ In(r, outbox'[e]) => d = e
               /\ \A s, u \in Slots : In(r, req'[s].batch) /\ In(r, req'[u].batch) => s = u
               /\ \A d \in Devices : \A s \in Slots : ~(In(r, outbox'[d]) /\ In(r, req'[s].batch))
               /\ detections'[r] <= 1
               /\ detections'[r] # 0 =>
                    /\ \A d \in Devices : ~In(r, outbox'[d])
                    /\ \A s \in Slots : Sending(s)' => ~In(r, req'[s].batch)
    BY <1>1 DEF ReportInv, ReportsOK
  <1> QED
    BY <1>1 DEF ReportsOK

LEMMA CheckInReports ==
  ASSUME ReportInv, NEW d \in Devices, CheckIn(d) PROVE ReportsOK'
  <1> DEFINE r == [NoRequest EXCEPT !.kind = "checkin", !.dev = d, !.id = cred[d],
                                    !.batch = Take(outbox[d], ReportBatch)]
  <1>1. /\ outbox' = [outbox EXCEPT ![d] = Rest(@, ReportBatch)] /\ Send(d, r)
        /\ outbox \in [Devices -> Seq(Reports)] /\ detections' = detections
        /\ req \in [Slots -> Request] /\ stage \in [Slots -> Stages]
    BY DEF CheckIn, server, ReportInv, CallInv, TypeOK
  <1>2. r.batch = Take(outbox[d], ReportBatch)
    BY DEF NoRequest
  <1> HIDE DEF r
  <1>3. PICK s \in Slots :
          /\ stage[s] = "free" /\ req' = [req EXCEPT ![s] = r]
          /\ stage' = [stage EXCEPT ![s] = r.kind]
    BY <1>1 DEF Send, Goto
  <1>4. /\ req'[s].batch = Take(outbox[d], ReportBatch) /\ outbox'[d] = Rest(outbox[d], ReportBatch)
        /\ \A u \in Slots \ {s} : req'[u] = req[u] /\ stage'[u] = stage[u]
        /\ \A e \in Devices \ {d} : outbox'[e] = outbox[e]
    BY <1>1, <1>2, <1>3
  <1>5. /\ Distinct(req'[s].batch) /\ Distinct(outbox'[d])
        /\ \A x : In(x, req'[s].batch) => In(x, outbox[d]) /\ ~In(x, outbox'[d])
        /\ \A x : In(x, outbox'[d]) => In(x, outbox[d])
    <2>1. outbox[d] \in Seq(Reports) /\ Distinct(outbox[d]) /\ ReportBatch \in Nat
      BY <1>1, FleetAssumption DEF ReportInv, ReportsOK
    <2> QED
      BY <1>4, <2>1, TakeRest
  <1>6. /\ \A u \in Slots \ {s} : Sending(u)' <=> Sending(u)
        /\ \A e \in Devices : Distinct(outbox'[e])
        /\ \A u \in Slots : Distinct(req'[u].batch)
    BY <1>4, <1>5 DEF Sending, ReportInv, ReportsOK
  <1>7. ASSUME NEW x \in Reports
        PROVE  /\ \A e, f \in Devices : In(x, outbox'[e]) /\ In(x, outbox'[f]) => e = f
               /\ \A t, u \in Slots : In(x, req'[t].batch) /\ In(x, req'[u].batch) => t = u
               /\ \A e \in Devices : \A u \in Slots : ~(In(x, outbox'[e]) /\ In(x, req'[u].batch))
               /\ detections'[x] <= 1
               /\ detections'[x] # 0 =>
                    /\ \A e \in Devices : ~In(x, outbox'[e])
                    /\ \A u \in Slots : Sending(u)' => ~In(x, req'[u].batch)
    <2>1. /\ \A e \in Devices : In(x, outbox'[e]) => In(x, outbox[e])
          /\ \A u \in Slots \ {s} : In(x, req'[u].batch) <=> In(x, req[u].batch)
      BY <1>4, <1>5
    <2>2. /\ \A e, f \in Devices : In(x, outbox[e]) /\ In(x, outbox[f]) => e = f
          /\ \A t, u \in Slots : In(x, req[t].batch) /\ In(x, req[u].batch) => t = u
          /\ \A e \in Devices : \A u \in Slots : ~(In(x, outbox[e]) /\ In(x, req[u].batch))
          /\ detections[x] <= 1
          /\ detections[x] # 0 =>
               /\ \A e \in Devices : ~In(x, outbox[e])
               /\ \A u \in Slots : Sending(u) => ~In(x, req[u].batch)
      BY DEF ReportInv, ReportsOK
    <2> QED
      BY <1>1, <1>4, <1>5, <1>6, <2>1, <2>2
  <1> QED
    BY <1>6, <1>7 DEF ReportsOK

LEMMA DetectReports ==
  ASSUME ReportInv, NEW s \in Slots, AddDetections(s) PROVE ReportsOK'
  <1>1. /\ stage[s] = "detect" /\ req' = req /\ outbox' = outbox
        /\ stage' = [stage EXCEPT ![s] = "select"] /\ stage \in [Slots -> Stages]
        /\ detections \in [Reports -> Nat] /\ req[s] \in Request
    BY DEF AddDetections, Goto, device, ReportInv, CallInv, TypeOK
  <1>2. /\ ~Sending(s)' /\ Sending(s)
        /\ \A u \in Slots \ {s} : Sending(u)' <=> Sending(u)
    BY <1>1 DEF Sending
  <1>3. req[s].batch \in Seq(Reports) /\ Distinct(req[s].batch)
    BY <1>1 DEF Request, ReportInv, ReportsOK
  <1>4. ASSUME NEW r \in Reports
        PROVE  /\ detections'[r] <= 1
               /\ detections'[r] # 0 => detections[r] # 0 \/ In(r, req[s].batch)
    <2> DEFINE n == Cardinality({k \in DOMAIN req[s].batch : req[s].batch[k] = r})
    <2>1. detections'[r] = detections[r] + n
      BY DEF AddDetections
    <2>2. n \in Nat /\ n <= 1 /\ (~In(r, req[s].batch) => n = 0)
      <3> DEFINE H == {k \in DOMAIN req[s].batch : req[s].batch[k] = r}
      <3>1. /\ Cardinality(H) \in Nat
            /\ H = {} => Cardinality(H) = 0
            /\ (\A j, k \in H : j = k) => Cardinality(H) <= 1
        BY <1>3, CountOf
      <3>2. (\A j, k \in H : j = k) /\ (~In(r, req[s].batch) => H = {})
        BY <1>3 DEF In, Distinct
      <3> QED
        BY <3>1, <3>2
    <2>3. detections[r] <= 1 /\ detections[r] \in Nat /\ (detections[r] # 0
            => ~In(r, req[s].batch))
      BY <1>1, <1>2 DEF ReportInv, ReportsOK
    <2> HIDE DEF n
    <2> QED
      BY <2>1, <2>2, <2>3
  <1>5. ASSUME NEW r \in Reports
        PROVE  /\ \A d, e \in Devices : In(r, outbox[d]) /\ In(r, outbox[e]) => d = e
               /\ \A t, u \in Slots : In(r, req[t].batch) /\ In(r, req[u].batch) => t = u
               /\ \A d \in Devices : \A u \in Slots : ~(In(r, outbox[d]) /\ In(r, req[u].batch))
               /\ detections'[r] <= 1
               /\ detections'[r] # 0 =>
                    /\ \A d \in Devices : ~In(r, outbox[d])
                    /\ \A u \in Slots : Sending(u)' => ~In(r, req[u].batch)
    BY <1>2, <1>4 DEF ReportInv, ReportsOK
  <1>6. (\A d \in Devices : Distinct(outbox[d])) /\ (\A u \in Slots : Distinct(req[u].batch))
    BY DEF ReportInv, ReportsOK
  <1> QED
    BY <1>1, <1>5, <1>6 DEF ReportsOK

LEMMA ExecuteReports ==
  ASSUME ReportInv, NEW d \in Devices, Execute(d) PROVE ReportsOK'
  <1>1. /\ detections' = detections /\ threads' = threads
        /\ outbox \in [Devices -> Seq(Reports)]
    BY DEF Execute, server, ReportInv, CallInv, TypeOK
  <1>2. CASE outbox' = outbox
    BY <1>1, <1>2, ReportsKept DEF threads, Sending, ReportInv, ReportsOK
  <1>3. ASSUME NEW r \in Reports, outbox' = [outbox EXCEPT ![d] = Append(@, r)],
               \A e \in Devices : ~In(r, outbox[e]), detections[r] = 0,
               \A s \in Slots : ~In(r, req[s].batch)
        PROVE  ReportsOK'
    <2>0. outbox[d] \in Seq(Reports) /\ outbox'[d] = Append(outbox[d], r)
      BY <1>1, <1>3
    <2>1. /\ DOMAIN outbox[d] = 1..Len(outbox[d]) /\ Len(outbox[d]) \in Nat
          /\ DOMAIN outbox'[d] = 1..(Len(outbox[d]) + 1)
          /\ \A n \in 1..Len(outbox[d]) : outbox'[d][n] = outbox[d][n]
          /\ outbox'[d][Len(outbox[d]) + 1] = r
      BY <2>0
    <2>2. \A x : In(x, outbox'[d]) => In(x, outbox[d]) \/ x = r
      BY <2>1 DEF In
    <2>3. Distinct(outbox'[d])
      BY <1>3, <2>1 DEF Distinct, In, ReportInv, ReportsOK
    <2>4. \A e \in Devices \ {d} : outbox'[e] = outbox[e]
      BY <1>1, <1>3
    <2>5. ASSUME NEW x \in Reports
          PROVE  /\ \A e, f \in Devices : In(x, outbox'[e]) /\ In(x, outbox'[f]) => e = f
                 /\ \A t, u \in Slots : In(x, req[t].batch) /\ In(x, req[u].batch) => t = u
                 /\ \A e \in Devices : \A u \in Slots : ~(In(x, outbox'[e]) /\ In(x, req[u].batch))
                 /\ detections[x] <= 1
                 /\ detections[x] # 0 =>
                      /\ \A e \in Devices : ~In(x, outbox'[e])
                      /\ \A u \in Slots : Sending(u) => ~In(x, req[u].batch)
      BY <1>3, <2>2, <2>4 DEF ReportInv, ReportsOK
    <2>6. (\A e \in Devices : Distinct(outbox'[e])) /\ (\A u \in Slots : Distinct(req[u].batch))
      BY <2>3, <2>4 DEF ReportInv, ReportsOK
    <2> QED
      BY <1>1, <2>5, <2>6 DEF ReportsOK, threads, Sending
  <1> QED
    BY <1>2, <1>3 DEF Execute, In

LEMMA ReportsNext == ReportInv /\ [Next]_vars => ReportInv'
  <1> SUFFICES ASSUME ReportInv, [Next]_vars PROVE ReportsOK'
    BY CallNext DEF ReportInv
  <1>0. /\ req \in [Slots -> Request] /\ stage \in [Slots -> Stages]
        /\ outbox \in [Devices -> Seq(Reports)]
        /\ (\A d \in Devices : Distinct(outbox[d])) /\ (\A s \in Slots : Distinct(req[s].batch))
    BY DEF ReportInv, CallInv, TypeOK, ReportsOK
  <1>1. ASSUME detections' = detections, outbox' = outbox,
               \A s \in Slots : \/ req'[s].batch = <<>>
                                \/ req'[s].batch = req[s].batch /\ (Sending(s)' => Sending(s))
        PROVE  ReportsOK'
    <2>1. ASSUME NEW s \in Slots
          PROVE  /\ Distinct(req'[s].batch)
                 /\ \A r \in Reports : In(r, req'[s].batch) =>
                      In(r, req[s].batch) /\ (Sending(s)' => Sending(s))
      BY <1>0, <1>1 DEF Distinct, In
    <2> QED
      BY <1>0, <1>1, <2>1, ReportsKept
  <1>2. CASE Admin \/ UNCHANGED vars
    BY <1>1, <1>2 DEF Admin, IssueToken, ExpireToken, Revoke, QueueCommand, ExpireCommand,
           vars, server, threads, device, Sending
  <1>3. ASSUME NEW s \in Slots, Handle(s) PROVE ReportsOK'
    <2>1. CASE AddDetections(s)
      BY <2>1, DetectReports
    <2>2. CASE ConsumePairing(s) \/ Register(s) \/ Authenticate(s) \/ SelectPending(s)
               \/ MarkDispatched(s) \/ StoreResult(s)
      <3>1. /\ detections' = detections /\ outbox' = outbox
            /\ \A u \in Slots \ {s} : stage'[u] = stage[u] /\ req'[u] = req[u]
            /\ Sending(s)' => Sending(s)
            /\ req' = req \/ \E i \in Ids : req' = [req EXCEPT ![s].id = i]
        BY <1>0, <2>2 DEF ConsumePairing, Register, Authenticate, SelectPending, MarkDispatched,
               StoreResult, Goto, Sending, server, device
      <3>2. req'[s].batch = req[s].batch
        <4>1. ASSUME NEW i \in Ids,
                     req' = [req EXCEPT ![s].id = i] PROVE req'[s].batch = req[s].batch
          <5>1. req[s] \in Request /\ req' = [req EXCEPT ![s] = [req[s] EXCEPT !.id = i]]
            BY <1>0, <4>1
          <5>2. [req[s] EXCEPT !.id = i].batch = req[s].batch
            BY <5>1 DEF Request
          <5> QED
            BY <1>0, <5>1, <5>2
        <4> QED
          BY <3>1, <4>1
      <3> QED
        BY <1>1, <3>1, <3>2 DEF Sending
    <2>3. CASE AnswerEnroll(s) \/ AnswerCheckin(s) \/ AnswerResult(s) \/ AnswerDenied(s)
      <3>1. detections' = detections /\ outbox' = outbox /\ Finish(s)
        BY <2>3 DEF AnswerEnroll, AnswerCheckin, AnswerResult, AnswerDenied, server
      <3>2. \A u \in Slots : \/ req'[u].batch = <<>>
                             \/ req'[u].batch = req[u].batch /\ stage'[u] = stage[u]
        BY <1>0, <3>1 DEF Finish, NoRequest
      <3> QED
        BY <1>1, <3>1, <3>2 DEF Sending
    <2> QED
      BY <1>3, <2>1, <2>2, <2>3 DEF Handle
  <1>4. ASSUME NEW d \in Devices, SubmitResult(d) \/ \E k \in Tokens : Pair(d, k)
        PROVE  ReportsOK'
    <2>1. ASSUME NEW r, r.batch = <<>>, Send(d, r), detections' = detections, outbox' = outbox
          PROVE  ReportsOK'
      <3>1. PICK s \in Slots : req' = [req EXCEPT ![s] = r] /\ stage' = [stage EXCEPT ![s] = r.kind]
        BY <2>1 DEF Send, Goto
      <3>2. \A u \in Slots : \/ req'[u].batch = <<>>
                             \/ req'[u].batch = req[u].batch /\ stage'[u] = stage[u]
        BY <1>0, <2>1, <3>1
      <3> QED
        BY <1>1, <2>1, <3>2 DEF Sending
    <2>2. CASE SubmitResult(d)
      <3> DEFINE r == [NoRequest EXCEPT !.kind = "result", !.dev = d, !.id = cred[d],
                                        !.cmd = Head(todo[d])]
      <3>1. Send(d, r) /\ detections' = detections /\ outbox' = outbox /\ r.batch = <<>>
        BY <2>2 DEF SubmitResult, server, NoRequest
      <3> HIDE DEF r
      <3> QED
        BY <2>1, <3>1
    <2>3. ASSUME NEW k \in Tokens, Pair(d, k) PROVE ReportsOK'
      <3> DEFINE r == [NoRequest EXCEPT !.kind = "enroll", !.dev = d, !.token = k]
      <3>1. Send(d, r) /\ detections' = detections /\ outbox' = outbox /\ r.batch = <<>>
        BY <2>3 DEF Pair, server, NoRequest
      <3> HIDE DEF r
      <3> QED
        BY <2>1, <3>1
    <2> QED
      BY <1>4, <2>2, <2>3
  <1>5. CASE Fail
    <2>1. /\ detections' = detections
          /\ threads' = threads \/ \A s \in Slots : req'[s].batch = <<>>
      BY <1>5 DEF Fail, GiveUp, LoseCheckin, LoseResult, RestartAgent, RestartServer, server,
                  NoRequest
    <2>2. ASSUME NEW d \in Devices
          PROVE  outbox'[d] \in {outbox[d], <<>>, Rest(outbox[d], ReportBatch)}
      BY <1>0, <1>5 DEF Fail, GiveUp, LoseCheckin, LoseResult, RestartAgent, RestartServer
    <2>3. ASSUME NEW d \in Devices
          PROVE  /\ Distinct(outbox'[d])
                 /\ \A r \in Reports : In(r, outbox'[d]) => In(r, outbox[d])
      <3>1. outbox[d] \in Seq(Reports) /\ Distinct(outbox[d]) /\ ReportBatch \in Nat
        BY <1>0, FleetAssumption
      <3>2. Distinct(<<>>) /\ \A r : ~In(r, <<>>)
        BY DEF Distinct, In
      <3> QED
        BY <2>2, <3>1, <3>2, TakeRest
    <2>4. ASSUME NEW s \in Slots
          PROVE  /\ Distinct(req'[s].batch)
                 /\ \A r \in Reports : In(r, req'[s].batch) =>
                      In(r, req[s].batch) /\ (Sending(s)' => Sending(s))
      BY <1>0, <2>1 DEF threads, Sending, Distinct, In
    <2> QED
      BY <2>1, <2>3, <2>4, ReportsKept
  <1> QED
    BY <1>2, <1>3, <1>4, <1>5, CheckInReports, ExecuteReports DEF Next, Work

(* A detection is in one place at a time - a device's outbox, one request   *)
(* or the fleet table - so that add_detections inserts it once, whatever    *)
(* call is given up, lost or repeated by a restart.                         *)
THEOREM ReportedOnceHolds == Spec => []ReportedOnce
  <1>1. ReportInv => ReportedOnce
    BY DEF ReportInv, ReportsOK, ReportedOnce
  <1> QED
    BY ReportsInit, ReportsNext, <1>1, PTL DEF Spec
=============================================================================
