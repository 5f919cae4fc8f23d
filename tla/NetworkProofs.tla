---------------------------- MODULE NetworkProofs ----------------------------
(****************************************************************************)
(* Theorems about Network for every value of its constants: any number of   *)
(* threads, with commands beside the running service, and either enforcer.  *)
(****************************************************************************)
EXTENDS Network, TLAPS

Labels == {"idle", "feed", "join", "change", "test", "set", "import", "list", "write", "wait"}

\* The locals of the threads, and what they are at some labels: which call an
\* update belongs to, and what a change is about.
LocalsOK ==
  /\ pc \in [Threads -> Labels] /\ op \in [Threads -> Ops \cup {"none"}]
  /\ dom \in [Threads -> Domains \cup {Nothing}]
  /\ list \in [Threads -> SUBSET Domains]
  /\ \A t \in Threads :
       /\ pc[t] \in {"wait", "test", "set", "import"} => op[t] = "update"
       /\ pc[t] = "change" => dom[t] \in Domains

DataOK ==
  /\ primary \subseteq Domains /\ custom \subseteq Domains /\ hosts \subseteq Domains
  /\ blocked \subseteq Domains /\ kept \subseteq Domains /\ unseen \subseteq Domains
  /\ enforcer \in Enforcers
  /\ cmd \in [op : {"none", "block", "unblock", "update"}, mem : SUBSET Domains]

FlagsOK ==
  /\ up \in BOOLEAN /\ updating \in BOOLEAN /\ feedStop \in BOOLEAN /\ connStop \in BOOLEAN
  /\ watching \in BOOLEAN /\ disturbed \in BOOLEAN /\ wanted \in {"on", "off"}

CountsOK == starts \in 0..MaxStarts /\ calls \in 0..MaxCalls /\ faults \in 0..MaxFaults

\* A service that is not up has no threads and has not been started.
DownIsIdle == ~up => wanted = "off" /\ \A t \in Threads : pc[t] = "idle"

Base == LocalsOK /\ DataOK /\ FlagsOK /\ CountsOK /\ DownIsIdle

LEMMA BaseTypes == Base => TypeOK
  BY DEF Base, LocalsOK, DataOK, FlagsOK, CountsOK, TypeOK, Labels

LEMMA Bounds == MaxStarts \in Nat /\ MaxCalls \in Nat /\ MaxFaults \in Nat
  BY NetworkAssumption

LEMMA FewDomains == Named \subseteq Domains
  BY NetworkAssumption

LEMMA BaseInit == Init => Base
  <1> SUFFICES ASSUME Init PROVE Base
    OBVIOUS
  <1>1. LocalsOK
    BY DEF Init, LocalsOK, Labels
  <1>2. DataOK
    BY DEF Init, DataOK, NoCommand
  <1>3. FlagsOK
    BY DEF Init, FlagsOK
  <1>4. CountsOK
    BY Bounds DEF Init, CountsOK
  <1>5. DownIsIdle
    BY DEF Init, DownIsIdle
  <1> QED
    BY <1>1, <1>2, <1>3, <1>4, <1>5 DEF Base

\* The calls keep Base.
LEMMA BaseCall ==
  ASSUME Base, NEW t \in Callers, Call(t) PROVE Base'
  <1> USE DEF Base
  <1>0. t \in Threads
    BY DEF Threads
  <1>1. CASE CallStart(t)
    <2>1. LocalsOK'
      BY <1>0, <1>1 DEF CallStart, Enter, Goto, files, locals, flags, ghosts, bounds, LocalsOK, Labels, Ops
    <2>2. DataOK'
      BY <1>0, <1>1, FewDomains DEF CallStart, Enter, Goto, files, locals, flags, ghosts, bounds, DataOK, LocalsOK
    <2>3. FlagsOK'
      BY <1>0, <1>1 DEF CallStart, Enter, Goto, files, locals, flags, ghosts, bounds, FlagsOK
    <2>4. CountsOK'
      BY <1>0, <1>1, Bounds DEF CallStart, Enter, Goto, files, locals, flags, ghosts, bounds, CountsOK
    <2>5. DownIsIdle'
      BY <1>0, <1>1 DEF CallStart, Enter, Goto, files, locals, flags, ghosts, bounds, DownIsIdle, LocalsOK
    <2> QED
      BY <2>1, <2>2, <2>3, <2>4, <2>5 DEF Base
  <1>2. CASE CallStop(t)
    <2>1. LocalsOK'
      BY <1>0, <1>2 DEF CallStop, Enter, Goto, files, locals, flags, ghosts, bounds, LocalsOK, Labels, Ops
    <2>2. DataOK'
      BY <1>0, <1>2, FewDomains DEF CallStop, Enter, Goto, files, locals, flags, ghosts, bounds, DataOK, LocalsOK
    <2>3. FlagsOK'
      BY <1>0, <1>2 DEF CallStop, Enter, Goto, files, locals, flags, ghosts, bounds, FlagsOK
    <2>4. CountsOK'
      BY <1>0, <1>2, Bounds DEF CallStop, Enter, Goto, files, locals, flags, ghosts, bounds, CountsOK
    <2>5. DownIsIdle'
      BY <1>0, <1>2 DEF CallStop, Enter, Goto, files, locals, flags, ghosts, bounds, DownIsIdle, LocalsOK
    <2> QED
      BY <2>1, <2>2, <2>3, <2>4, <2>5 DEF Base
  <1>3. CASE CallUpdate(t)
    <2>1. LocalsOK'
      BY <1>0, <1>3 DEF CallUpdate, Enter, Goto, files, locals, flags, ghosts, bounds, LocalsOK, Labels, Ops
    <2>2. DataOK'
      BY <1>0, <1>3, FewDomains DEF CallUpdate, Enter, Goto, files, locals, flags, ghosts, bounds, DataOK, LocalsOK
    <2>3. FlagsOK'
      BY <1>0, <1>3 DEF CallUpdate, Enter, Goto, files, locals, flags, ghosts, bounds, FlagsOK
    <2>4. CountsOK'
      BY <1>0, <1>3, Bounds DEF CallUpdate, Enter, Goto, files, locals, flags, ghosts, bounds, CountsOK
    <2>5. DownIsIdle'
      BY <1>0, <1>3 DEF CallUpdate, Enter, Goto, files, locals, flags, ghosts, bounds, DownIsIdle, LocalsOK
    <2> QED
      BY <2>1, <2>2, <2>3, <2>4, <2>5 DEF Base
  <1>4. ASSUME NEW o \in Ops, NEW d \in Domains, CallBlock(t, o, d) PROVE Base'
    <2>1. LocalsOK'
      BY <1>0, <1>4 DEF CallBlock, Enter, Goto, files, locals, flags, ghosts, bounds, LocalsOK, Labels, Ops
    <2>2. DataOK'
      BY <1>0, <1>4, FewDomains DEF CallBlock, Enter, Goto, files, locals, flags, ghosts, bounds, DataOK, LocalsOK
    <2>3. FlagsOK'
      BY <1>0, <1>4 DEF CallBlock, Enter, Goto, files, locals, flags, ghosts, bounds, FlagsOK
    <2>4. CountsOK'
      BY <1>0, <1>4, Bounds DEF CallBlock, Enter, Goto, files, locals, flags, ghosts, bounds, CountsOK
    <2>5. DownIsIdle'
      BY <1>0, <1>4 DEF CallBlock, Enter, Goto, files, locals, flags, ghosts, bounds, DownIsIdle, LocalsOK
    <2> QED
      BY <2>1, <2>2, <2>3, <2>4, <2>5 DEF Base
  <1> QED
    BY <1>1, <1>2, <1>3, <1>4 DEF Call

\* The steps of a call or a feed loop keep Base.
LEMMA BaseStep ==
  ASSUME Base, NEW t \in Threads, Step(t) PROVE Base'
  <1> USE DEF Base
  <1>1. CASE StartFeed(t)
    <2>0. PICK l \in FeedLoops : /\ pc' = [pc EXCEPT ![l] = "test", ![t] = "idle"]
                                 /\ op' = [op EXCEPT ![l] = "update", ![t] = "none"]
                                 /\ l \in Threads /\ pc[l] = "idle"
      BY <1>1 DEF StartFeed, Threads
    <2>1. LocalsOK'
      BY <1>1, <2>0 DEF StartFeed, LocalsOK, Labels, Ops
    <2>2. DataOK' /\ FlagsOK' /\ CountsOK'
      BY <1>1 DEF StartFeed, DataOK, FlagsOK, CountsOK, files, ghosts, bounds
    <2>3. DownIsIdle'
      BY <1>1 DEF StartFeed, DownIsIdle
    <2> QED
      BY <2>1, <2>2, <2>3
  <1>2. CASE Join(t)
    <2>1. LocalsOK'
      BY <1>2 DEF Join, Return, Goto, files, locals, flags, ghosts, bounds, LocalsOK, Labels, Ops
    <2>2. DataOK'
      BY <1>2, FewDomains DEF Join, Return, Goto, files, locals, flags, ghosts, bounds, DataOK, LocalsOK
    <2>3. FlagsOK'
      BY <1>2 DEF Join, Return, Goto, files, locals, flags, ghosts, bounds, FlagsOK
    <2>4. CountsOK'
      BY <1>2, Bounds DEF Join, Return, Goto, files, locals, flags, ghosts, bounds, CountsOK
    <2>5. DownIsIdle'
      BY <1>2 DEF Join, Return, Goto, files, locals, flags, ghosts, bounds, DownIsIdle, LocalsOK
    <2> QED
      BY <2>1, <2>2, <2>3, <2>4, <2>5 DEF Base
  <1>3. CASE Change(t)
    <2>1. LocalsOK'
      BY <1>3 DEF Change, CustomOf, Remember, Return, Goto, SaveFails, files, locals, flags, ghosts, bounds, LocalsOK, Labels, Ops
    <2>2. DataOK'
      BY <1>3, FewDomains DEF Change, CustomOf, Remember, Return, Goto, SaveFails, files, locals, flags, ghosts, bounds, DataOK, LocalsOK
    <2>3. FlagsOK'
      BY <1>3 DEF Change, CustomOf, Remember, Return, Goto, SaveFails, files, locals, flags, ghosts, bounds, FlagsOK
    <2>4. CountsOK'
      BY <1>3, Bounds DEF Change, CustomOf, Remember, Return, Goto, SaveFails, files, locals, flags, ghosts, bounds, CountsOK
    <2>5. DownIsIdle'
      BY <1>3 DEF Change, CustomOf, Remember, Return, Goto, SaveFails, files, locals, flags, ghosts, bounds, DownIsIdle, LocalsOK
    <2> QED
      BY <2>1, <2>2, <2>3, <2>4, <2>5 DEF Base
  <1>4. CASE TestUpdating(t)
    <2>1. LocalsOK'
      BY <1>4 DEF TestUpdating, Return, Goto, files, locals, flags, ghosts, bounds, LocalsOK, Labels, Ops
    <2>2. DataOK'
      BY <1>4, FewDomains DEF TestUpdating, Return, Goto, files, locals, flags, ghosts, bounds, DataOK, LocalsOK
    <2>3. FlagsOK'
      BY <1>4 DEF TestUpdating, Return, Goto, files, locals, flags, ghosts, bounds, FlagsOK
    <2>4. CountsOK'
      BY <1>4, Bounds DEF TestUpdating, Return, Goto, files, locals, flags, ghosts, bounds, CountsOK
    <2>5. DownIsIdle'
      BY <1>4 DEF TestUpdating, Return, Goto, files, locals, flags, ghosts, bounds, DownIsIdle, LocalsOK
    <2> QED
      BY <2>1, <2>2, <2>3, <2>4, <2>5 DEF Base
  <1>5. CASE SetUpdating(t)
    <2>1. LocalsOK'
      BY <1>5 DEF SetUpdating, Goto, files, locals, flags, ghosts, bounds, LocalsOK, Labels, Ops
    <2>2. DataOK'
      BY <1>5, FewDomains DEF SetUpdating, Goto, files, locals, flags, ghosts, bounds, DataOK, LocalsOK
    <2>3. FlagsOK'
      BY <1>5 DEF SetUpdating, Goto, files, locals, flags, ghosts, bounds, FlagsOK
    <2>4. CountsOK'
      BY <1>5, Bounds DEF SetUpdating, Goto, files, locals, flags, ghosts, bounds, CountsOK
    <2>5. DownIsIdle'
      BY <1>5 DEF SetUpdating, Goto, files, locals, flags, ghosts, bounds, DownIsIdle, LocalsOK
    <2> QED
      BY <2>1, <2>2, <2>3, <2>4, <2>5 DEF Base
  <1>6. CASE Import(t)
    <2>1. LocalsOK'
      BY <1>6 DEF Import, Return, Goto, SaveFails, Overtaken, files, locals, flags, ghosts, bounds, LocalsOK, Labels, Ops
    <2>2. DataOK'
      BY <1>6, FewDomains DEF Import, Return, Goto, SaveFails, Overtaken, files, locals, flags, ghosts, bounds, DataOK, LocalsOK
    <2>3. FlagsOK'
      BY <1>6 DEF Import, Return, Goto, SaveFails, Overtaken, files, locals, flags, ghosts, bounds, FlagsOK
    <2>4. CountsOK'
      BY <1>6, Bounds DEF Import, Return, Goto, SaveFails, Overtaken, files, locals, flags, ghosts, bounds, CountsOK
    <2>5. DownIsIdle'
      BY <1>6 DEF Import, Return, Goto, SaveFails, Overtaken, files, locals, flags, ghosts, bounds, DownIsIdle, LocalsOK
    <2> QED
      BY <2>1, <2>2, <2>3, <2>4, <2>5 DEF Base
  <1>7. CASE ListDomains(t)
    <2>1. LocalsOK'
      BY <1>7 DEF ListDomains, Goto, DataOK, files, locals, flags, ghosts, bounds, LocalsOK, Labels, Ops
    <2>2. DataOK'
      BY <1>7, FewDomains DEF ListDomains, Goto, files, locals, flags, ghosts, bounds, DataOK, LocalsOK
    <2>3. FlagsOK'
      BY <1>7 DEF ListDomains, Goto, DataOK, files, locals, flags, ghosts, bounds, FlagsOK
    <2>4. CountsOK'
      BY <1>7, Bounds DEF ListDomains, Goto, DataOK, files, locals, flags, ghosts, bounds, CountsOK
    <2>5. DownIsIdle'
      BY <1>7 DEF ListDomains, Goto, DataOK, files, locals, flags, ghosts, bounds, DownIsIdle, LocalsOK
    <2> QED
      BY <2>1, <2>2, <2>3, <2>4, <2>5 DEF Base
  <1>8. CASE WriteHosts(t)
    <2>1. LocalsOK'
      BY <1>8 DEF WriteHosts, Return, Goto, SaveFails, Overtaken, files, locals, flags, ghosts, bounds, LocalsOK, Labels, Ops
    <2>2. DataOK'
      BY <1>8, FewDomains DEF WriteHosts, Return, Goto, SaveFails, Overtaken, files, locals, flags, ghosts, bounds, DataOK, LocalsOK
    <2>3. FlagsOK'
      BY <1>8 DEF WriteHosts, Return, Goto, SaveFails, Overtaken, files, locals, flags, ghosts, bounds, FlagsOK
    <2>4. CountsOK'
      BY <1>8, Bounds DEF WriteHosts, Return, Goto, SaveFails, Overtaken, files, locals, flags, ghosts, bounds, CountsOK
    <2>5. DownIsIdle'
      BY <1>8 DEF WriteHosts, Return, Goto, SaveFails, Overtaken, files, locals, flags, ghosts, bounds, DownIsIdle, LocalsOK
    <2> QED
      BY <2>1, <2>2, <2>3, <2>4, <2>5 DEF Base
  <1> QED
    BY <1>1, <1>2, <1>3, <1>4, <1>5, <1>6, <1>7, <1>8 DEF Step

LEMMA BaseNext == Base /\ [Next]_vars => Base'
  <1> SUFFICES ASSUME Base, [Next]_vars PROVE Base'
    OBVIOUS
  <1> USE DEF Base
  <1>1. CASE UNCHANGED vars
    <2>1. LocalsOK'
      BY <1>1 DEF vars, files, locals, flags, ghosts, bounds, LocalsOK, Labels, Ops
    <2>2. DataOK'
      BY <1>1, FewDomains DEF vars, files, locals, flags, ghosts, bounds, DataOK, LocalsOK
    <2>3. FlagsOK'
      BY <1>1 DEF vars, files, locals, flags, ghosts, bounds, FlagsOK
    <2>4. CountsOK'
      BY <1>1, Bounds DEF vars, files, locals, flags, ghosts, bounds, CountsOK
    <2>5. DownIsIdle'
      BY <1>1 DEF vars, files, locals, flags, ghosts, bounds, DownIsIdle, LocalsOK
    <2> QED
      BY <2>1, <2>2, <2>3, <2>4, <2>5 DEF Base
  <1>2. CASE Boot
    <2>1. LocalsOK'
      BY <1>2 DEF Boot, Loaded, files, locals, flags, ghosts, bounds, LocalsOK, Labels, Ops
    <2>2. DataOK'
      BY <1>2, FewDomains DEF Boot, Loaded, files, locals, flags, ghosts, bounds, DataOK, LocalsOK
    <2>3. FlagsOK'
      BY <1>2 DEF Boot, Loaded, files, locals, flags, ghosts, bounds, FlagsOK
    <2>4. CountsOK'
      BY <1>2, Bounds DEF Boot, Loaded, files, locals, flags, ghosts, bounds, CountsOK
    <2>5. DownIsIdle'
      BY <1>2 DEF Boot, Loaded, files, locals, flags, ghosts, bounds, DownIsIdle, LocalsOK
    <2> QED
      BY <2>1, <2>2, <2>3, <2>4, <2>5 DEF Base
  <1>3. CASE Kill
    <2>1. LocalsOK'
      BY <1>3 DEF Kill, files, locals, flags, ghosts, bounds, LocalsOK, Labels, Ops
    <2>2. DataOK'
      BY <1>3, FewDomains DEF Kill, files, locals, flags, ghosts, bounds, DataOK, LocalsOK
    <2>3. FlagsOK'
      BY <1>3 DEF Kill, files, locals, flags, ghosts, bounds, FlagsOK
    <2>4. CountsOK'
      BY <1>3, Bounds DEF Kill, files, locals, flags, ghosts, bounds, CountsOK
    <2>5. DownIsIdle'
      BY <1>3 DEF Kill, files, locals, flags, ghosts, bounds, DownIsIdle, LocalsOK
    <2> QED
      BY <2>1, <2>2, <2>3, <2>4, <2>5 DEF Base
  <1>4. ASSUME NEW t \in Callers, Call(t) PROVE Base'
    BY <1>4, BaseCall
  <1>5. ASSUME NEW t \in Threads, Step(t) PROVE Base'
    BY <1>5, BaseStep
  <1>6. ASSUME NEW l \in FeedLoops, FeedTurn(l) PROVE Base'
    <2>1. LocalsOK'
      BY <1>6 DEF FeedTurn, Threads, Goto, files, locals, flags, ghosts, bounds, LocalsOK, Labels, Ops
    <2>2. DataOK'
      BY <1>6, FewDomains DEF FeedTurn, Threads, Goto, files, locals, flags, ghosts, bounds, DataOK, LocalsOK
    <2>3. FlagsOK'
      BY <1>6 DEF FeedTurn, Threads, Goto, files, locals, flags, ghosts, bounds, FlagsOK
    <2>4. CountsOK'
      BY <1>6, Bounds DEF FeedTurn, Threads, Goto, files, locals, flags, ghosts, bounds, CountsOK
    <2>5. DownIsIdle'
      BY <1>6 DEF FeedTurn, Threads, Goto, files, locals, flags, ghosts, bounds, DownIsIdle, LocalsOK
    <2> QED
      BY <2>1, <2>2, <2>3, <2>4, <2>5 DEF Base
  <1>7. CASE EndConn
    <2>1. LocalsOK'
      BY <1>7 DEF EndConn, files, locals, flags, ghosts, bounds, LocalsOK, Labels, Ops
    <2>2. DataOK'
      BY <1>7, FewDomains DEF EndConn, files, locals, flags, ghosts, bounds, DataOK, LocalsOK
    <2>3. FlagsOK'
      BY <1>7 DEF EndConn, files, locals, flags, ghosts, bounds, FlagsOK
    <2>4. CountsOK'
      BY <1>7, Bounds DEF EndConn, files, locals, flags, ghosts, bounds, CountsOK
    <2>5. DownIsIdle'
      BY <1>7 DEF EndConn, files, locals, flags, ghosts, bounds, DownIsIdle, LocalsOK
    <2> QED
      BY <2>1, <2>2, <2>3, <2>4, <2>5 DEF Base
  <1>8. ASSUME NEW o \in Ops, BeginCommand(o) PROVE Base'
    <2>1. LocalsOK'
      BY <1>8 DEF BeginCommand, Loaded, NoCommand, files, locals, flags, ghosts, bounds, LocalsOK, Labels, Ops
    <2>2. DataOK'
      BY <1>8, FewDomains DEF BeginCommand, Loaded, NoCommand, files, locals, flags, ghosts, bounds, DataOK, LocalsOK
    <2>3. FlagsOK'
      BY <1>8 DEF BeginCommand, Loaded, NoCommand, files, locals, flags, ghosts, bounds, FlagsOK
    <2>4. CountsOK'
      BY <1>8, Bounds DEF BeginCommand, Loaded, NoCommand, files, locals, flags, ghosts, bounds, CountsOK
    <2>5. DownIsIdle'
      BY <1>8 DEF BeginCommand, Loaded, NoCommand, files, locals, flags, ghosts, bounds, DownIsIdle, LocalsOK
    <2> QED
      BY <2>1, <2>2, <2>3, <2>4, <2>5 DEF Base
  <1>9. ASSUME NEW d \in Domains, CommandChange(d) PROVE Base'
    <2>1. LocalsOK'
      BY <1>9 DEF CommandChange, CustomOf, Remember, NoCommand, files, locals, flags, ghosts, bounds, LocalsOK, Labels, Ops
    <2>2. DataOK'
      BY <1>9, FewDomains DEF CommandChange, CustomOf, Remember, NoCommand, files, locals, flags, ghosts, bounds, DataOK, LocalsOK
    <2>3. FlagsOK'
      BY <1>9 DEF CommandChange, CustomOf, Remember, NoCommand, files, locals, flags, ghosts, bounds, FlagsOK
    <2>4. CountsOK'
      BY <1>9, Bounds DEF CommandChange, CustomOf, Remember, NoCommand, files, locals, flags, ghosts, bounds, CountsOK
    <2>5. DownIsIdle'
      BY <1>9 DEF CommandChange, CustomOf, Remember, NoCommand, files, locals, flags, ghosts, bounds, DownIsIdle, LocalsOK
    <2> QED
      BY <2>1, <2>2, <2>3, <2>4, <2>5 DEF Base
  <1>10. CASE CommandUpdate
    <2>1. LocalsOK'
      BY <1>10 DEF CommandUpdate, NoCommand, files, locals, flags, ghosts, bounds, LocalsOK, Labels, Ops
    <2>2. DataOK'
      BY <1>10, FewDomains DEF CommandUpdate, NoCommand, files, locals, flags, ghosts, bounds, DataOK, LocalsOK
    <2>3. FlagsOK'
      BY <1>10 DEF CommandUpdate, NoCommand, files, locals, flags, ghosts, bounds, FlagsOK
    <2>4. CountsOK'
      BY <1>10, Bounds DEF CommandUpdate, NoCommand, files, locals, flags, ghosts, bounds, CountsOK
    <2>5. DownIsIdle'
      BY <1>10 DEF CommandUpdate, NoCommand, files, locals, flags, ghosts, bounds, DownIsIdle, LocalsOK
    <2> QED
      BY <2>1, <2>2, <2>3, <2>4, <2>5 DEF Base
  <1> QED
    BY <1>1, <1>2, <1>3, <1>4, <1>5, <1>6, <1>7, <1>8, <1>9, <1>10 DEF Next

(* Every variable of network protection keeps its type, with any number of *)
(* domains, callers and feed loops.                                         *)
THEOREM TypesHold == Spec => []TypeOK
  BY BaseInit, BaseNext, BaseTypes, PTL DEF Spec

----------------------------------------------------------------------------
(* The files.                                                               *)

\* What was blocked with every list at hand is in the files, in the memory of
\* the service, and in that of a command: whoever writes the files has it.
Sure == kept \ unseen

KeptInv ==
  /\ Sure \subseteq Loaded
  /\ up => Sure \subseteq blocked
  /\ cmd.op # "none" => Sure \subseteq cmd.mem

LEMMA KeptInit == Init => KeptInv
  BY DEF Init, KeptInv, Sure, Loaded, NoCommand

LEMMA KeptNext ==
  ASSUME Base, KeptInv, [Next]_vars
  PROVE  KeptInv'
  <1>1. CASE UNCHANGED <<files, up, blocked, cmd, kept, unseen>>
    BY <1>1 DEF KeptInv, Sure, Loaded, files
  <1>2. CASE Boot
    <2>1. Sure' \subseteq Sure \cup Loaded /\ (cmd # NoCommand => Sure' = Sure)
      BY <1>2 DEF Boot, Sure
    <2>2. cmd.op # "none" => cmd # NoCommand
      BY DEF NoCommand
    <2> QED
      BY <1>2, <2>1, <2>2 DEF Boot, KeptInv, Loaded, files
  <1>3. CASE Kill
    BY <1>3 DEF Kill, KeptInv, Sure, Loaded, files
  <1>4. ASSUME NEW t \in Callers, Call(t)
        PROVE  UNCHANGED <<files, up, blocked, cmd, kept, unseen>>
    BY <1>4 DEF Call, CallStart, CallStop, CallUpdate, CallBlock, ghosts
  <1>5. ASSUME NEW t \in Threads, Step(t)
        PROVE  KeptInv'
    <2>1. up
      <3>1. pc[t] # "idle"
        BY <1>5 DEF Step, StartFeed, Join, Change, TestUpdating, SetUpdating, Import,
                    ListDomains, WriteHosts
      <3> QED
        BY <3>1 DEF Base, DownIsIdle, FlagsOK
    <2>2. CASE Change(t)
      <3>1. cmd.op # "none" => cmd # NoCommand
        BY DEF NoCommand
      <3> QED
        BY <2>1, <2>2, <3>1 DEF Change, CustomOf, Remember, Return, Goto, SaveFails, KeptInv, Sure,
                                Loaded
    <2>3. CASE Import(t)
      BY <2>1, <2>3 DEF Import, KeptInv, Sure, Loaded
    <2>4. CASE WriteHosts(t)
      BY <2>4 DEF WriteHosts, KeptInv, Sure, Loaded
    <2>5. CASE StartFeed(t) \/ Join(t) \/ TestUpdating(t) \/ SetUpdating(t) \/ ListDomains(t)
      BY <1>1, <2>5 DEF StartFeed, Join, TestUpdating, SetUpdating, ListDomains, files, ghosts
    <2> QED
      BY <1>5, <2>2, <2>3, <2>4, <2>5 DEF Step
  <1>6. ASSUME NEW l \in FeedLoops, FeedTurn(l)
        PROVE  UNCHANGED <<files, up, blocked, cmd, kept, unseen>>
    BY <1>6 DEF FeedTurn, ghosts
  <1>7. EndConn \/ UNCHANGED vars => UNCHANGED <<files, up, blocked, cmd, kept, unseen>>
    BY DEF EndConn, vars, ghosts
  <1>8. ASSUME NEW o \in Ops, BeginCommand(o) PROVE KeptInv'
    BY <1>8 DEF BeginCommand, KeptInv, Sure, Loaded, NoCommand, files, ghosts
  <1>9. ASSUME NEW d \in Domains, CommandChange(d) PROVE KeptInv'
    BY <1>9 DEF CommandChange, CustomOf, Remember, KeptInv, Sure, Loaded, NoCommand
  <1>10. CASE CommandUpdate
    BY <1>10 DEF CommandUpdate, KeptInv, Sure, Loaded, NoCommand, ghosts
  <1> QED
    BY <1>1, <1>2, <1>3, <1>4, <1>5, <1>6, <1>7, <1>8, <1>9, <1>10 DEF Next

(* However refreshes and commands move domains between the two files, and   *)
(* whatever write fails, what a user blocked with every list at hand, and   *)
(* nobody unblocked, is loaded by the next process.                         *)
THEOREM BlocksAreKept == Spec => []BlocksSurvive
  <1>1. KeptInv => BlocksSurvive
    BY DEF KeptInv, BlocksSurvive, Sure
  <1>2. Base /\ KeptInv /\ [Next]_vars => KeptInv'
    BY KeptNext
  <1> QED
    BY BaseInit, BaseNext, KeptInit, <1>1, <1>2, PTL DEF Spec

----------------------------------------------------------------------------
(* The hosts file and the flag.                                             *)

\* As long as nothing disturbed it, one thread at a time writes the hosts file,
\* and an old list is followed by another one: a change is listed afterwards.
EnforceInv ==
  /\ updating => \E t \in Threads : op[t] = "update" /\ pc[t] \in {"import", "list", "write"}
  /\ ~disturbed =>
       /\ \A t, u \in Threads : pc[t] = "write" /\ pc[u] = "write" => t = u
       /\ \A t \in Threads : pc[t] = "write" =>
            list[t] = blocked \/ \E u \in Threads : pc[u] = "list"
       /\ up /\ wanted = "on" /\ enforcer = "hosts" =>
            hosts = blocked \/ \E t \in Threads : pc[t] \in {"list", "write"}

LEMMA EnforceInit == Init => EnforceInv
  BY DEF Init, EnforceInv

\* No thread enters or leaves the part in which it lists and writes.
SameEnforcers ==
  /\ \A t \in Threads :
       /\ pc'[t] \in {"list", "write"} <=> pc[t] \in {"list", "write"}
       /\ pc[t] \in {"list", "write"} => pc'[t] = pc[t] /\ list'[t] = list[t]
       /\ pc[t] \in {"import", "list", "write"} => pc'[t] = pc[t] /\ op'[t] = op[t]

LEMMA EnforceElsewhere ==
  ASSUME EnforceInv, SameEnforcers, disturbed' = disturbed, blocked' = blocked, hosts' = hosts,
         enforcer' = enforcer, up' = up, updating' = updating, wanted' = "on" => wanted = "on"
  PROVE  EnforceInv'
  BY DEF EnforceInv, SameEnforcers

\* The steps of one thread.
LEMMA EnforceStep ==
  ASSUME Base, EnforceInv, NEW t \in Threads, Step(t)
  PROVE  EnforceInv'
  <1> USE DEF Base, LocalsOK
  <1>1. CASE StartFeed(t)
    <2>1. SameEnforcers
      BY <1>1 DEF StartFeed, SameEnforcers, Threads
    <2> QED
      BY <1>1, <2>1, EnforceElsewhere DEF StartFeed, files, ghosts
  <1>2. CASE Join(t) \/ TestUpdating(t)
    <2>1. SameEnforcers
      BY <1>2 DEF Join, TestUpdating, Return, Goto, SameEnforcers
    <2> QED
      BY <1>2, <2>1, EnforceElsewhere DEF Join, TestUpdating, files, ghosts, flags
  <1>3. CASE SetUpdating(t)
    BY <1>3 DEF SetUpdating, Goto, EnforceInv, files, ghosts
  <1>4. CASE Change(t)
    BY <1>4 DEF Change, Return, Goto, SaveFails, EnforceInv, flags
  <1>5. CASE Import(t)
    BY <1>5 DEF Import, Return, Goto, SaveFails, Overtaken, EnforceInv
  <1>6. CASE ListDomains(t)
    BY <1>6 DEF ListDomains, Goto, EnforceInv, files, flags
  <1>7. CASE WriteHosts(t)
    <2>1. /\ pc[t] = "write" /\ pc'[t] \notin {"list", "write"}
          /\ \A u \in Threads \ {t} : pc'[u] = pc[u] /\ op'[u] = op[u] /\ list'[u] = list[u]
      BY <1>7 DEF WriteHosts, Return, Goto
    <2>2. /\ updating' => updating /\ op[t] # "update"
          /\ up' = up /\ blocked' = blocked /\ wanted' = wanted
          /\ enforcer' = enforcer
          /\ \/ disturbed'
             \/ disturbed' = disturbed /\ (enforcer = "hosts" => hosts' = list[t])
      <3>1. updating' = (updating /\ op[t] # "update")
        BY <1>7 DEF WriteHosts
      <3>2. updating' => updating /\ op[t] # "update"
        BY <3>1, Zenon
      <3> QED
        BY <1>7, <3>2 DEF WriteHosts, SaveFails, Overtaken
    <2>3. updating' => \E u \in Threads :
                         op'[u] = "update" /\ pc'[u] \in {"import", "list", "write"}
      BY <2>1, <2>2 DEF EnforceInv
    <2>4. ~disturbed' => /\ \A u \in Threads : pc'[u] # "write"
                         /\ list[t] = blocked \/ \E u \in Threads : pc'[u] = "list"
      BY <2>1, <2>2 DEF EnforceInv, FlagsOK
    <2> QED
      BY <2>2, <2>3, <2>4 DEF EnforceInv
  <1> QED
    BY <1>1, <1>2, <1>3, <1>4, <1>5, <1>6, <1>7 DEF Step

LEMMA EnforceCall ==
  ASSUME Base, EnforceInv, NEW t \in Callers, Call(t)
  PROVE  EnforceInv'
  <1> USE DEF Base, LocalsOK
  <1>0. t \in Threads /\ pc[t] = "idle"
    BY DEF Call, CallStart, CallStop, CallUpdate, CallBlock, Enter, Threads
  <1>1. CASE CallStart(t)
    BY <1>0, <1>1 DEF CallStart, Enter, Goto, EnforceInv, files
  <1>2. ASSUME CallStop(t) \/ CallUpdate(t) \/ \E o \in Ops, d \in Domains : CallBlock(t, o, d)
        PROVE  EnforceInv'
    <2>1. SameEnforcers
      BY <1>0, <1>2 DEF CallStop, CallUpdate, CallBlock, Enter, Goto, SameEnforcers
    <2>2. /\ disturbed' = disturbed /\ blocked' = blocked /\ hosts' = hosts /\ up' = up
          /\ enforcer' = enforcer
          /\ updating' = updating /\ (wanted' = "on" => wanted = "on")
      BY <1>2 DEF CallStop, CallUpdate, CallBlock, files, flags, ghosts
    <2> QED
      BY <2>1, <2>2, EnforceElsewhere
  <1> QED
    BY <1>1, <1>2 DEF Call

LEMMA EnforceNext == Base /\ EnforceInv /\ [Next]_vars => EnforceInv'
  <1> SUFFICES ASSUME Base, EnforceInv, [Next]_vars PROVE EnforceInv'
    OBVIOUS
  <1> USE DEF Base
  <1>1. CASE Boot
    BY <1>1 DEF Boot, EnforceInv, DownIsIdle, files, locals, flags, ghosts
  <1>2. CASE Kill
    BY <1>2 DEF Kill, EnforceInv
  <1>3. ASSUME NEW t \in Callers, Call(t) PROVE EnforceInv'
    BY <1>3, EnforceCall
  <1>4. ASSUME NEW t \in Threads, Step(t) PROVE EnforceInv'
    BY <1>4, EnforceStep
  <1>5. ASSUME NEW l \in FeedLoops, FeedTurn(l) PROVE EnforceInv'
    <2>1. SameEnforcers
      BY <1>5 DEF FeedTurn, Goto, SameEnforcers, LocalsOK, Threads
    <2> QED
      BY <1>5, <2>1, EnforceElsewhere DEF FeedTurn, files, flags, ghosts
  <1>6. CASE UNCHANGED <<hosts, enforcer, up, blocked, pc, op, list, updating, wanted, disturbed>>
    BY <1>6 DEF EnforceInv
  <1>7. ASSUME NEW o \in Ops, BeginCommand(o) PROVE EnforceInv'
    BY <1>6, <1>7 DEF BeginCommand, files, locals, flags, ghosts
  <1>8. ASSUME NEW d \in Domains, CommandChange(d) PROVE EnforceInv'
    BY <1>6, <1>8 DEF CommandChange, locals, flags
  <1>9. CASE CommandUpdate
    BY <1>6, <1>9 DEF CommandUpdate, locals, flags, ghosts
  <1>10. CASE EndConn \/ UNCHANGED vars
    BY <1>6, <1>10 DEF EndConn, vars, files, locals, flags, ghosts
  <1> QED
    BY <1>1, <1>2, <1>3, <1>4, <1>5, <1>7, <1>8, <1>9, <1>10 DEF Next

(* Between calls the hosts file has what the started service blocks, on a   *)
(* host that enforces with it, unless a file operation failed or two        *)
(* threads enforced at a time; and the flag of a refresh is set only while  *)
(* somebody will clear it.                                                  *)
THEOREM HostsAreCurrent == Spec => []EnforcedIsCurrent
  <1>1. EnforceInv => EnforcedIsCurrent
    BY DEF EnforceInv, EnforcedIsCurrent, Enforcing, Quiet
  <1> QED
    BY BaseInit, BaseNext, EnforceInit, EnforceNext, <1>1, PTL DEF Spec
=============================================================================
