---------------------------- MODULE NameResolver ----------------------------
(***************************************************************************)
(* EncryptedDNS (aegorx/network/encrypted_dns.py): a resolver of one       *)
(* process with a TTL cache, DoH and DoT providers, a fallback to the      *)
(* system resolver and a configuration file that later processes read.     *)
(* Time is counted in ticks; an answer remembers who gave it.  The reader  *)
(* of compressed names is a machine of its own, over one short message.    *)
(***************************************************************************)
EXTENDS Integers, Sequences, FiniteSets

CONSTANTS Domains,       \* cache keys, a name with its query type
          Providers, DefaultProvider,
          CacheSize,
          TtlCap,        \* 3600 seconds
          Ttls,          \* the ttl of an answer
          Cells,         \* cells of the message _decode_name reads
          MaxQueries     \* bound: commands to the resolver

ASSUME ResolverAssumption ==
  /\ DefaultProvider \in Providers /\ CacheSize \in Nat \ {0}
  /\ TtlCap \in Nat /\ Ttls \subseteq Nat /\ Cells \in Nat

VARIABLES zProvider, zMode,
          zConfig,     \* dns-config.json, or NoConfig
          zCache,      \* set of [key, from, ttl, age, left]
          zCall,       \* the call of resolve() under way
          zServed,     \* history: entries the last resolve() took from the cache
          zQueries,
          zMessage,    \* the response being parsed: cell -> its value
          zRead        \* _decode_name: [pc, at, seen]

resolverVars == <<zProvider, zMode, zConfig, zCache, zCall, zServed, zQueries, zMessage, zRead>>

NoConfig == [provider |-> DefaultProvider, mode |-> "none"]
NoQuery == [pc |-> "idle"]
EndCell == 0
LabelCell == -1     \* every other value is a pointer to that cell
NoMessage == [c \in 1..Cells |-> EndCell]
NoRead == [pc |-> "none", at |-> 1, seen |-> {}]

ResolverInit ==
  /\ zProvider = DefaultProvider /\ zMode = "doh" /\ zConfig = NoConfig
  /\ zCache = {} /\ zCall = NoQuery /\ zServed = {} /\ zQueries = 0
  /\ zMessage = NoMessage /\ zRead = NoRead

CacheEntries ==
  [key : Domains, from : Providers, ttl : Ttls, age : 0..(TtlCap + 1), left : -1..TtlCap]
ResolverTypeOK ==
  /\ zProvider \in Providers /\ zMode \in {"doh", "dot"}
  /\ zConfig \in [provider : Providers, mode : {"none", "doh", "dot"}]
  /\ zCache \subseteq CacheEntries /\ Cardinality(zCache) <= CacheSize
  /\ zServed \subseteq CacheEntries /\ zCall.pc \in {"idle", "ask", "fallback"}
  /\ zRead.pc \in {"none", "read", "done", "raised"} /\ zRead.seen \subseteq 1..Cells

\* External: time passes; an expired entry stays until it is asked for.
Tick ==
  /\ \A e \in zCache : e.age <= TtlCap
  /\ zCache # {}
  /\ zCache' = {[e EXCEPT !.age = @ + 1, !.left = IF @ < 0 THEN @ ELSE @ - 1] : e \in zCache}
  /\ zServed' = {}
  /\ UNCHANGED <<zProvider, zMode, zConfig, zCall, zQueries, zMessage, zRead>>

\* resolve(): the cache first; an expired entry is deleted, a hit is the answer.
Resolve(k) ==
  LET mine == {e \in zCache : e.key = k}
      live == {e \in mine : e.left >= 0} IN
  /\ zCall.pc = "idle" /\ zQueries < MaxQueries /\ zQueries' = zQueries + 1
  /\ zCache' = zCache \ (mine \ live)
  /\ zServed' = live
  /\ zCall' = IF live = {} THEN [pc |-> "ask", key |-> k] ELSE NoQuery
  /\ UNCHANGED <<zProvider, zMode, zConfig, zMessage, zRead>>

\* Seeded fault: a full cache takes one more.
BugPut(k, ttl) ==
  {e \in zCache : e.key # k}
    \cup {[key |-> k, from |-> zProvider, ttl |-> ttl, age |-> 0,
           left |-> IF ttl < TtlCap THEN ttl ELSE TtlCap]}

(* put(): a full cache gives up the entry that expires first, also when    *)
(* the key is in it already.                                               *)
Put(k, ttl) ==
  LET first == CHOOSE e \in zCache : \A o \in zCache : e.left <= o.left
      kept == IF Cardinality(zCache) >= CacheSize THEN zCache \ {first} ELSE zCache IN
  {e \in kept : e.key # k}
    \cup {[key |-> k, from |-> zProvider, ttl |-> ttl, age |-> 0,
           left |-> IF ttl < TtlCap THEN ttl ELSE TtlCap]}

\* _resolve_doh and _resolve_dot: addresses with the least ttl of the records, or none.
Answered(ttl, some) ==
  /\ zCall.pc = "ask" /\ zRead.pc \in {"none", "done"}
  /\ zCache' = IF some THEN Put(zCall.key, ttl) ELSE zCache
  /\ zCall' = NoQuery /\ zMessage' = NoMessage /\ zRead' = NoRead
  /\ UNCHANGED <<zProvider, zMode, zConfig, zServed, zQueries>>

\* An error code, a short or cut response, a TLS or socket error: the system resolver.
QueryFails ==
  /\ zCall.pc = "ask" /\ zRead.pc \in {"none", "raised"}
  /\ zCall' = [zCall EXCEPT !.pc = "fallback"] /\ zMessage' = NoMessage /\ zRead' = NoRead
  /\ UNCHANGED <<zProvider, zMode, zConfig, zCache, zServed, zQueries>>

\* Its answer is returned and not cached; without one the list is empty.
Fallback ==
  /\ zCall.pc = "fallback"
  /\ zCall' = NoQuery
  /\ UNCHANGED <<zProvider, zMode, zConfig, zCache, zServed, zQueries, zMessage, zRead>>

SaveConfig(ok) ==
  zConfig' = IF ok THEN [provider |-> zProvider', mode |-> zMode'] ELSE zConfig
SetProvider(p) ==
  /\ zCall.pc = "idle" /\ zQueries < MaxQueries /\ zQueries' = zQueries + 1
  /\ zProvider' = p /\ zCache' = {} /\ zServed' = {} /\ UNCHANGED zMode
  /\ \E ok \in BOOLEAN : SaveConfig(ok)
  /\ UNCHANGED <<zCall, zMessage, zRead>>
SetMode(mode) ==
  /\ zCall.pc = "idle" /\ zQueries < MaxQueries /\ zQueries' = zQueries + 1
  /\ zMode' = mode /\ UNCHANGED <<zProvider, zCache>> /\ zServed' = {}
  /\ \E ok \in BOOLEAN : SaveConfig(ok)
  /\ UNCHANGED <<zCall, zMessage, zRead>>

\* The next command is another process: of the file it reads the mode, not the provider.
NextCommand ==
  /\ zCall.pc = "idle" /\ zQueries < MaxQueries /\ zQueries' = zQueries + 1
  /\ zProvider' = DefaultProvider /\ zCache' = {} /\ zServed' = {}
  /\ zMode' = IF zConfig.mode = "none" THEN "doh" ELSE zConfig.mode
  /\ UNCHANGED <<zConfig, zCall, zMessage, zRead>>

-----------------------------------------------------------------------------
\* _decode_name gets the data of a CNAME record, the cells from some cell on.
BeginDecode(message, start) ==
  /\ zCall.pc = "ask" /\ zRead.pc = "none"
  /\ zMessage' = message
  /\ zRead' = [NoRead EXCEPT !.pc = "read", !.at = start]
  /\ UNCHANGED <<zProvider, zMode, zConfig, zCache, zCall, zServed, zQueries>>

(* A label is copied, a pointer continues in the whole message unless it   *)
(* was followed before; the last byte of a pointer may be missing.         *)
DecodeCell(cut) ==
  /\ zRead.pc = "read"
  /\ cut => zRead.at = Cells /\ zMessage[Cells] \in 1..Cells
  /\ zRead' =
       IF cut THEN [zRead EXCEPT !.pc = "raised"]
       ELSE IF zRead.at > Cells THEN [zRead EXCEPT !.pc = "done"]
       ELSE LET cell == zMessage[zRead.at] IN
         IF cell = EndCell \/ cell \in zRead.seen THEN [zRead EXCEPT !.pc = "done"]
         ELSE IF cell = LabelCell THEN [zRead EXCEPT !.at = @ + 1]
         ELSE [zRead EXCEPT !.at = cell, !.seen = @ \cup {cell}]
  /\ UNCHANGED <<zProvider, zMode, zConfig, zCache, zCall, zServed, zQueries, zMessage>>
Decode == \E cut \in BOOLEAN : DecodeCell(cut)

ResolverNext ==
  \/ Tick \/ QueryFails \/ Fallback \/ NextCommand \/ Decode
  \/ \E k \in Domains : Resolve(k)
  \/ \E ttl \in Ttls, some \in BOOLEAN : Answered(ttl, some)
  \/ \E p \in Providers : SetProvider(p)
  \/ \E mode \in {"doh", "dot"} : SetMode(mode)
  \/ \E message \in [1..Cells -> LabelCell..Cells], start \in 1..Cells : BeginDecode(message, start)

-----------------------------------------------------------------------------
(* What resolve() takes from the cache was given by the provider in use    *)
(* and is no older than the ttl it was given with or the cap, and the      *)
(* cache holds one answer a key (DNSCache.get and put, set_provider).      *)
CachedAnswersAreGood ==
  /\ \A e \in zServed : e.from = zProvider /\ e.age <= e.ttl /\ e.age <= TtlCap
  /\ \A e, o \in zCache : e.key = o.key => e = o

\* A name of a response is still being read.
DecodingGoesOn == zRead.pc = "read"
=============================================================================
