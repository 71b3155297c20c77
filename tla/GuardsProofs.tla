----------------------------- MODULE GuardsProofs -----------------------------
(***************************************************************************)
(* Proofs about AccessControl and Infrastructure: what is let in, what a   *)
(* broker will not deliver again, who computes a cached value and how old  *)
(* it may be, for any number of messages, callers, processes, keys, rules  *)
(* and sources and any bound on time.                                      *)
(*                                                                         *)
(* At the end, about TaskLifecycle: the places of a node that its sagas    *)
(* hold, and the routes that create, cancel and retry tasks beside the     *)
(* queue.                                                                  *)
(***************************************************************************)
EXTENDS
    AccessControl, Infrastructure, TaskLifecycle, FiniteSetTheorems, WellFoundedInduction,
    TLAPS

-----------------------------------------------------------------------------
\* Adapters of queues

\* Of a stream one message is handled or confirmed at a time; the other adapters neither
\* read ahead nor confirm.
OneOfTheStream ==
    /\ type # "redis" => batch = {} /\ acking = {}
    /\ type = "redis" => \A m, n \in handling : m = n
    /\ acking # {} => handling = {}
    /\ batch \cap handling = {} /\ batch \cap acking = {}

\* Who is about to be confirmed was handled, and what may still be given to a handler was
\* given to it by earlier connections only.
AdapterInv ==
    /\ AdapterTypeOK
    /\ OneOfTheStream
    /\ acking \subseteq handled
    /\ DoneWasHandled
    /\ connections \in Nat /\ starts \in [Message -> Nat]
    /\ type = "none" => \A m \in Message : broker[m] \in {"none", "ready"}
    /\ \A m \in Message :
          /\ starts[m] <= connections
          /\ broker[m] = "none" => starts[m] = 0
          /\ broker[m] = "ready" \/ m \in batch => starts[m] < connections

LEMMA AdapterBegins == AdapterInit => AdapterInv
BY DEF AdapterInit, AdapterInv, AdapterTypeOK, OneOfTheStream, DoneWasHandled

\* A connection takes back what the one before it had not confirmed, or loses it.
LEMMA ConnectKeeps ==
    ASSUME AdapterInv, NEW kind \in {"kafka", "rabbitmq", "redis"}, connect(kind)
    PROVE  AdapterInv'
<1>1. \A m \in Message : \/ broker'[m] = broker[m]
                         \/ broker[m] = "unacked" /\ broker'[m] = "ready"
  BY DEF connect, Redelivered
<1>2. AdapterTypeOK'
  BY DEF connect, Redelivered, AdapterInv, AdapterTypeOK
<1>3. OneOfTheStream'
  BY DEF connect, OneOfTheStream
<1>4. DoneWasHandled'
  BY <1>1 DEF connect, AdapterInv, AdapterTypeOK, DoneWasHandled
<1>. QED  BY <1>1, <1>2, <1>3, <1>4 DEF connect, AdapterInv, AdapterTypeOK

\* A message is given to its handler.
LEMMA HandleKeeps ==
    ASSUME AdapterInv, NEW m \in Message, eachMessage(m) \/ consumeRabbit(m) \/ poll(m)
    PROVE  AdapterInv'
<1>1. /\ UNCHANGED <<type, connections, acking, handled, threw>>
      /\ acking = {} \/ type # "redis"
      /\ handling' = handling \cup {m}
      /\ starts' = [starts EXCEPT ![m] = starts[m] + 1]
      /\ broker' = [broker EXCEPT ![m] = "unacked"]
      /\ batch' = batch \ {m}
      /\ broker[m] = "ready" \/ m \in batch
      /\ type # "none"
      /\ type = "redis" => handling = {}
  BY DEF eachMessage, consumeRabbit, poll, Handle, AdapterInv, AdapterTypeOK, OneOfTheStream
<1>2. AdapterTypeOK'
  BY <1>1 DEF AdapterInv, AdapterTypeOK
<1>3. OneOfTheStream'
  BY <1>1 DEF AdapterInv, OneOfTheStream
<1>4. DoneWasHandled'
  BY <1>1 DEF AdapterInv, AdapterTypeOK, DoneWasHandled
<1>. QED  BY <1>1, <1>2, <1>3, <1>4 DEF AdapterInv, AdapterTypeOK

\* Its handler ends, or xAck() does.
LEMMA HandledKeeps ==
    ASSUME AdapterInv, NEW m \in Message, throws(m) \/ returns(m) \/ xAck(m)
    PROVE  AdapterInv'
<1>1. CASE throws(m)
  <2>1. /\ UNCHANGED <<type, connections, batch, acking, handled, starts>>
        /\ handling' = handling \ {m} /\ m \in handling
        /\ threw' = threw \cup {m}
        /\ broker' = [broker EXCEPT ![m] = AfterThrow]
        /\ broker[m] = "unacked"
    BY <1>1 DEF throws, AdapterInv, AdapterTypeOK
  <2>2. AdapterTypeOK'
    BY <2>1 DEF AdapterInv, AdapterTypeOK, OneOfTheStream, AfterThrow
  <2>3. OneOfTheStream'
    BY <2>1 DEF AdapterInv, OneOfTheStream
  <2>4. DoneWasHandled'
    BY <2>1 DEF AdapterInv, AdapterTypeOK, DoneWasHandled, AfterThrow
  <2>. QED  BY <2>1, <2>2, <2>3, <2>4 DEF AdapterInv, AdapterTypeOK, AfterThrow
<1>2. CASE returns(m)
  <2>1. /\ UNCHANGED <<type, connections, batch, threw, starts>>
        /\ handling' = handling \ {m} /\ m \in handling
        /\ handled' = handled \cup {m}
        /\ broker' = [broker EXCEPT ![m] = IF type = "kafka" THEN "done" ELSE broker[m]]
        /\ acking' = IF type = "redis" THEN {m} ELSE {}
        /\ broker[m] = "unacked"
    BY <1>2 DEF returns, AdapterInv, AdapterTypeOK
  <2>2. AdapterTypeOK'
    BY <2>1 DEF AdapterInv, AdapterTypeOK, OneOfTheStream
  <2>3. OneOfTheStream'
    BY <2>1 DEF AdapterInv, OneOfTheStream
  <2>4. DoneWasHandled'
    BY <2>1 DEF AdapterInv, AdapterTypeOK, DoneWasHandled
  <2>. QED  BY <2>1, <2>2, <2>3, <2>4 DEF AdapterInv, AdapterTypeOK
<1>3. CASE xAck(m)
  <2>1. /\ UNCHANGED <<type, connections, batch, handling, handled, threw, starts>>
        /\ m \in acking /\ acking' = {}
        /\ broker' \in {broker, [broker EXCEPT ![m] = "done"]}
        /\ broker[m] = "unacked"
    BY <1>3 DEF xAck, Confirmed, AdapterInv, AdapterTypeOK
  <2>2. AdapterTypeOK'
    BY <2>1 DEF AdapterInv, AdapterTypeOK, OneOfTheStream
  <2>3. OneOfTheStream'
    BY <2>1 DEF AdapterInv, OneOfTheStream
  <2>4. DoneWasHandled'
    BY <2>1 DEF AdapterInv, AdapterTypeOK, DoneWasHandled
  <2>. QED  BY <2>1, <2>2, <2>3, <2>4 DEF AdapterInv, AdapterTypeOK
<1>. QED  BY <1>1, <1>2, <1>3

LEMMA AdapterKeeps == AdapterInv /\ [AdapterNext]_adapterVars => AdapterInv'
<1>. SUFFICES ASSUME AdapterInv, [AdapterNext]_adapterVars  PROVE AdapterInv'
  OBVIOUS
<1>1. CASE UNCHANGED adapterVars
  BY <1>1 DEF adapterVars, AdapterInv, AdapterTypeOK, OneOfTheStream, DoneWasHandled
<1>2. CASE connectKafka \/ connectRabbit \/ connectRedis
  BY <1>2, ConnectKeeps DEF connectKafka, connectRabbit, connectRedis
<1>3. ASSUME NEW m \in Message, produce(m)  PROVE AdapterInv'
  BY <1>3 DEF produce, AdapterInv, AdapterTypeOK, OneOfTheStream, DoneWasHandled
<1>4. ASSUME NEW read \in SUBSET Message, xReadGroup(read)  PROVE AdapterInv'
  BY <1>4 DEF xReadGroup, AdapterInv, AdapterTypeOK, OneOfTheStream, DoneWasHandled
<1>. QED  BY <1>1, <1>2, <1>3, <1>4, HandleKeeps, HandledKeeps DEF AdapterNext

\* Wherever the process ends, a broker forgets only what was handled, or, with Kafka, what a
\* handler threw at; and no connection gives a message to its handler twice.
THEOREM NoMessageIsLost ==
    AdapterSpec => []AdapterTypeOK /\ []DoneWasHandled /\ []OncePerConnection
<1>1. AdapterInv => AdapterTypeOK /\ DoneWasHandled /\ OncePerConnection
  BY DEF AdapterInv, OncePerConnection
<1>. QED  BY <1>1, AdapterBegins, AdapterKeeps, PTL DEF AdapterSpec

-----------------------------------------------------------------------------
\* DistributedCache

\* The numbers of the cache: a lock lasts.
CacheNumbers ==
    /\ cacheHorizon \in Nat \ {0} /\ ttlSeconds \in Nat
    /\ lockTimeout \in Nat \ {0}

\* Whoever computes the value got the lock last, and it has not expired.
CacheInv ==
    /\ CacheTypeOK
    /\ since \in [Caller -> Nat]
    /\ \A c \in Caller : Holding(c) => lock = since[c] + lockTimeout /\ cacheNow < lock
    /\ \A c, d \in Caller : Holding(c) /\ Holding(d) => c = d

LEMMA CacheKeeps ==
    ASSUME CacheNumbers
    PROVE  CacheInv /\ [CacheNext]_cacheVars => CacheInv'
<1>. SUFFICES ASSUME CacheInv, [CacheNext]_cacheVars  PROVE CacheInv'
  OBVIOUS
<1>1. CASE UNCHANGED cacheVars
  BY <1>1 DEF cacheVars, CacheInv, CacheTypeOK, Holding
<1>2. ASSUME NEW c \in Caller, getWithLock(c) \/ cacheGet(c) \/ factory(c)  PROVE CacheInv'
  <2>1. /\ UNCHANGED <<cacheNow, cached, lock, since>>
        /\ \E there \in {"idle", "get", "acquire", "factory", "set", "release"} :
              /\ pc' = [pc EXCEPT ![c] = there]
              /\ there \in {"factory", "set", "release"} => Holding(c)
    BY <1>2 DEF getWithLock, cacheGet, factory, Goto, CacheAt, Holding
  <2>. QED  BY <2>1 DEF CacheInv, CacheTypeOK, Holding
<1>3. ASSUME NEW c \in Caller, acquire(c)  PROVE CacheInv'
  <2>1. CASE ~Acquired
    BY <1>3, <2>1 DEF acquire, Goto, CacheAt, CacheInv, CacheTypeOK, Holding
  <2>2. CASE Acquired
    <3>1. \A d \in Caller : ~Holding(d)
      BY <2>2 DEF Acquired, CacheInv, CacheTypeOK
    <3>2. /\ UNCHANGED <<cacheNow, cached>>
          /\ lock' = cacheNow + lockTimeout
          /\ since' = [since EXCEPT ![c] = cacheNow]
          /\ pc' = [pc EXCEPT ![c] = "factory"]
      BY <1>3, <2>2 DEF acquire, Goto
    <3>3. \A d \in Caller : Holding(d)' => d = c
      BY <3>1, <3>2 DEF Holding, CacheInv, CacheTypeOK
    <3>. QED  BY <3>2, <3>3, CacheNumbers DEF CacheNumbers, CacheInv, CacheTypeOK
  <2>. QED  BY <2>1, <2>2
<1>4. ASSUME NEW c \in Caller, cacheSet(c)  PROVE CacheInv'
  <2>1. /\ pc' = [pc EXCEPT ![c] = "release"] /\ Holding(c)
        /\ UNCHANGED <<cacheNow, lock, since>>
        /\ cached' \in 0..(cacheHorizon + ttlSeconds)
    BY <1>4, CacheNumbers DEF cacheSet, Goto, CacheAt, Holding, CacheInv, CacheTypeOK, CacheNumbers
  <2>. QED  BY <2>1 DEF CacheInv, CacheTypeOK, Holding
<1>5. ASSUME NEW c \in Caller, release(c)  PROVE CacheInv'
  <2>1. Holding(c)
    BY <1>5 DEF release, CacheAt, Holding
  <2>2. \A d \in Caller : ~Holding(d)'
    BY <1>5, <2>1 DEF release, Goto, CacheInv, CacheTypeOK, Holding
  <2>. QED  BY <1>5, <2>2, CacheNumbers DEF release, Goto, CacheInv, CacheTypeOK, CacheNumbers
<1>6. CASE cacheDelete
  BY <1>6, CacheNumbers DEF cacheDelete, CacheInv, CacheTypeOK, Holding, CacheNumbers
<1>7. CASE cacheTick
  BY <1>7, CacheNumbers DEF cacheTick, Promptness, CacheInv, CacheTypeOK, Holding, CacheNumbers
<1>. QED  BY <1>1, <1>2, <1>3, <1>4, <1>5, <1>6, <1>7 DEF CacheNext

\* getWithLock() keeps other callers from computing the value, and release() deletes no lock but
\* the caller's own, if holders are done before their lock expires.
THEOREM OneComputes ==
    ASSUME CacheNumbers
    PROVE  CacheSpec => []CacheTypeOK /\ []OneFactory
<1>1. CacheInit => CacheInv
  BY DEF CacheInit, CacheInv, CacheTypeOK, Holding, CacheNumbers
<1>2. CacheInv => CacheTypeOK /\ OneFactory
  <2>. SUFFICES ASSUME CacheInv  PROVE Cardinality({c \in Caller : Holding(c)}) <= 1
    BY DEF CacheInv, OneFactory
  <2>. DEFINE Holders == {c \in Caller : Holding(c)}
  <2>1. CASE Holders = {}
    BY <2>1, FS_EmptySet
  <2>2. CASE Holders # {}
    <3>1. PICK c \in Holders : Holders = {c}
      BY <2>2 DEF CacheInv
    <3>. QED  BY <3>1, FS_Singleton
  <2>. QED  BY <2>1, <2>2
<1>. QED  BY <1>1, <1>2, CacheKeeps, PTL DEF CacheSpec

-----------------------------------------------------------------------------
\* MultiLayerCache

\* The numbers of the layers; a value is not "no value".
LayersNumbers ==
    /\ cacheHorizon \in Nat /\ l1Cleanup \in Nat
    /\ l1TTL \in Nat /\ l2TTL \in Nat /\ latency \in Nat
    /\ None \notin Value

Entry == [value : Value \cup {None}, expires : Nat]
Call == [op : {"idle", "get", "got", "set", "delete"}, value : Value \cup {None}, since : Nat]

\* What a process holds was seen in the shared cache, by itself or by the call that brought it,
\* so little ago that it expires in time; and what a call has read was there after it began.
LayersInv ==
    /\ LayersTypeOK
    /\ l1 \in [Process -> Entry] /\ l2 \in Entry
    /\ calls \in [Process -> Call]
    /\ left \in [Value -> Nat] /\ \A v \in Value : left[v] <= layersNow
    /\ \A p \in Process :
          /\ l1[p].value \in Value => l1[p].expires <= left[l1[p].value] + l1TTL + latency
          /\ calls[p].op = "idle" => calls[p] = Idle
          /\ calls[p].op # "idle" =>
                calls[p].since <= layersNow /\ layersNow <= calls[p].since + latency
          /\ calls[p].op = "set" => calls[p].value \in Value
          /\ calls[p].op = "got" /\ calls[p].value # None =>
                calls[p].since <= left[calls[p].value]

\* The history only moves on.
LEMMA SeenIsLater ==
    ASSUME LayersNumbers, LayersInv
    PROVE  /\ Seen \in [Value -> Nat]
           /\ \A v \in Value : left[v] <= Seen[v] /\ Seen[v] <= layersNow
BY DEF LayersInv, LayersTypeOK, Seen

LEMMA LayersBegins == ASSUME LayersNumbers, LayersInit PROVE LayersInv
BY DEF LayersNumbers, LayersInit, LayersInv, LayersTypeOK, Entry, Call, Nothing, Idle

\* A call begins; that of set() also writes the process's own layer.
LEMMA CallBegins ==
    ASSUME LayersNumbers, LayersInv, NEW p \in Process,
           layersGet(p) \/ layersDelete(p) \/ \E v \in Value : layersSet(p, v)
    PROVE  LayersInv'
<1>1. CASE layersGet(p)
  <2>1. /\ calls' = [calls EXCEPT ![p] = [op |-> "get", value |-> None, since |-> layersNow]]
        /\ UNCHANGED <<layersNow, sinceCleanup, l1, l2, left>>
    BY <1>1 DEF layersGet, LayersBegin
  <2>2. [op |-> "get", value |-> None, since |-> layersNow] \in Call
    BY DEF LayersInv, LayersTypeOK, Call
  <2>. QED  BY <2>1, <2>2 DEF LayersNumbers, LayersInv, LayersTypeOK
<1>2. CASE layersDelete(p)
  <2>1. /\ calls' = [calls EXCEPT ![p] = [op |-> "delete", value |-> None, since |-> layersNow]]
        /\ l1' = [l1 EXCEPT ![p] = Nothing]
        /\ UNCHANGED <<layersNow, sinceCleanup, l2, left>>
    BY <1>2 DEF layersDelete, LayersBegin
  <2>2. /\ [op |-> "delete", value |-> None, since |-> layersNow] \in Call
        /\ Nothing \in Entry /\ Nothing.value = None /\ Nothing.expires = 0
    BY DEF LayersInv, LayersTypeOK, Call, Entry, Nothing
  <2>. QED  BY <2>1, <2>2 DEF LayersNumbers, LayersInv, LayersTypeOK
<1>3. ASSUME NEW v \in Value, layersSet(p, v)  PROVE LayersInv'
  <2>. DEFINE entry == [value |-> v, expires |-> layersNow + l1TTL]
              call == [op |-> "set", value |-> v, since |-> layersNow]
  <2>1. /\ calls' = [calls EXCEPT ![p] = call]
        /\ l1' = [l1 EXCEPT ![p] = entry]
        /\ left' = [left EXCEPT ![v] = layersNow]
        /\ UNCHANGED <<layersNow, sinceCleanup, l2>>
    BY <1>3 DEF layersSet, LayersBegin
  <2>2. /\ entry \in Entry /\ entry.value = v /\ entry.expires = layersNow + l1TTL
        /\ call \in Call /\ call.op = "set" /\ call.value = v /\ call.since = layersNow
    BY DEF LayersNumbers, LayersInv, LayersTypeOK, Call, Entry
  <2>. HIDE DEF entry, call
  <2>3. left' \in [Value -> Nat] /\ \A u \in Value : left[u] <= left'[u] /\ left'[u] <= layersNow
    BY <2>1 DEF LayersInv, LayersTypeOK
  <2>4. left'[v] = layersNow
    BY <2>1 DEF LayersInv
  <2>5. LayersTypeOK'
    BY <2>1, <2>2 DEF LayersNumbers, LayersInv, LayersTypeOK, Entry
  <2>6. ASSUME NEW q \in Process
        PROVE  /\ l1'[q].value \in Value => l1'[q].expires <= left'[l1'[q].value] + l1TTL + latency
               /\ calls'[q].op = "idle" => calls'[q] = Idle
               /\ calls'[q].op # "idle" =>
                     calls'[q].since <= layersNow' /\ layersNow' <= calls'[q].since + latency
               /\ calls'[q].op = "set" => calls'[q].value \in Value
               /\ calls'[q].op = "got" /\ calls'[q].value # None =>
                     calls'[q].since <= left'[calls'[q].value]
    <3>1. CASE q = p
      BY <2>1, <2>2, <2>4, <3>1 DEF LayersNumbers, LayersInv, LayersTypeOK
    <3>2. CASE q # p
      <4>1. l1'[q] = l1[q] /\ calls'[q] = calls[q]
        BY <2>1, <3>2 DEF LayersInv
      <4>2. l1[q].expires \in Nat /\ calls[q].since \in Nat /\ calls[q].value \in Value \cup {None}
        BY DEF LayersInv, Entry, Call
      <4>. QED  BY <2>1, <2>3, <4>1, <4>2 DEF LayersNumbers, LayersInv, LayersTypeOK
    <3>. QED  BY <3>1, <3>2
  <2>7. l1' \in [Process -> Entry] /\ calls' \in [Process -> Call] /\ l2' \in Entry
    BY <2>1, <2>2 DEF LayersInv
  <2>. QED  BY <2>1, <2>3, <2>5, <2>6, <2>7 DEF LayersInv
<1>. QED  BY <1>1, <1>2, <1>3

\* The shared cache is read, with whatever is in it.
LEMMA ReadKeeps ==
    ASSUME LayersNumbers, LayersInv, NEW p \in Process, layersRead(p)
    PROVE  LayersInv'
<1>. DEFINE found == IF Live(l2) THEN l2.value ELSE None
            call == [calls[p] EXCEPT !.op = "got", !.value = found]
<1>1. /\ calls' = [calls EXCEPT ![p] = call]
      /\ left' = Seen /\ calls[p].op = "get"
      /\ UNCHANGED <<layersNow, sinceCleanup, l1, l2>>
  BY DEF layersRead, LayersAt, LayersInv, Call
<1>2. /\ call \in Call /\ call.op = "got" /\ call.value = found /\ call.since = calls[p].since
      /\ found \in Value \cup {None}
  BY DEF LayersInv, Call, Entry
<1>3. found # None => Seen[found] = layersNow
  BY <1>2 DEF Seen, LayersInv
<1>. HIDE DEF found, call
<1>4. LayersTypeOK'
  BY <1>1 DEF LayersInv, LayersTypeOK
<1>5. ASSUME NEW q \in Process
      PROVE  /\ l1'[q].value \in Value => l1'[q].expires <= left'[l1'[q].value] + l1TTL + latency
             /\ calls'[q].op = "idle" => calls'[q] = Idle
             /\ calls'[q].op # "idle" =>
                   calls'[q].since <= layersNow' /\ layersNow' <= calls'[q].since + latency
             /\ calls'[q].op = "set" => calls'[q].value \in Value
             /\ calls'[q].op = "got" /\ calls'[q].value # None =>
                   calls'[q].since <= left'[calls'[q].value]
  <2>1. l1[q].expires \in Nat /\ calls[q].since \in Nat /\ calls[q].value \in Value \cup {None}
    BY DEF LayersInv, Entry, Call
  <2>2. l1'[q].value \in Value => l1'[q].expires <= left'[l1'[q].value] + l1TTL + latency
    BY <1>1, <2>1, SeenIsLater DEF LayersNumbers, LayersInv, LayersTypeOK
  <2>3. CASE q = p
    BY <1>1, <1>2, <1>3, <2>1, <2>2, <2>3 DEF LayersNumbers, LayersInv, LayersTypeOK
  <2>4. CASE q # p
    <3>1. calls'[q] = calls[q]
      BY <1>1, <2>4 DEF LayersInv
    <3>. QED  BY <1>1, <2>1, <2>2, <3>1, SeenIsLater DEF LayersNumbers, LayersInv, LayersTypeOK
  <2>. QED  BY <2>3, <2>4
<1>6. /\ calls' \in [Process -> Call] /\ left' \in [Value -> Nat]
      /\ \A v \in Value : left'[v] <= layersNow'
  BY <1>1, <1>2, SeenIsLater DEF LayersInv
<1>. QED  BY <1>1, <1>4, <1>5, <1>6 DEF LayersInv

\* A call ends: what it read goes into the process's layer, or what it brings into the shared
\* cache.
LEMMA CallEnds ==
    ASSUME LayersNumbers, LayersInv, NEW p \in Process, got(p) \/ written(p)
    PROVE  LayersInv'
<1>1. /\ calls' = [calls EXCEPT ![p] = Idle]
      /\ UNCHANGED <<layersNow, sinceCleanup>>
      /\ Idle \in Call /\ Idle.op = "idle"
  BY DEF got, written, Idle, Call
<1>2. calls[p] \in Call /\ calls[p].since \in Nat /\ calls[p].value \in Value \cup {None}
  BY DEF LayersInv, Call
<1>3. ASSUME NEW q \in Process
      PROVE  l1[q].expires \in Nat /\ calls[q].since \in Nat /\ calls[q].value \in Value \cup {None}
  BY DEF LayersInv, Entry, Call
<1>4. CASE got(p)
  <2>. DEFINE entry == [value |-> calls[p].value, expires |-> layersNow + l1TTL]
  <2>1. /\ l1' = IF calls[p].value = None THEN l1 ELSE [l1 EXCEPT ![p] = entry]
        /\ UNCHANGED <<l2, left>> /\ calls[p].op = "got"
    BY <1>4 DEF got, LayersAt
  <2>2. /\ entry \in Entry /\ entry.value = calls[p].value /\ entry.expires = layersNow + l1TTL
    BY <1>2 DEF LayersNumbers, LayersInv, LayersTypeOK, Entry
  <2>. HIDE DEF entry
  <2>3. calls[p].value # None => entry.expires <= left[entry.value] + l1TTL + latency
    BY <1>2, <2>1, <2>2 DEF LayersNumbers, LayersInv, LayersTypeOK
  <2>4. \A q \in Process : l1'[q] = l1[q] \/ (l1'[q] = entry /\ calls[p].value # None)
    BY <2>1 DEF LayersInv
  <2>5. l1' \in [Process -> Entry]
    BY <2>1, <2>2 DEF LayersInv
  <2>6. LayersTypeOK'
    BY <1>1, <1>2, <2>1, <2>2, <2>4 DEF LayersNumbers, LayersInv, LayersTypeOK
  <2>7. \A q \in Process : l1'[q].value \in Value => l1'[q].expires <= left'[l1'[q].value] + l1TTL + latency
    BY <2>1, <2>3, <2>4 DEF LayersInv
  <2>. QED  BY <1>1, <1>3, <2>1, <2>5, <2>6, <2>7 DEF LayersInv
<1>5. CASE written(p)
  <2>1. /\ l2' = IF calls[p].op = "set"
                 THEN [value |-> calls[p].value, expires |-> layersNow + l2TTL] ELSE Nothing
        /\ left' = Seen /\ UNCHANGED l1
    BY <1>5 DEF written, LayersAt
  <2>2. l2' \in Entry
    BY <1>2, <2>1 DEF LayersNumbers, LayersInv, LayersTypeOK, Entry, Nothing
  <2>3. LayersTypeOK'
    BY <1>1, <2>1, <2>2 DEF LayersInv, LayersTypeOK, Entry
  <2>4. \A q \in Process : l1'[q].value \in Value => l1'[q].expires <= left'[l1'[q].value] + l1TTL + latency
    BY <1>3, <2>1, SeenIsLater DEF LayersNumbers, LayersInv, LayersTypeOK
  <2>5. \A q \in Process : calls'[q].op = "got" /\ calls'[q].value # None => calls'[q].since <= left'[calls'[q].value]
    BY <1>1, <1>3, <2>1, SeenIsLater DEF LayersNumbers, LayersInv, LayersTypeOK
  <2>6. left' \in [Value -> Nat] /\ \A v \in Value : left'[v] <= layersNow'
    BY <1>1, <2>1, SeenIsLater
  <2>. QED  BY <1>1, <1>3, <2>1, <2>2, <2>3, <2>4, <2>5, <2>6 DEF LayersInv
<1>. QED  BY <1>4, <1>5

\* A call that is under way when time passes has not used up its latency.
LEMMA TimeKeeps ==
    ASSUME LayersNumbers, LayersInv, layersTick
    PROVE  LayersInv'
<1>1. /\ layersNow < cacheHorizon /\ sinceCleanup < l1Cleanup
      /\ layersNow' = layersNow + 1 /\ sinceCleanup' = sinceCleanup + 1
      /\ left' = Seen /\ UNCHANGED <<l1, l2, calls>>
      /\ \A p \in Process : calls[p] # Idle => layersNow < calls[p].since + latency
  BY DEF layersTick
<1>2. layersNow \in Nat
  BY DEF LayersInv, LayersTypeOK
<1>3. LayersTypeOK'
  BY <1>1, <1>2 DEF LayersNumbers, LayersInv, LayersTypeOK, Entry
<1>4. left' \in [Value -> Nat] /\ \A v \in Value : left[v] <= left'[v] /\ left'[v] <= layersNow'
  BY <1>1, <1>2, SeenIsLater
<1>5. ASSUME NEW q \in Process
      PROVE  /\ l1[q].value \in Value => l1[q].expires <= left'[l1[q].value] + l1TTL + latency
             /\ calls[q].op # "idle" =>
                   calls[q].since <= layersNow' /\ layersNow' <= calls[q].since + latency
             /\ calls[q].op = "got" /\ calls[q].value # None =>
                   calls[q].since <= left'[calls[q].value]
  <2>1. l1[q].expires \in Nat /\ calls[q].since \in Nat /\ calls[q].value \in Value \cup {None}
    BY DEF LayersInv, Entry, Call
  <2>2. calls[q].op # "idle" => calls[q] # Idle
    BY DEF Idle
  <2>3. left \in [Value -> Nat]
    BY DEF LayersInv
  <2>. QED  BY <1>1, <1>2, <1>4, <2>1, <2>2, <2>3 DEF LayersNumbers, LayersInv
<1>. QED  BY <1>1, <1>3, <1>4, <1>5 DEF LayersInv

LEMMA CleanupKeeps ==
    ASSUME LayersNumbers, LayersInv, cleanupL1
    PROVE  LayersInv'
<1>1. /\ sinceCleanup' = 0 /\ UNCHANGED <<layersNow, l2, calls, left>>
      /\ \A p \in Process : l1'[p] \in {l1[p], Nothing}
      /\ l1' \in [Process -> Entry]
      /\ Nothing.value = None /\ Nothing.expires = 0
  BY DEF cleanupL1, LayersInv, Entry, Nothing
<1>2. LayersTypeOK'
  BY <1>1 DEF LayersNumbers, LayersInv, LayersTypeOK
<1>. QED  BY <1>1, <1>2 DEF LayersNumbers, LayersInv

LEMMA LayersKeeps ==
    ASSUME LayersNumbers
    PROVE  LayersInv /\ [LayersNext]_layersVars => LayersInv'
<1>. SUFFICES ASSUME LayersInv, [LayersNext]_layersVars  PROVE LayersInv'
  OBVIOUS
<1>1. CASE UNCHANGED layersVars
  BY <1>1 DEF layersVars, LayersInv, LayersTypeOK
<1>. QED  BY <1>1, CallBegins, ReadKeeps, CallEnds, TimeKeeps, CleanupKeeps DEF LayersNext

\* However the reads, writes and deletes of the processes overlap, what one of them serves from
\* its memory left the shared cache no longer than l1TTL and the latency of a call ago.
THEOREM StaleForAShortTime ==
    ASSUME LayersNumbers
    PROVE  LayersSpec => []LayersTypeOK /\ []StaleIsShort
<1>1. LayersInv => LayersTypeOK /\ StaleIsShort
  <2>. SUFFICES ASSUME LayersInv, NEW p \in Process, Served(p) # None
                PROVE  layersNow <= Seen[Served(p)] + l1TTL + latency
    BY DEF LayersInv, StaleIsShort
  <2>1. Live(l1[p]) /\ Served(p) = l1[p].value
    BY DEF Served
  <2>2. Served(p) \in Value /\ l1[p].expires > layersNow /\ l1[p].expires \in Nat
    BY <2>1 DEF Live, LayersInv, Entry
  <2>3. l1[p].expires <= left[Served(p)] + l1TTL + latency
    BY <2>1, <2>2 DEF LayersInv
  <2>4. left[Served(p)] <= Seen[Served(p)] /\ left[Served(p)] \in Nat /\ Seen[Served(p)] \in Nat
    BY <2>2, SeenIsLater DEF LayersInv
  <2>. QED  BY <2>2, <2>3, <2>4 DEF LayersNumbers, LayersInv, LayersTypeOK
<1>. QED  BY <1>1, LayersBegins, LayersKeeps, PTL DEF LayersSpec

-----------------------------------------------------------------------------
\* Plugins

\* As long as nothing was disabled under something that needs it, what a plugin needs that is
\* enabled, or waits to be, is enabled and nobody waits to disable it.
PluginInv ==
    /\ PluginTypeOK
    /\ ~broken => \A p \in enabledPlugins \cup enabling :
                      Needs(p) \subseteq enabledPlugins /\ Needs(p) \cap disabling = {}

LEMMA PluginKeeps == PluginInv /\ [PluginNext]_pluginVars => PluginInv'
<1>. SUFFICES ASSUME PluginInv, [PluginNext]_pluginVars  PROVE PluginInv'
  OBVIOUS
<1>1. CASE UNCHANGED pluginVars
  BY <1>1 DEF pluginVars, PluginInv, PluginTypeOK
<1>2. ASSUME NEW p \in Plugin, register(p)  PROVE PluginInv'
  BY <1>2 DEF register, PluginInv, PluginTypeOK
<1>3. ASSUME NEW p, MayEnable(p), PluginBegin(p), UNCHANGED <<plugins, enabledPlugins, disabling>>
      PROVE  PluginInv'
  BY <1>3 DEF MayEnable, PluginBegin, PluginInv, PluginTypeOK
<1>4. ASSUME NEW p \in Plugin, enable(p)  PROVE PluginInv'
  BY <1>3, <1>4 DEF enable
<1>5. ASSUME NEW p \in Plugin, enabled(p)  PROVE PluginInv'
  BY <1>5 DEF enabled, PluginInv, PluginTypeOK
<1>6. ASSUME NEW p \in Plugin, disable(p)  PROVE PluginInv'
  BY <1>6 DEF disable, MayDisable, PluginInv, PluginTypeOK
<1>7. ASSUME NEW p \in Plugin, disabled(p)  PROVE PluginInv'
  BY <1>7 DEF disabled, PluginInv, PluginTypeOK
<1>8. CASE loadFromConfig
  BY <1>8 DEF loadFromConfig, PluginInv, PluginTypeOK
<1>9. CASE loadNext
  <2>1. CASE UNCHANGED <<enabling, decorated, broken>>
    BY <1>9, <2>1 DEF loadNext, PluginInv, PluginTypeOK
  <2>2. CASE MayEnable(Head(loading.todo)) /\ PluginBegin(Head(loading.todo))
    BY <1>3, <1>9, <2>2 DEF loadNext
  <2>. QED  BY <1>9, <2>1, <2>2 DEF loadNext
<1>. QED  BY <1>1, <1>2, <1>4, <1>5, <1>6, <1>7, <1>8, <1>9 DEF PluginNext

\* enable() and disable() check before they wait, and what was checked still holds when they
\* record, unless a plugin is disabled while another that needs it is being enabled.
THEOREM NeedsAreEnabled == PluginSpec => []PluginTypeOK /\ []EnabledHasItsNeeds
<1>1. PluginInit => PluginInv
  BY DEF PluginInit, PluginInv, PluginTypeOK
<1>2. PluginInv => PluginTypeOK /\ EnabledHasItsNeeds
  BY DEF PluginInv, EnabledHasItsNeeds
<1>. QED  BY <1>1, <1>2, PluginKeeps, PTL DEF PluginSpec

-----------------------------------------------------------------------------
\* API keys

ApiKeyNumbers == keyHorizon \in Nat /\ Expiry \subseteq Nat

\* The map and the index agree; ids are handed out once, and what was withdrawn stays disabled.
ApiKeyInv ==
    /\ ApiKeyTypeOK
    /\ apiKeyKeys \in [Id -> [enabled : BOOLEAN, expiresAt : Nat]]
    /\ IndexIsOfEnabled
    /\ Stored \subseteq given
    /\ \A i \in apiKeyWithdrawn \cap Id : ~apiKeyKeys[i].enabled

LEMMA ApiKeyKeeps == ASSUME ApiKeyNumbers PROVE ApiKeyInv /\ [ApiKeyNext]_apiKeyVars => ApiKeyInv'
<1>. SUFFICES ASSUME ApiKeyInv, [ApiKeyNext]_apiKeyVars  PROVE ApiKeyInv'
  OBVIOUS
<1>. USE DEF ApiKeyInv, ApiKeyTypeOK, IndexIsOfEnabled, Stored, NoKey
<1>1. CASE UNCHANGED apiKeyVars
  BY <1>1 DEF apiKeyVars
<1>2. ASSUME NEW i \in Id, NEW days \in Expiry, generateKey(i, days)  PROVE ApiKeyInv'
  <2>. DEFINE made == [enabled |-> TRUE, expiresAt |-> apiKeyNow + days]
  <2>1. made \in [enabled : BOOLEAN, expiresAt : Nat] /\ made.enabled /\ made # NoKey
    BY DEF ApiKeyNumbers
  <2>2. /\ i \notin given /\ apiKeyKeys' = [apiKeyKeys EXCEPT ![i] = made]
        /\ keyIndex' = keyIndex \cup {i} /\ given' = given \cup {i}
        /\ UNCHANGED <<apiKeyNow, apiKeyWithdrawn>>
    BY <1>2 DEF generateKey
  <2>. HIDE DEF made, NoKey
  <2>. QED  BY <2>1, <2>2
<1>3. ASSUME NEW i \in Id, revokeKey(i)  PROVE ApiKeyInv'
  BY <1>3 DEF revokeKey, IndexWithout
<1>4. ASSUME NEW i \in Id, deleteKey(i)  PROVE ApiKeyInv'
  BY <1>4 DEF deleteKey, IndexWithout
<1>5. ASSUME NEW i \in Id, NEW new \in Id, rotateKey(i, new)  PROVE ApiKeyInv'
  <2>1. PICK days \in Expiry :
            apiKeyKeys' = [apiKeyKeys EXCEPT ![new] = [enabled |-> TRUE, expiresAt |-> apiKeyNow + days],
                                             ![i].enabled = FALSE]
    BY <1>5 DEF rotateKey
  <2>. DEFINE made == [enabled |-> TRUE, expiresAt |-> apiKeyNow + days]
              old == [apiKeyKeys[i] EXCEPT !.enabled = FALSE]
  <2>2. made \in [enabled : BOOLEAN, expiresAt : Nat] /\ made.enabled /\ made # NoKey
    BY DEF ApiKeyNumbers
  <2>3. old \in [enabled : BOOLEAN, expiresAt : Nat] /\ ~old.enabled
    <3>1. apiKeyKeys[i] \in [enabled : BOOLEAN, expiresAt : Nat]
      OBVIOUS
    <3>. QED  BY <3>1
  <2>4. /\ i \in Stored /\ i \in given /\ new \notin given /\ i # new
        /\ keyIndex' = (keyIndex \ {i}) \cup {new} /\ given' = given \cup {new}
        /\ apiKeyWithdrawn' = apiKeyWithdrawn \cup {i} /\ UNCHANGED apiKeyNow
    BY <1>5 DEF rotateKey, IndexWithout
  <2>5. apiKeyKeys' = [apiKeyKeys EXCEPT ![new] = made, ![i] = old]
    BY <2>1, <2>4
  <2>. HIDE DEF made, old, NoKey
  <2>. QED  BY <2>2, <2>3, <2>4, <2>5
<1>6. CASE apiKeyTick
  BY <1>6 DEF apiKeyTick, ApiKeyNumbers
<1>. QED  BY <1>1, <1>2, <1>3, <1>4, <1>5, <1>6 DEF ApiKeyNext

\* Whatever is generated, revoked, deleted and rotated in whatever order, the index leads to the
\* enabled keys and to no other, and validateKey() accepts none that was withdrawn or has expired.
THEOREM WithdrawnKeysAreRefused ==
    ASSUME ApiKeyNumbers
    PROVE  ApiKeySpec => []ApiKeyTypeOK /\ []IndexIsOfEnabled /\ []WithdrawnIsRefused
<1>1. ApiKeyInit => ApiKeyInv
  BY DEF ApiKeyNumbers, ApiKeyInit, ApiKeyInv, ApiKeyTypeOK, IndexIsOfEnabled, Stored, NoKey
<1>2. ApiKeyInv => ApiKeyTypeOK /\ IndexIsOfEnabled /\ WithdrawnIsRefused
  BY DEF ApiKeyNumbers, ApiKeyInv, ApiKeyTypeOK, WithdrawnIsRefused, validateKey
<1>. QED  BY <1>1, <1>2, ApiKeyKeeps, PTL DEF ApiKeySpec

-----------------------------------------------------------------------------
\* Addresses

\* Where no two rules of the whitelist were for one target, the set beside them has exactly
\* their targets.
FilterInv ==
    /\ FilterTypeOK
    /\ rules \in [Rule -> [type : {"none", "whitelist", "blacklist"}, ip : Target \cup {{}}, expiresAt : Nat]]
    /\ ~shared => /\ whitelist = {rules[r].ip : r \in Present("whitelist")}
                  /\ \A q, r \in Present("whitelist") : rules[q].ip = rules[r].ip => q = r

LEMMA FilterKeeps ==
    ASSUME filterHorizon \in Nat \ {0}
    PROVE  FilterInv /\ [FilterNext]_filterVars => FilterInv'
<1>. SUFFICES ASSUME FilterInv, [FilterNext]_filterVars  PROVE FilterInv'
  OBVIOUS
<1>1. CASE UNCHANGED filterVars
  BY <1>1 DEF filterVars, FilterInv, FilterTypeOK, Present
<1>2. ASSUME NEW r \in Rule, NEW ip \in Target, NEW t \in 0..filterHorizon, addWhitelist(r, ip, t)
      PROVE  FilterInv'
  <2>1. /\ rules[r].type = "none" /\ whitelist' = whitelist \cup {ip} /\ UNCHANGED filterNow
        /\ rules' = [rules EXCEPT ![r] = [type |-> "whitelist", ip |-> ip, expiresAt |-> t]]
    BY <1>2 DEF addWhitelist, add, NoRule
  <2>2. ~shared' => ~shared /\ \A q \in Present("whitelist") : rules[q].ip # ip
    BY <1>2, Zenon DEF addWhitelist, add
  <2>3. r \notin Present("whitelist") /\ Present("whitelist")' = Present("whitelist") \cup {r}
    BY <2>1 DEF Present, FilterInv
  <2>. QED  BY <2>1, <2>2, <2>3 DEF FilterInv, FilterTypeOK, Present
<1>3. ASSUME NEW r \in Rule, NEW ip \in Target, NEW t \in 0..filterHorizon, addBlacklist(r, ip, t)
      PROVE  FilterInv'
  <2>1. /\ rules[r].type = "none" /\ UNCHANGED <<filterNow, whitelist>>
        /\ rules' = [rules EXCEPT ![r] = [type |-> "blacklist", ip |-> ip, expiresAt |-> t]]
    BY <1>3 DEF addBlacklist, add, NoRule
  <2>2. ~shared' => ~shared
    BY <1>3, Zenon DEF addBlacklist, add
  <2>3. r \notin Present("whitelist") /\ Present("whitelist")' = Present("whitelist")
    BY <2>1 DEF Present, FilterInv
  <2>. QED  BY <2>1, <2>2, <2>3 DEF FilterInv, FilterTypeOK, Present
<1>4. ASSUME NEW gone \in SUBSET Rule, RemoveRules(gone), UNCHANGED <<filterNow, shared>>
      PROVE  FilterInv'
  <2>1. /\ whitelist' = whitelist \ {rules[r].ip : r \in gone \cap Present("whitelist")}
        /\ rules' = [r \in Rule |-> IF r \in gone THEN NoRule ELSE rules[r]]
    BY <1>4 DEF RemoveRules, Without
  <2>2. Present("whitelist")' = Present("whitelist") \ gone
    BY <2>1 DEF Present, NoRule, FilterInv
  <2>3. \A r \in Present("whitelist") \ gone : rules'[r] = rules[r]
    BY <2>1 DEF Present
  <2>4. rules' \in [Rule -> [type : {"none", "whitelist", "blacklist"}, ip : Target \cup {{}}, expiresAt : Nat]]
    BY <2>1 DEF NoRule, FilterInv
  <2>5. ASSUME ~shared
        PROVE  whitelist' = {rules'[r].ip : r \in Present("whitelist")'}
    <3>1. \A q, r \in Present("whitelist") : rules[q].ip = rules[r].ip => q = r
      BY <2>5 DEF FilterInv
    <3>2. whitelist = {rules[r].ip : r \in Present("whitelist")}
      BY <2>5 DEF FilterInv
    <3>3. ASSUME NEW ip \in whitelist'
          PROVE  \E r \in Present("whitelist")' : ip = rules'[r].ip
      BY <2>1, <2>2, <2>3, <3>2, <3>3
    <3>4. ASSUME NEW r \in Present("whitelist")'
          PROVE  rules'[r].ip \in whitelist'
      BY <2>1, <2>2, <2>3, <3>1, <3>2, <3>4
    <3>. QED  BY <3>3, <3>4
  <2>. QED  BY <1>4, <2>1, <2>2, <2>3, <2>4, <2>5 DEF FilterInv, FilterTypeOK
<1>5. ASSUME NEW r \in Rule, removeRule(r)  PROVE FilterInv'
  BY <1>4, <1>5 DEF removeRule
<1>6. CASE filterCleanup
  BY <1>4, <1>6 DEF filterCleanup
<1>7. CASE filterTick
  BY <1>7 DEF filterTick, FilterInv, FilterTypeOK, Present
<1>. QED  BY <1>1, <1>2, <1>3, <1>5, <1>6, <1>7 DEF FilterNext

\* check() decides by the rules in force, though it asks a set kept beside them whether the
\* whitelist has any; rules that lapse, are cleaned up and are removed leave that set right.
THEOREM FilterFollowsRules ==
    ASSUME filterHorizon \in Nat \ {0}
    PROVE  FilterSpec => []FilterTypeOK /\ []DecisionFollowsRules
<1>1. FilterInit => FilterInv
  BY DEF FilterInit, FilterInv, FilterTypeOK, Present, NoRule
<1>2. FilterInv => FilterTypeOK /\ DecisionFollowsRules
  <2>. SUFFICES ASSUME FilterInv, ~shared  PROVE whitelist # {} <=> Present("whitelist") # {}
    BY DEF FilterInv, DecisionFollowsRules, filterCheck
  <2>. QED  BY DEF FilterInv
<1>. QED  BY <1>1, <1>2, FilterKeeps, PTL DEF FilterSpec

-----------------------------------------------------------------------------
\* Keys of agents

\* The name of no agent is "none".
AgentKeyNumbers == keyHorizon \in Nat /\ JWT_EXPIRY \in Nat /\ "none" \notin Agent

\* A key that was withdrawn was somebody's and stays disabled.
AgentKeyInv ==
    /\ AgentKeyTypeOK
    /\ tokens \in [Token -> [agentId : Agent \cup {"none"}, exp : Nat]]
    /\ \A k \in agentKeyWithdrawn : apiKeys[k].agentId # "none" /\ ~apiKeys[k].enabled

LEMMA AgentKeyKeeps ==
    ASSUME AgentKeyNumbers
    PROVE  AgentKeyInv /\ [AgentKeyNext]_agentKeyVars => AgentKeyInv'
<1>. SUFFICES ASSUME AgentKeyInv, [AgentKeyNext]_agentKeyVars  PROVE AgentKeyInv'
  OBVIOUS
<1>1. CASE UNCHANGED agentKeyVars
  BY <1>1 DEF agentKeyVars, AgentKeyInv, AgentKeyTypeOK
<1>2. ASSUME NEW a \in Agent, NEW k \in Key, generateApiKey(k, a)  PROVE AgentKeyInv'
  BY <1>2 DEF generateApiKey, AgentKeyInv, AgentKeyTypeOK
<1>3. ASSUME NEW a \in Agent, NEW t \in Token, generateJWT(t, a)  PROVE AgentKeyInv'
  BY <1>3 DEF generateJWT, AgentKeyInv, AgentKeyTypeOK, AgentKeyNumbers
<1>4. ASSUME NEW t \in Token, revokeToken(t)  PROVE AgentKeyInv'
  BY <1>4 DEF revokeToken, AgentKeyInv, AgentKeyTypeOK
<1>5. ASSUME NEW a \in Agent, revokeAgentTokens(a)  PROVE AgentKeyInv'
  <2>. DEFINE keys == {k \in Key : apiKeys[k].agentId = a}
  <2>1. /\ apiKeys' = [k \in Key |-> IF k \in keys THEN [apiKeys[k] EXCEPT !.enabled = FALSE] ELSE apiKeys[k]]
        /\ agentKeyWithdrawn' = agentKeyWithdrawn \cup keys
        /\ UNCHANGED <<agentKeyNow, tokens, revokedTokens>>
    BY <1>5 DEF revokeAgentTokens
  <2>2. ASSUME NEW k \in Key
        PROVE  /\ apiKeys'[k] \in [agentId : Agent \cup {"none"}, enabled : BOOLEAN]
               /\ apiKeys'[k].agentId = apiKeys[k].agentId
               /\ ~apiKeys[k].enabled \/ k \in keys => ~apiKeys'[k].enabled
    <3>1. apiKeys[k] \in [agentId : Agent \cup {"none"}, enabled : BOOLEAN]
      BY DEF AgentKeyInv, AgentKeyTypeOK
    <3>2. apiKeys'[k] = IF k \in keys THEN [apiKeys[k] EXCEPT !.enabled = FALSE] ELSE apiKeys[k]
      BY <2>1
    <3>. QED  BY <3>1, <3>2
  <2>3. apiKeys' \in [Key -> [agentId : Agent \cup {"none"}, enabled : BOOLEAN]]
    BY <2>1, <2>2
  <2>4. \A k \in keys : k \in Key /\ apiKeys[k].agentId # "none"
    BY DEF AgentKeyNumbers
  <2>. HIDE DEF keys
  <2>. QED  BY <2>1, <2>2, <2>3, <2>4 DEF AgentKeyInv, AgentKeyTypeOK
<1>6. CASE agentKeyTick
  BY <1>6 DEF agentKeyTick, AgentKeyInv, AgentKeyTypeOK, AgentKeyNumbers
<1>. QED  BY <1>1, <1>2, <1>3, <1>4, <1>5, <1>6 DEF AgentKeyNext

\* Of all that a request carries, what authenticate() takes it for an agent by is good now and is
\* that agent's own; a key that was withdrawn is good never again.
THEOREM AgentsAreAuthentic ==
    ASSUME AgentKeyNumbers
    PROVE  AgentKeySpec => []AgentKeyTypeOK /\ []AuthenticatedByItsOwn
<1>1. AgentKeyInit => AgentKeyInv
  BY DEF AgentKeyNumbers, AgentKeyInit, AgentKeyInv, AgentKeyTypeOK
<1>2. AgentKeyInv => AgentKeyTypeOK /\ AuthenticatedByItsOwn
  <2>. SUFFICES ASSUME AgentKeyInv,
                       NEW cert \in Agent \cup {"none"}, NEW agentId \in Agent \cup {"none"},
                       NEW t \in Token \cup {0}, NEW k \in Key \cup {0},
                       authenticate(cert, agentId, t, k) # "none"
                PROVE  LET who == authenticate(cert, agentId, t, k)
                       IN  \/ cert = who /\ agentId = who
                           \/ t \in Token \ revokedTokens /\ tokens[t].agentId = who /\ agentKeyNow <= tokens[t].exp
                           \/ k \in Key \ agentKeyWithdrawn /\ apiKeys[k].agentId = who
    BY DEF AgentKeyInv, AuthenticatedByItsOwn
  <2>1. CASE cert # "none" /\ agentId # "none" /\ validateMTLS(cert, agentId) # "none"
    BY <2>1 DEF authenticate, validateMTLS
  <2>2. CASE /\ ~(cert # "none" /\ agentId # "none" /\ validateMTLS(cert, agentId) # "none")
             /\ validateJWT(t) # "none"
    <3>1. authenticate(cert, agentId, t, k) = validateJWT(t)
      BY <2>2 DEF authenticate
    <3>2. t \in Token \ revokedTokens /\ validateJWT(t) = tokens[t].agentId /\ tokens[t].exp >= agentKeyNow
      BY <2>2 DEF validateJWT
    <3>3. agentKeyNow \in Nat /\ tokens[t].exp \in Nat
      BY <3>2 DEF AgentKeyNumbers, AgentKeyInv, AgentKeyTypeOK
    <3>. QED  BY <3>1, <3>2, <3>3
  <2>3. CASE /\ ~(cert # "none" /\ agentId # "none" /\ validateMTLS(cert, agentId) # "none")
             /\ validateJWT(t) = "none"
    <3>1. authenticate(cert, agentId, t, k) = validateApiKey(k)
      BY <2>3 DEF authenticate
    <3>2. k \in Key /\ apiKeys[k].enabled /\ validateApiKey(k) = apiKeys[k].agentId
      BY <3>1 DEF validateApiKey
    <3>. QED  BY <3>1, <3>2 DEF AgentKeyInv
  <2>. QED  BY <2>1, <2>2, <2>3
<1>. QED  BY <1>1, <1>2, AgentKeyKeeps, PTL DEF AgentKeySpec

-----------------------------------------------------------------------------
\* Intrusions

IntrusionNumbers ==
    /\ threshold \in Nat \ {0} /\ window \in Nat /\ cooldownMs \in Nat
    /\ maxHistorySize \in Nat /\ maxAlerts \in Nat
    /\ intrusionHorizon \in Nat \ {0}

Failure == [source : Source, timestamp : Nat]
Alert == [source : Source, timestamp : Nat, acknowledged : BOOLEAN]

\* What the rule counted when the i-th event of the history came.
Counted(history, i) ==
    {j \in 1..i : /\ history[j].timestamp >= history[i].timestamp - window
                  /\ history[j].source = history[i].source}

\* As long as the history holds every event, one that filled its window raised an alert or
\* came while the rule was silent after one.
IntrusionInv ==
    /\ IntrusionTypeOK
    /\ eventHistory \in Seq(Failure) /\ alerts \in Seq(Alert)
    /\ events \in Nat
    /\ raised \subseteq Nat
    /\ lastTriggerTime # 0 => lastTriggerTime \in raised
    /\ \A i \in 1..Len(eventHistory) : eventHistory[i].timestamp <= intrusionNow
    /\ events <= maxHistorySize =>
          /\ Len(eventHistory) = events
          /\ \A i \in 1..Len(eventHistory) :
                Cardinality(Counted(eventHistory, i)) >= threshold =>
                    \E t \in raised : eventHistory[i].timestamp - t <= cooldownMs

\* What Kept() leaves of a sequence that was not too long before one element was added.
Shortened(seq, e, size, kept) ==
    /\ Len(kept) <= size
    /\ Len(seq) < size => kept = Append(seq, e)
    /\ \A i \in 1..Len(kept) : kept[i] = e \/ \E j \in 1..Len(seq) : kept[i] = seq[j]

LEMMA KeptIsShort ==
    ASSUME NEW S, NEW seq \in Seq(S), NEW e \in S, NEW size \in Nat, Len(seq) <= size
    PROVE  /\ Kept(Append(seq, e), size) \in Seq(S)
           /\ Shortened(seq, e, size, Kept(Append(seq, e), size))
<1>. DEFINE all == Append(seq, e)
<1>1. /\ all \in Seq(S) /\ Len(all) = Len(seq) + 1
      /\ \A i \in 1..Len(all) : all[i] = e \/ \E j \in 1..Len(seq) : all[i] = seq[j]
  OBVIOUS
<1>. HIDE DEF all
<1>2. CASE Len(seq) < size
  BY <1>1, <1>2 DEF Kept, all, Shortened
<1>3. CASE Len(seq) = size
  <2>1. Kept(all, size) = Tail(all)
    BY <1>1, <1>3 DEF Kept
  <2>2. /\ Tail(all) \in Seq(S) /\ Len(Tail(all)) = Len(seq)
        /\ \A i \in 1..Len(seq) : Tail(all)[i] = all[i + 1]
    BY <1>1
  <2>3. \A i \in 1..Len(seq) : i + 1 \in 1..Len(all)
    BY <1>1
  <2>. QED  BY <1>1, <1>3, <2>1, <2>2, <2>3 DEF all, Shortened
<1>. QED  BY <1>2, <1>3

\* There is a last one among some indexes of a sequence.
LEMMA LastIndex ==
    ASSUME NEW n \in Nat, NEW S \in SUBSET (1..n), S # {}
    PROVE  \E i \in S : \A j \in S : j <= i
<1>. DEFINE T == {k \in Nat : n - k \in S}
<1>1. T \subseteq Nat /\ T # {}
  <2>1. PICK i \in S : TRUE
    OBVIOUS
  <2>2. n - i \in Nat /\ n - (n - i) = i
    OBVIOUS
  <2>. QED  BY <2>1, <2>2
<1>2. PICK k \in T : \A l \in T : <<l, k>> \notin OpToRel(<, Nat)
  BY <1>1, NatLessThanWellFounded, WFMin, Zenon
<1>3. \A l \in T : ~(l < k)
  BY <1>2 DEF OpToRel
<1>4. ASSUME NEW j \in S  PROVE j <= n - k
  <2>1. n - j \in Nat /\ n - (n - j) = j
    OBVIOUS
  <2>2. n - j \in T
    BY <2>1
  <2>. QED  BY <1>3, <2>1, <2>2
<1>. QED  BY <1>4

LEMMA EventKeeps ==
    ASSUME IntrusionNumbers, IntrusionInv, NEW source \in Source, processEvent(source)
    PROVE  IntrusionInv'
<1>. DEFINE event == [source |-> source, timestamp |-> intrusionNow]
            alert == [source |-> source, timestamp |-> intrusionNow, acknowledged |-> FALSE]
<1>1. /\ intrusionNow \in 1..intrusionHorizon /\ intrusionNow \in Nat
      /\ event \in Failure /\ alert \in Alert
  BY DEF IntrusionNumbers, IntrusionInv, IntrusionTypeOK, Failure, Alert
<1>2. /\ eventHistory' = Kept(Append(eventHistory, event), maxHistorySize)
      /\ events' = events + 1 /\ UNCHANGED intrusionNow
      /\ \/ /\ alerts' = Kept(Append(alerts, alert), maxAlerts)
            /\ lastTriggerTime' = intrusionNow
            /\ raised' = raised \cup {intrusionNow}
         \/ /\ Condition(eventHistory', source) => Silent
            /\ UNCHANGED <<alerts, lastTriggerTime, raised>>
  BY DEF processEvent
<1>3. /\ eventHistory' \in Seq(Failure) /\ Len(eventHistory') <= maxHistorySize
      /\ Len(eventHistory) < maxHistorySize => eventHistory' = Append(eventHistory, event)
      /\ \A i \in 1..Len(eventHistory') :
            eventHistory'[i] = event \/ \E j \in 1..Len(eventHistory) : eventHistory'[i] = eventHistory[j]
  <2>1. eventHistory \in Seq(Failure) /\ Len(eventHistory) <= maxHistorySize /\ maxHistorySize \in Nat
    BY DEF IntrusionNumbers, IntrusionInv, IntrusionTypeOK
  <2>2. event \in Failure /\ eventHistory' = Kept(Append(eventHistory, event), maxHistorySize)
    BY <1>1, <1>2
  <2>. HIDE DEF event
  <2>3. eventHistory' \in Seq(Failure) /\ Shortened(eventHistory, event, maxHistorySize, eventHistory')
    BY <2>1, <2>2, KeptIsShort, Zenon
  <2>. QED  BY <2>3 DEF Shortened
<1>4. alerts' \in Seq(Alert) /\ Len(alerts') <= maxAlerts
  <2>1. alerts \in Seq(Alert) /\ Len(alerts) <= maxAlerts /\ maxAlerts \in Nat
    BY DEF IntrusionNumbers, IntrusionInv, IntrusionTypeOK
  <2>2. CASE alerts' = Kept(Append(alerts, alert), maxAlerts)
    <3>1. alert \in Alert
      BY <1>1
    <3>. HIDE DEF alert
    <3>2. alerts' \in Seq(Alert) /\ Shortened(alerts, alert, maxAlerts, alerts')
      BY <2>1, <2>2, <3>1, KeptIsShort, Zenon
    <3>. QED  BY <3>2 DEF Shortened
  <2>3. CASE UNCHANGED alerts
    BY <2>1, <2>3
  <2>. QED  BY <1>2, <2>2, <2>3
<1>. HIDE DEF alert
<1>5. \A i \in 1..Len(eventHistory') : eventHistory'[i].timestamp <= intrusionNow'
  <2>1. event.timestamp <= intrusionNow /\ intrusionNow' = intrusionNow
    BY <1>1, <1>2
  <2>2. \A j \in 1..Len(eventHistory) : eventHistory[j].timestamp <= intrusionNow
    BY DEF IntrusionInv
  <2>. HIDE DEF event
  <2>. QED  BY <1>3, <2>1, <2>2
<1>6. /\ lastTriggerTime' \in 0..intrusionNow' /\ raised' \subseteq Nat
      /\ lastTriggerTime' # 0 => lastTriggerTime' \in raised'
      /\ raised \subseteq raised'
  <2>1. /\ lastTriggerTime \in 0..intrusionNow /\ raised \subseteq Nat
        /\ lastTriggerTime # 0 => lastTriggerTime \in raised
    BY DEF IntrusionInv, IntrusionTypeOK
  <2>2. CASE lastTriggerTime' = intrusionNow /\ raised' = raised \cup {intrusionNow}
    BY <1>1, <1>2, <2>1, <2>2
  <2>3. CASE UNCHANGED <<lastTriggerTime, raised>>
    BY <1>2, <2>1, <2>3
  <2>. QED  BY <1>2, <2>2, <2>3
<1>7. ASSUME events' <= maxHistorySize
      PROVE  /\ Len(eventHistory') = events'
             /\ \A i \in 1..Len(eventHistory') :
                   Cardinality(Counted(eventHistory', i)) >= threshold =>
                       \E t \in raised' : eventHistory'[i].timestamp - t <= cooldownMs
  <2>1. /\ events <= maxHistorySize /\ Len(eventHistory) = events
        /\ events < maxHistorySize
    BY <1>2, <1>7 DEF IntrusionNumbers, IntrusionInv
  <2>2. /\ eventHistory' = Append(eventHistory, event)
        /\ eventHistory \in Seq(Failure)
    BY <1>3, <2>1 DEF IntrusionInv
  <2>. DEFINE n == Len(eventHistory)
  <2>3. /\ n \in Nat /\ Len(eventHistory') = n + 1 /\ eventHistory'[n + 1] = event
        /\ \A i \in 1..n : eventHistory'[i] = eventHistory[i]
    BY <1>1, <2>2
  <2>4. ASSUME NEW i \in 1..n, Cardinality(Counted(eventHistory', i)) >= threshold
        PROVE  \E t \in raised' : eventHistory'[i].timestamp - t <= cooldownMs
    <3>1. Counted(eventHistory', i) = Counted(eventHistory, i)
      BY <2>3 DEF Counted
    <3>. QED  BY <1>6, <2>1, <2>3, <2>4, <3>1 DEF IntrusionInv
  <2>5. ASSUME Cardinality(Counted(eventHistory', n + 1)) >= threshold
        PROVE  \E t \in raised' : intrusionNow - t <= cooldownMs
    <3>1. Counted(eventHistory', n + 1) = Recent(eventHistory', source)
      BY <1>1, <2>2, <2>3 DEF Counted, Recent
    <3>2. Condition(eventHistory', source)
      BY <2>5, <3>1 DEF Condition
    <3>3. CASE raised' = raised \cup {intrusionNow}
      <4>1. intrusionNow \in raised' /\ intrusionNow - intrusionNow <= cooldownMs
        BY <1>1, <3>3 DEF IntrusionNumbers
      <4>. QED  BY <4>1
    <3>4. CASE Silent /\ UNCHANGED raised
      <4>1. lastTriggerTime \in raised' /\ intrusionNow - lastTriggerTime < cooldownMs
        BY <3>4 DEF Silent, IntrusionInv
      <4>2. lastTriggerTime \in Nat /\ cooldownMs \in Nat
        BY <4>1, <3>4 DEF IntrusionNumbers, IntrusionInv
      <4>. QED  BY <1>1, <4>1, <4>2
    <3>. QED  BY <1>2, <3>2, <3>3, <3>4
  <2>6. \A i \in 1..(n + 1) : i \in 1..n \/ i = n + 1
    BY <2>3
  <2>7. eventHistory'[n + 1].timestamp = intrusionNow
    BY <2>3
  <2>. HIDE DEF event, n
  <2>8. Len(eventHistory') = events'
    BY <1>2, <2>1, <2>3 DEF n
  <2>. QED  BY <2>3, <2>4, <2>5, <2>6, <2>7, <2>8
<1>8. events' \in Nat /\ IntrusionTypeOK'
  BY <1>1, <1>2, <1>3, <1>4, <1>6 DEF IntrusionInv, IntrusionTypeOK
<1>. QED  BY <1>3, <1>4, <1>5, <1>6, <1>7, <1>8 DEF IntrusionInv

LEMMA IntrusionKeeps ==
    ASSUME IntrusionNumbers
    PROVE  IntrusionInv /\ [IntrusionNext]_intrusionVars => IntrusionInv'
<1>. SUFFICES ASSUME IntrusionInv, [IntrusionNext]_intrusionVars  PROVE IntrusionInv'
  OBVIOUS
<1>1. CASE UNCHANGED intrusionVars
  BY <1>1 DEF intrusionVars, IntrusionInv, IntrusionTypeOK
<1>2. ASSUME NEW i, acknowledgeAlert(i)  PROVE IntrusionInv'
  <2>1. alerts \in Seq(Alert) /\ i \in DOMAIN alerts
    BY <1>2 DEF acknowledgeAlert, IntrusionInv
  <2>2. /\ i \in 1..Len(alerts) /\ alerts' = [alerts EXCEPT ![i].acknowledged = TRUE]
        /\ UNCHANGED <<intrusionNow, eventHistory, lastTriggerTime, events, raised>>
        /\ alerts \in Seq(Alert)
    BY <1>2, <2>1 DEF acknowledgeAlert
  <2>3. [alerts[i] EXCEPT !.acknowledged = TRUE] \in Alert
    <3>1. alerts[i] \in Alert
      BY <2>2
    <3>. QED  BY <3>1 DEF Alert
  <2>4. alerts' \in Seq(Alert) /\ Len(alerts') = Len(alerts)
    BY <2>2, <2>3
  <2>. QED  BY <2>2, <2>4 DEF IntrusionInv, IntrusionTypeOK
<1>3. CASE clearAlerts
  BY <1>3 DEF clearAlerts, IntrusionInv, IntrusionTypeOK, IntrusionNumbers
<1>4. CASE intrusionTick
  <2>1. /\ intrusionNow' = intrusionNow + 1 /\ intrusionNow < intrusionHorizon
        /\ UNCHANGED <<eventHistory, alerts, lastTriggerTime, events, raised>>
        /\ intrusionNow \in 1..intrusionHorizon
    BY <1>4 DEF intrusionTick, IntrusionInv, IntrusionTypeOK
  <2>2. IntrusionTypeOK'
    <3>1. intrusionHorizon \in Nat /\ lastTriggerTime \in 0..intrusionNow
      BY DEF IntrusionNumbers, IntrusionInv, IntrusionTypeOK
    <3>2. intrusionNow' \in 1..intrusionHorizon /\ lastTriggerTime' \in 0..intrusionNow'
      BY <2>1, <3>1
    <3>. QED  BY <2>1, <3>2 DEF IntrusionInv, IntrusionTypeOK
  <2>3. \A i \in 1..Len(eventHistory) : eventHistory[i].timestamp \in Nat
    <3>1. \A i \in 1..Len(eventHistory) : eventHistory[i] \in Failure
      BY DEF IntrusionInv
    <3>. QED  BY <3>1 DEF Failure
  <2>4. \A i \in 1..Len(eventHistory') : eventHistory'[i].timestamp <= intrusionNow'
    BY <2>1, <2>3 DEF IntrusionNumbers, IntrusionInv
  <2>. QED  BY <2>1, <2>2, <2>4 DEF IntrusionInv
<1>. QED  BY <1>1, <1>2, <1>3, <1>4, EventKeeps DEF IntrusionNext

\* While the failures of one source fill the window there was an alert in it, or a silence's
\* length before it: neither the events of other sources, nor alerts that are acknowledged,
\* cleared or pushed out, hide a flood.
THEOREM FloodsAreSeen ==
    ASSUME IntrusionNumbers
    PROVE  IntrusionSpec => []IntrusionTypeOK /\ []FloodIsSeen
<1>1. IntrusionInit => IntrusionInv
  BY DEF IntrusionNumbers, IntrusionInit, IntrusionInv, IntrusionTypeOK
<1>2. IntrusionInv => IntrusionTypeOK /\ FloodIsSeen
  <2>. SUFFICES ASSUME IntrusionInv, events <= maxHistorySize,
                       NEW s \in Source, Cardinality(Recent(eventHistory, s)) >= threshold
                PROVE  \E t \in raised : intrusionNow - t <= window + cooldownMs
    BY DEF IntrusionInv, FloodIsSeen
  <2>. DEFINE n == Len(eventHistory)
              recent == Recent(eventHistory, s)
  <2>1. /\ n \in Nat /\ DOMAIN eventHistory = 1..n
        /\ \A i \in 1..n : eventHistory[i].timestamp \in Nat
        /\ intrusionNow \in Nat
    <3>1. eventHistory \in Seq(Failure) /\ intrusionNow \in 1..intrusionHorizon /\ intrusionHorizon \in Nat
      BY DEF IntrusionInv, IntrusionTypeOK, IntrusionNumbers
    <3>2. \A i \in 1..n : eventHistory[i] \in Failure
      BY <3>1
    <3>. QED  BY <3>1, <3>2 DEF Failure
  <2>2. /\ recent \in SUBSET (1..n)
        /\ \A i \in recent : /\ eventHistory[i].timestamp >= intrusionNow - window
                             /\ eventHistory[i].source = s
    BY <2>1 DEF Recent
  <2>3. recent # {}
    BY FS_EmptySet DEF IntrusionNumbers
  <2>. HIDE DEF recent, n
  <2>4. PICK i \in recent : \A j \in recent : j <= i
    BY <2>1, <2>2, <2>3, LastIndex
  <2>5. i \in 1..n /\ i \in Nat /\ eventHistory[i].timestamp \in Nat /\ eventHistory[i].timestamp <= intrusionNow
    BY <2>1, <2>2, <2>4 DEF IntrusionInv, n
  <2>6. recent \subseteq Counted(eventHistory, i)
    <3>. SUFFICES ASSUME NEW j \in recent
                  PROVE  /\ j \in 1..i /\ eventHistory[j].source = eventHistory[i].source
                         /\ eventHistory[j].timestamp >= eventHistory[i].timestamp - window
      BY DEF Counted
    <3>1. j \in 1..n /\ j <= i /\ eventHistory[j].timestamp \in Nat
      BY <2>1, <2>2, <2>4
    <3>2. /\ eventHistory[j].timestamp >= intrusionNow - window
          /\ eventHistory[j].source = s /\ eventHistory[i].source = s
      BY <2>2, <2>4
    <3>3. intrusionNow \in Nat /\ window \in Nat /\ n \in Nat
      BY <2>1 DEF IntrusionNumbers
    <3>4. eventHistory[j].timestamp >= eventHistory[i].timestamp - window
      BY <2>5, <3>1, <3>2, <3>3
    <3>5. j \in 1..i
      BY <2>5, <3>1, <3>3
    <3>. QED  BY <3>2, <3>4, <3>5
  <2>7. IsFiniteSet(Counted(eventHistory, i)) /\ Counted(eventHistory, i) \subseteq 1..i
    <3>1. Counted(eventHistory, i) \subseteq 1..i
      BY DEF Counted
    <3>2. IsFiniteSet(1..i)
      BY <2>5, FS_Interval
    <3>. QED  BY <3>1, <3>2, FS_Subset
  <2>8. Cardinality(Counted(eventHistory, i)) >= threshold
    <3>1. /\ Cardinality(recent) <= Cardinality(Counted(eventHistory, i))
          /\ Cardinality(recent) \in Nat /\ Cardinality(Counted(eventHistory, i)) \in Nat
      BY <2>6, <2>7, FS_Subset, FS_CardinalityType
    <3>2. Cardinality(recent) >= threshold
      BY DEF recent
    <3>. QED  BY <3>1, <3>2 DEF IntrusionNumbers
  <2>9. PICK t \in raised : eventHistory[i].timestamp - t <= cooldownMs
    BY <2>5, <2>8 DEF IntrusionInv, n
  <2>10. t \in Nat /\ eventHistory[i].timestamp >= intrusionNow - window
    BY <2>2, <2>4, <2>9 DEF IntrusionInv
  <2>. QED  BY <2>1, <2>5, <2>9, <2>10 DEF IntrusionNumbers
<1>. QED  BY <1>1, <1>2, IntrusionKeeps, PTL DEF IntrusionSpec

-----------------------------------------------------------------------------
\* The saga of a task and the places of its node

SagaAssumption == IsFiniteSet(SagaTask) /\ maxTasks \in Nat

HoldsPlace == {"schedule", "execute", "complete", "cancel", "unschedule", "release", "done"}
SagaPc == {"validate", "find", "reserve", "compensated"} \cup HoldsPlace
SagaRecord == [pc : SagaPc, node : Node \cup {NoNode}, read : Nat]

\* A saga that reserves knows its node, also when its reservation outlives it.
SagaInv ==
    /\ sagaOf \in [SagaTask -> SagaRecord]
    /\ taskStatus \in [SagaTask -> {"PENDING", "SCHEDULED", "RUNNING", "COMPLETED"}]
    /\ execution \in [SagaTask -> {"none", "SCHEDULED", "RUNNING", "COMPLETED", "CANCELLED"}]
    /\ tasksRunning \in [Node -> Nat]
    /\ late \subseteq SagaTask
    /\ \A t \in SagaTask :
          /\ sagaOf[t].pc \in {"reserve"} \cup HoldsPlace => sagaOf[t].node \in Node
          /\ t \in late => sagaOf[t].node \in Node /\ sagaOf[t].pc = "compensated"
    /\ ReservationsAreCounted

LEMMA SagaBegins ==
    ASSUME SagaAssumption, SagaInit
    PROVE  SagaInv
<1>1. \A n \in Node : Reserving(n) = {}
  BY DEF SagaInit, Reserving
<1>2. ReservationsAreCounted
  BY <1>1, FS_EmptySet DEF SagaInit, ReservationsAreCounted, SagaAssumption
<1>. QED  BY <1>2 DEF SagaInit, SagaInv, SagaRecord, SagaPc, HoldsPlace

LEMMA PlacesAreFinite ==
    ASSUME SagaAssumption, NEW n
    PROVE  IsFiniteSet(Reserving(n)) /\ Cardinality(Reserving(n)) \in Nat
BY FS_Subset, FS_CardinalityType DEF SagaAssumption, Reserving

\* A step of a saga that neither takes a place nor gives one back leaves the places counted.
LEMMA NoPlaceMoves ==
    ASSUME SagaInv, NEW t \in SagaTask, NEW s \in SagaRecord,
           sagaOf' = [sagaOf EXCEPT ![t] = s], UNCHANGED tasksRunning,
           sagaOf[t].pc \in HoldsPlace <=> s.pc \in HoldsPlace,
           s.pc \in HoldsPlace => s.node = sagaOf[t].node
    PROVE  ReservationsAreCounted'
<1>1. \A n \in Node : Reserving(n)' = Reserving(n)
  BY DEF SagaInv, Reserving, HoldsPlace
<1>. QED  BY <1>1 DEF SagaInv, ReservationsAreCounted

\* A step that ends a saga and gives no place back.
LEMMA PlaceIsLost ==
    ASSUME SagaAssumption, SagaInv, NEW t \in SagaTask,
           MoveOn(t, "compensated"),
           NEW n \in Node
    PROVE  /\ Cardinality(Reserving(n)') \in Nat
           /\ Cardinality(Reserving(n)') <= Cardinality(Reserving(n))
           /\ t \in Reserving(n) => Cardinality(Reserving(n)') + 1 = Cardinality(Reserving(n))
<1>1. Reserving(n)' = Reserving(n) \ {t}
  BY DEF SagaInv, SagaRecord, Reserving, MoveOn
<1>2. IsFiniteSet(Reserving(n)) /\ Cardinality(Reserving(n)) \in Nat
  BY PlacesAreFinite
<1>. DEFINE R == Reserving(n)
<1>3. /\ IsFiniteSet(R \ {t})
      /\ Cardinality(R \ {t}) = IF t \in R THEN Cardinality(R) - 1 ELSE Cardinality(R)
  <2>. HIDE DEF R
  <2>. QED  BY <1>2, FS_RemoveElement DEF R
<1>4. Cardinality(R \ {t}) \in Nat
  <2>. HIDE DEF R
  <2>. QED  BY <1>3, FS_CardinalityType
<1>. QED  BY <1>1, <1>2, <1>3, <1>4

\* The transaction counts the place it takes.
LEMMA ReserveKeeps ==
    ASSUME SagaAssumption, SagaInv, NEW t \in SagaTask, reserveResources(t)
    PROVE  SagaInv'
<1>. DEFINE n == sagaOf[t].node
<1>0. n \in Node /\ At(t, "reserve") /\ t \notin late
  BY DEF reserveResources, At, SagaInv
<1>1. CASE Fits(n)
  <2>1. /\ sagaOf' = [sagaOf EXCEPT ![t].pc = "schedule"]
        /\ tasksRunning' = [tasksRunning EXCEPT ![n] = tasksRunning[n] + 1]
    BY <1>1 DEF reserveResources, MoveOn
  <2>2. \A m \in Node : Reserving(m)' = IF m = n THEN Reserving(m) \cup {t} ELSE Reserving(m)
    BY <2>1 DEF Reserving, SagaInv, SagaRecord
  <2>3. \A m \in Node : t \notin Reserving(m)
    BY <1>0 DEF Reserving, At
  <2>6. tasksRunning'[n] = tasksRunning[n] + 1
        /\ \A m \in Node \ {n} : tasksRunning'[m] = tasksRunning[m]
    BY <2>1, <1>0 DEF SagaInv
  <2>7. tasksRunning[n] \in Nat /\ maxTasks \in Nat
    BY <1>0 DEF SagaInv, SagaAssumption
  <2>8. ReservationsAreCounted'
    <3>. SUFFICES ASSUME NEW m \in Node
                  PROVE  /\ Cardinality(Reserving(m)') <= tasksRunning'[m]
                         /\ tasksRunning'[m] <= maxTasks
      BY DEF ReservationsAreCounted
    <3>1. /\ Cardinality(Reserving(m)) <= tasksRunning[m]
          /\ tasksRunning[m] <= maxTasks
      BY DEF SagaInv, ReservationsAreCounted
    <3>2. CASE m # n
      BY <3>1, <3>2, <2>2, <2>6
    <3>3. CASE m = n
      <4>1. Reserving(m)' = Reserving(m) \cup {t} /\ t \notin Reserving(m)
        BY <3>3, <2>2, <2>3
      <4>2. Cardinality(Reserving(m)') = Cardinality(Reserving(m)) + 1
        BY <4>1, PlacesAreFinite, FS_AddElement
      <4>3. Cardinality(Reserving(m)) \in Nat
        BY PlacesAreFinite
      <4>4. tasksRunning'[m] = tasksRunning[m] + 1 /\ tasksRunning[m] + 1 <= maxTasks
        BY <3>3, <2>6, <1>1 DEF Fits
      <4>5. tasksRunning[m] \in Nat
        BY <3>3, <2>7
      <4>. QED  BY <3>1, <4>2, <4>3, <4>4, <4>5, <2>7
    <3>. QED  BY <3>2, <3>3
  <2>9. sagaOf' \in [SagaTask -> SagaRecord]
    BY <2>1 DEF SagaInv, SagaRecord, SagaPc, HoldsPlace
  <2>10. tasksRunning' \in [Node -> Nat]
    BY <2>1, <2>7, <1>0 DEF SagaInv
  <2>. QED
    BY <2>1, <2>8, <2>9, <2>10, <1>0 DEF reserveResources, SagaInv, SagaRecord, HoldsPlace
<1>2. CASE ~Fits(n)
  <2>1. sagaOf' = [sagaOf EXCEPT ![t] = [sagaOf[t] EXCEPT !.pc = "compensated"]]
        /\ UNCHANGED <<tasksRunning, taskStatus, execution, late>>
    BY <1>2 DEF reserveResources, MoveOn
  <2>2. [sagaOf[t] EXCEPT !.pc = "compensated"] \in SagaRecord
    BY DEF SagaInv, SagaRecord, SagaPc
  <2>3. ReservationsAreCounted'
    BY <2>1, <2>2, <1>0, NoPlaceMoves DEF At, HoldsPlace, SagaRecord
  <2>. QED  BY <2>1, <2>2, <2>3, <1>0 DEF SagaInv, SagaRecord, HoldsPlace
<1>. QED  BY <1>1, <1>2

\* A transaction that outlives its saga counts a place that nobody holds, and never too many.
LEMMA ReserveLateKeeps ==
    ASSUME SagaAssumption, SagaInv, NEW t \in SagaTask, reserveLate(t)
    PROVE  SagaInv'
<1>. DEFINE n == sagaOf[t].node
<1>0. n \in Node /\ tasksRunning[n] \in Nat /\ maxTasks \in Nat
  BY DEF reserveLate, SagaInv, SagaAssumption
<1>1. tasksRunning' \in [Node -> Nat]
  BY <1>0 DEF reserveLate, SagaInv
<1>2. \A m \in Node : tasksRunning[m] <= tasksRunning'[m] /\ tasksRunning'[m] <= maxTasks
  BY <1>0 DEF reserveLate, Fits, SagaInv, ReservationsAreCounted
<1>3. ReservationsAreCounted'
  <2>. SUFFICES ASSUME NEW m \in Node
                PROVE  Cardinality(Reserving(m)) <= tasksRunning'[m]
    BY <1>2 DEF ReservationsAreCounted, Reserving, reserveLate
  <2>1. Cardinality(Reserving(m)) \in Nat /\ Cardinality(Reserving(m)) <= tasksRunning[m]
    BY PlacesAreFinite DEF SagaInv, ReservationsAreCounted
  <2>2. tasksRunning[m] \in Nat /\ tasksRunning'[m] \in Nat
    BY <1>1 DEF SagaInv
  <2>. QED  BY <2>1, <2>2, <1>2
<1>. QED  BY <1>1, <1>3 DEF reserveLate, SagaInv

\* A saga that ends, and gives its place back or does not.
LEMMA ReleaseKeeps ==
    ASSUME SagaAssumption, SagaInv, NEW t \in SagaTask, At(t, "release"),
           MoveOn(t, "compensated"), UNCHANGED <<taskStatus, execution, late>>,
           LET n == sagaOf[t].node
           IN  \/ UNCHANGED tasksRunning
               \/ tasksRunning[n] > 0 /\ tasksRunning' = [tasksRunning EXCEPT ![n] = tasksRunning[n] - 1]
    PROVE  SagaInv'
<1>. DEFINE n == sagaOf[t].node
<1>0. n \in Node /\ tasksRunning[n] \in Nat /\ maxTasks \in Nat /\ t \in Reserving(n) /\ t \notin late
  BY DEF At, SagaInv, SagaAssumption, HoldsPlace, Reserving
<1>1. tasksRunning' \in [Node -> Nat]
      /\ \A m \in Node : tasksRunning'[m] <= tasksRunning[m]
  BY <1>0 DEF SagaInv
<1>2. tasksRunning[n] <= tasksRunning'[n] + 1
      /\ \A m \in Node \ {n} : tasksRunning'[m] = tasksRunning[m]
  BY <1>0 DEF SagaInv
<1>3. ReservationsAreCounted'
  <2>. SUFFICES ASSUME NEW m \in Node
                PROVE  /\ Cardinality(Reserving(m)') <= tasksRunning'[m]
                       /\ tasksRunning'[m] <= maxTasks
    BY DEF ReservationsAreCounted
  <2>1. /\ Cardinality(Reserving(m)) <= tasksRunning[m]
        /\ tasksRunning[m] <= maxTasks
    BY DEF SagaInv, ReservationsAreCounted
  <2>2. /\ Cardinality(Reserving(m)') \in Nat /\ Cardinality(Reserving(m)) \in Nat
        /\ Cardinality(Reserving(m)') <= Cardinality(Reserving(m))
        /\ t \in Reserving(m) => Cardinality(Reserving(m)') + 1 = Cardinality(Reserving(m))
    BY PlaceIsLost, PlacesAreFinite
  <2>3. tasksRunning[m] \in Nat /\ tasksRunning'[m] \in Nat
    BY <1>1 DEF SagaInv
  <2>4. CASE m = n
    BY <2>1, <2>2, <2>3, <2>4, <1>0, <1>1, <1>2
  <2>5. CASE m # n
    BY <2>1, <2>2, <2>3, <2>5, <1>0, <1>2
  <2>. QED  BY <2>4, <2>5
<1>4. sagaOf' \in [SagaTask -> SagaRecord]
  BY DEF MoveOn, SagaInv, SagaRecord, SagaPc, HoldsPlace
<1>. QED  BY <1>0, <1>1, <1>3, <1>4 DEF SagaInv, SagaRecord, HoldsPlace, MoveOn

\* Every other step of a saga leaves the places alone.
LEMMA SagaMoveKeeps ==
    ASSUME SagaAssumption, SagaInv, NEW t \in SagaTask,
           \/ validateTask(t) \/ findNode(t) \/ reserveTimesOut(t)
           \/ scheduleTask(t) \/ executeTask(t) \/ completeTask(t)
           \/ compensateExecute(t) \/ compensateSchedule(t)
           \/ skipCompensation(t) /\ ~At(t, "release")
    PROVE  SagaInv'
<1>1. /\ taskStatus' \in [SagaTask -> {"PENDING", "SCHEDULED", "RUNNING", "COMPLETED"}]
      /\ execution' \in [SagaTask -> {"none", "SCHEDULED", "RUNNING", "COMPLETED", "CANCELLED"}]
  BY DEF validateTask, findNode, reserveTimesOut, scheduleTask, executeTask, completeTask,
         compensateExecute, compensateSchedule, skipCompensation, SagaInv
<1>2. PICK s \in SagaRecord :
          /\ sagaOf' = [sagaOf EXCEPT ![t] = s] /\ UNCHANGED tasksRunning
          /\ sagaOf[t].pc \in HoldsPlace <=> s.pc \in HoldsPlace
          /\ s.pc \in HoldsPlace => s.node = sagaOf[t].node
          /\ s.pc \in HoldsPlace \cup {"reserve"} => s.node \in Node
          /\ \/ late' = late /\ sagaOf[t].pc # "compensated"
             \/ late' = late \cup {t} /\ s.pc = "compensated" /\ s.node \in Node
  <2>0. sagaOf[t] \in SagaRecord
    BY DEF SagaInv
  <2>1. CASE findNode(t)
    <3>1. CASE MoveOn(t, "compensated")
      <4>. DEFINE s == [sagaOf[t] EXCEPT !.pc = "compensated"]
      <4>1. s \in SagaRecord /\ s.pc = "compensated"
        BY <2>0 DEF SagaRecord, SagaPc
      <4>2. sagaOf' = [sagaOf EXCEPT ![t] = s]
        BY <3>1 DEF MoveOn
      <4>. HIDE DEF s
      <4>. QED  BY <4>1, <4>2, <2>1 DEF findNode, At, HoldsPlace
    <3>2. CASE ~MoveOn(t, "compensated")
      <4>1. PICK n \in Node : sagaOf' = [sagaOf EXCEPT ![t] =
                [pc |-> "reserve", node |-> n, read |-> tasksRunning[n]]]
        BY <2>1, <3>2 DEF findNode
      <4>2. [pc |-> "reserve", node |-> n, read |-> tasksRunning[n]] \in SagaRecord
        BY DEF SagaInv, SagaRecord, SagaPc
      <4>. QED  BY <4>1, <4>2, <2>1 DEF findNode, At, HoldsPlace
    <3>. QED  BY <3>1, <3>2
  <2>2. CASE ~findNode(t)
    <3>1. PICK there \in SagaPc :
              /\ MoveOn(t, there) /\ UNCHANGED tasksRunning
              /\ sagaOf[t].pc \in HoldsPlace <=> there \in HoldsPlace
              /\ there # "reserve"
              /\ \/ late' = late /\ sagaOf[t].pc # "compensated"
                 \/ late' = late \cup {t} /\ there = "compensated" /\ sagaOf[t].pc = "reserve"
      BY <2>2 DEF validateTask, reserveTimesOut, scheduleTask, executeTask, completeTask,
         compensateExecute, compensateSchedule, skipCompensation, At, SagaPc, HoldsPlace
    <3>. DEFINE s == [sagaOf[t] EXCEPT !.pc = there]
    <3>2. s \in SagaRecord /\ s.pc = there /\ s.node = sagaOf[t].node
      BY <2>0 DEF SagaRecord
    <3>3. sagaOf' = [sagaOf EXCEPT ![t] = s]
      BY <3>1 DEF MoveOn
    <3>4. sagaOf[t].pc \in {"reserve"} \cup HoldsPlace => sagaOf[t].node \in Node
      BY DEF SagaInv
    <3>. HIDE DEF s
    <3>. QED  BY <3>1, <3>2, <3>3, <3>4
  <2>. QED  BY <2>1, <2>2
<1>3. ReservationsAreCounted'
  BY <1>2, NoPlaceMoves
<1>. QED  BY <1>1, <1>2, <1>3 DEF SagaInv

LEMMA SagaKeeps ==
    ASSUME SagaAssumption
    PROVE  SagaInv /\ [SagaNext]_sagaVars => SagaInv'
<1>. SUFFICES ASSUME SagaInv, [SagaNext]_sagaVars  PROVE SagaInv'
  OBVIOUS
<1>1. CASE UNCHANGED sagaVars
  BY <1>1 DEF sagaVars, SagaInv, ReservationsAreCounted, Reserving
<1>2. ASSUME NEW t \in SagaTask, compensateReserve(t)  PROVE SagaInv'
  BY <1>2, ReleaseKeeps DEF compensateReserve
<1>3. ASSUME NEW t \in SagaTask, skipCompensation(t), At(t, "release")  PROVE SagaInv'
  BY <1>3, ReleaseKeeps DEF skipCompensation, At
<1>. QED
  BY <1>1, <1>2, <1>3, ReserveKeeps, ReserveLateKeeps, SagaMoveKeeps DEF SagaNext

\* Sagas that reserve, compensate and time out beside each other never take more of a node
\* than maxTasks, and its counter never forgets one that holds a place on it
\* (task-lifecycle-saga.ts:126-139), for any number of tasks and nodes and any limit.
THEOREM PlacesAreCounted ==
    ASSUME SagaAssumption
    PROVE  SagaSpec => []SagaTypeOK /\ []ReservationsAreCounted
<1>1. SagaInit => SagaInv
  BY SagaBegins
<1>2. SagaInv => SagaTypeOK /\ ReservationsAreCounted
  BY DEF SagaInv, SagaTypeOK, SagaRecord, SagaPc, HoldsPlace
<1>. QED  BY <1>1, <1>2, SagaKeeps, PTL DEF SagaSpec

-----------------------------------------------------------------------------
\* The routes beside the queue

RowStatus == {"none", "PENDING", "RUNNING", "COMPLETED", "FAILED", "CANCELLED"}
CancelRecord == [pc : {"idle", "found", "refused", "cancelled", "failed", "answered"},
                 task : RoutesTask \cup {NoTask}, was : RowStatus, open : BOOLEAN, late : BOOLEAN]

\* A row is PENDING when it is inserted and never again: until then no call of its task goes
\* on but the one that creates it, and a call that cancelled it, or a queue that gave it away,
\* will not find it PENDING.
RoutesInv ==
    /\ status \in [RoutesTask -> RowStatus]
    /\ executions \in [RoutesTask -> [count : 0..1, open : BOOLEAN]]
    /\ queue \subseteq RoutesTask
    /\ adding \in [RoutesTask -> {"idle", "refused", "found", "counted", "created", "answered"}]
    /\ cancels \in [Cancel -> CancelRecord]
    /\ taken \in RoutesTask \cup {NoTask} /\ out \in BOOLEAN /\ (out => taken # NoTask)
    /\ taken # NoTask => status[taken] \in {"PENDING", "CANCELLED"}
    /\ \A t \in RoutesTask : adding[t] \in {"idle", "refused", "found", "counted"} => status[t] = "none"
    /\ AnsweredIsQueued
    /\ \A c \in Cancel : cancels[c].pc # "idle" =>
          /\ cancels[c].task \in RoutesTask /\ status[cancels[c].task] # "none"
          /\ cancels[c].pc \in {"cancelled", "answered"} => status[cancels[c].task] # "PENDING"
          /\ cancels[c].late => adding[cancels[c].task] = "answered"
    /\ CancelledLeavesQueue

LEMMA RoutesBegin == RoutesInit => RoutesInv
<1>. SUFFICES ASSUME RoutesInit  PROVE RoutesInv
  OBVIOUS
<1>1. [pc |-> "idle", task |-> NoTask, was |-> "none", open |-> FALSE, late |-> FALSE] \in CancelRecord
  BY DEF CancelRecord, RowStatus
<1>2. [count |-> 0, open |-> FALSE] \in [count : 0..1, open : BOOLEAN]
  OBVIOUS
<1>3. AnsweredIsQueued /\ CancelledLeavesQueue
  BY DEF RoutesInit, AnsweredIsQueued, CancelledLeavesQueue
<1>4. /\ cancels \in [Cancel -> CancelRecord]
      /\ \A c \in Cancel : cancels[c].pc = "idle"
  BY <1>1 DEF RoutesInit
<1>5. executions \in [RoutesTask -> [count : 0..1, open : BOOLEAN]]
  BY <1>2 DEF RoutesInit
<1>. QED  BY <1>3, <1>4, <1>5 DEF RoutesInit, RoutesInv, RowStatus

\* The calls that create a row, and those that are refused.
LEMMA CreationKeeps ==
    ASSUME RoutesInv, NEW t \in RoutesTask,
           create(t) \/ countExecutions(t) \/ createRetry(t) \/ \E o \in RoutesTask : findOriginal(t, o)
    PROVE  RoutesInv'
<1>1. /\ UNCHANGED <<queue, cancels, taken, out>>
      /\ status[t] = "none" /\ adding[t] \in {"idle", "found", "counted"}
      /\ \/ /\ UNCHANGED <<status, executions>>
            /\ \E a \in {"refused", "found", "counted"} : adding' = [adding EXCEPT ![t] = a]
         \/ /\ Insert(t)
            /\ adding' = [adding EXCEPT ![t] = "created"]
  BY DEF create, countExecutions, createRetry, findOriginal, RoutesInv
<1>2. CASE Insert(t) /\ adding' = [adding EXCEPT ![t] = "created"]
  <2>1. /\ status' = [status EXCEPT ![t] = "PENDING"]
        /\ executions' \in [RoutesTask -> [count : 0..1, open : BOOLEAN]]
    BY <1>2 DEF Insert, RoutesInv
  <2>2. AnsweredIsQueued' /\ CancelledLeavesQueue'
    BY <1>1, <1>2, <2>1 DEF RoutesInv, AnsweredIsQueued, CancelledLeavesQueue
  <2>. QED  BY <1>1, <1>2, <2>1, <2>2 DEF RoutesInv, RowStatus
<1>3. CASE /\ UNCHANGED <<status, executions>>
           /\ \E a \in {"refused", "found", "counted"} : adding' = [adding EXCEPT ![t] = a]
  <2>1. AnsweredIsQueued' /\ CancelledLeavesQueue'
    BY <1>1, <1>3 DEF RoutesInv, AnsweredIsQueued, CancelledLeavesQueue
  <2>. QED  BY <1>1, <1>3, <2>1 DEF RoutesInv
<1>. QED  BY <1>1, <1>2, <1>3

LEMMA EnqueueKeeps ==
    ASSUME RoutesInv, NEW t \in RoutesTask, enqueue(t)
    PROVE  RoutesInv'
<1>1. AnsweredIsQueued' /\ CancelledLeavesQueue'
  BY DEF enqueue, RoutesInv, AnsweredIsQueued, CancelledLeavesQueue
<1>. QED  BY <1>1 DEF enqueue, RoutesInv

LEMMA CallMoves ==
    ASSUME RoutesInv, NEW c \in Cancel, NEW there \in {"cancelled", "failed", "answered"},
           cancels' = [cancels EXCEPT ![c].pc = there]
    PROVE  cancels' \in [Cancel -> CancelRecord]
<1>. DEFINE k == [cancels[c] EXCEPT !.pc = there]
<1>1. k \in CancelRecord
  BY DEF RoutesInv, CancelRecord
<1>. HIDE DEF k
<1>2. cancels' = [cancels EXCEPT ![c] = k]
  BY DEF k
<1>. QED  BY <1>1, <1>2 DEF RoutesInv

\* The steps of a cancellation.
LEMMA CancellationKeeps ==
    ASSUME RoutesInv, NEW c \in Cancel,
           cancelTask(c) \/ leaveQueue(c) \/ \E t \in RoutesTask : findTask(c, t)
    PROVE  RoutesInv'
<1>1. ASSUME NEW t \in RoutesTask, findTask(c, t)  PROVE RoutesInv'
  <2>. DEFINE k == [pc |-> IF status[t] \in Cancellable THEN "found" ELSE "refused", task |-> t,
                    was |-> status[t], open |-> executions[t].open, late |-> adding[t] = "answered"]
  <2>1. k \in CancelRecord
    BY DEF RoutesInv, CancelRecord
  <2>2. /\ k.pc \in {"found", "refused"} /\ k.task = t /\ status[t] # "none"
        /\ k.late => adding[t] = "answered"
        /\ cancels' = [cancels EXCEPT ![c] = k]
        /\ UNCHANGED <<status, executions, queue, adding, taken, out>>
    BY <1>1 DEF findTask
  <2>. HIDE DEF k
  <2>3. AnsweredIsQueued' /\ CancelledLeavesQueue'
    BY <2>1, <2>2 DEF RoutesInv, AnsweredIsQueued, CancelledLeavesQueue
  <2>. QED  BY <2>1, <2>2, <2>3 DEF RoutesInv
<1>2. CASE cancelTask(c)
  <2>. DEFINE t == cancels[c].task
  <2>0. /\ t \in RoutesTask /\ status[t] # "none" /\ cancels[c].pc = "found"
        /\ cancels[c].late => adding[t] = "answered"
        /\ UNCHANGED <<queue, adding, taken, out>>
    BY <1>2 DEF cancelTask, RoutesInv
  <2>1. CASE cancels[c].open
    <3>1. /\ status' = [status EXCEPT ![t] = "CANCELLED"]
          /\ executions' = [executions EXCEPT ![t].open = FALSE]
          /\ cancels' = [cancels EXCEPT ![c].pc = "cancelled"]
      BY <1>2, <2>1 DEF cancelTask
    <3>2. executions' \in [RoutesTask -> [count : 0..1, open : BOOLEAN]]
      <4>. DEFINE e == [executions[t] EXCEPT !.open = FALSE]
      <4>0. executions[t] \in [count : 0..1, open : BOOLEAN]
        BY <2>0 DEF RoutesInv
      <4>1. e \in [count : 0..1, open : BOOLEAN]
        BY <4>0
      <4>2. executions' = [executions EXCEPT ![t] = e]
        BY <3>1
      <4>. HIDE DEF e, t
      <4>. QED  BY <4>1, <4>2 DEF RoutesInv
    <3>3. cancels' \in [Cancel -> CancelRecord]
      BY <3>1, CallMoves
    <3>4. status' \in [RoutesTask -> RowStatus]
      BY <3>1 DEF RoutesInv, RowStatus
    <3>5. \A u \in RoutesTask : status'[u] = IF u = t THEN "CANCELLED" ELSE status[u]
      BY <3>1 DEF RoutesInv
    <3>6. \A d \in Cancel : /\ cancels'[d].task = cancels[d].task
                            /\ cancels'[d].was = cancels[d].was /\ cancels'[d].late = cancels[d].late
                            /\ cancels'[d].pc = IF d = c THEN "cancelled" ELSE cancels[d].pc
      BY <3>1 DEF RoutesInv, CancelRecord
    <3>7. AnsweredIsQueued' /\ CancelledLeavesQueue'
      BY <2>0, <3>5, <3>6 DEF RoutesInv, AnsweredIsQueued, CancelledLeavesQueue
    <3>8. \A d \in Cancel : cancels'[d].pc # "idle" =>
             /\ cancels'[d].task \in RoutesTask /\ status'[cancels'[d].task] # "none"
             /\ cancels'[d].pc \in {"cancelled", "answered"} => status'[cancels'[d].task] # "PENDING"
             /\ cancels'[d].late => adding'[cancels'[d].task] = "answered"
      BY <2>0, <3>5, <3>6 DEF RoutesInv
    <3>. HIDE DEF t
    <3>. QED  BY <2>0, <3>2, <3>3, <3>4, <3>5, <3>7, <3>8 DEF RoutesInv
  <2>2. CASE ~cancels[c].open
    <3>1. /\ UNCHANGED <<status, executions>>
          /\ cancels' = [cancels EXCEPT ![c].pc = "failed"]
      BY <1>2, <2>2 DEF cancelTask
    <3>2. cancels' \in [Cancel -> CancelRecord]
      BY <3>1, CallMoves
    <3>3. \A d \in Cancel : /\ cancels'[d].task = cancels[d].task
                            /\ cancels'[d].was = cancels[d].was /\ cancels'[d].late = cancels[d].late
                            /\ cancels'[d].pc = IF d = c THEN "failed" ELSE cancels[d].pc
      BY <3>1 DEF RoutesInv, CancelRecord
    <3>4. AnsweredIsQueued' /\ CancelledLeavesQueue'
      BY <2>0, <3>1, <3>3 DEF RoutesInv, AnsweredIsQueued, CancelledLeavesQueue
    <3>. QED  BY <2>0, <3>1, <3>2, <3>3, <3>4 DEF RoutesInv
  <2>. QED  BY <2>1, <2>2
<1>3. CASE leaveQueue(c)
  <2>. DEFINE t == cancels[c].task
  <2>0. /\ t \in RoutesTask /\ status[t] \notin {"PENDING", "none"} /\ cancels[c].pc = "cancelled"
        /\ UNCHANGED <<status, executions, adding, taken, out>>
        /\ queue' = IF cancels[c].was = "PENDING" THEN queue \ {t} ELSE queue
        /\ cancels' = [cancels EXCEPT ![c].pc = "answered"]
    BY <1>3 DEF leaveQueue, RoutesInv
  <2>1. cancels' \in [Cancel -> CancelRecord]
    BY <2>0, CallMoves
  <2>2. \A d \in Cancel : /\ cancels'[d].task = cancels[d].task
                          /\ cancels'[d].was = cancels[d].was /\ cancels'[d].late = cancels[d].late
                          /\ cancels'[d].pc = IF d = c THEN "answered" ELSE cancels[d].pc
    BY <2>0 DEF RoutesInv, CancelRecord
  <2>3. AnsweredIsQueued' /\ CancelledLeavesQueue'
    BY <2>0, <2>2 DEF RoutesInv, AnsweredIsQueued, CancelledLeavesQueue
  <2>. QED  BY <2>0, <2>1, <2>2, <2>3 DEF RoutesInv
<1>. QED  BY <1>1, <1>2, <1>3

\* The scheduler, which reads the row once and writes it later.
LEMMA SchedulerKeeps ==
    ASSUME RoutesInv, place \/ assignTask \/ \E t \in RoutesTask : look(t) \/ finish(t)
    PROVE  RoutesInv'
<1>1. ASSUME NEW t \in RoutesTask, look(t)  PROVE RoutesInv'
  <2>1. AnsweredIsQueued' /\ CancelledLeavesQueue'
    BY <1>1 DEF look, RoutesInv, AnsweredIsQueued, CancelledLeavesQueue
  <2>. QED  BY <1>1, <2>1 DEF look, RoutesInv
<1>2. ASSUME NEW t \in RoutesTask, finish(t)  PROVE RoutesInv'
  <2>1. PICK s \in {"COMPLETED", "FAILED"} : status' = [status EXCEPT ![t] = s]
    BY <1>2 DEF finish
  <2>2. AnsweredIsQueued' /\ CancelledLeavesQueue'
    BY <1>2, <2>1 DEF finish, RoutesInv, AnsweredIsQueued, CancelledLeavesQueue
  <2>. QED  BY <1>2, <2>1, <2>2 DEF finish, RoutesInv, RowStatus
<1>3. CASE place
  <2>1. AnsweredIsQueued' /\ CancelledLeavesQueue'
    BY <1>3 DEF place, RoutesInv, AnsweredIsQueued, CancelledLeavesQueue
  <2>2. /\ UNCHANGED <<status, executions, adding, cancels>>
        /\ queue' \subseteq RoutesTask /\ out' \in BOOLEAN
        /\ taken' \in {taken, NoTask} /\ (out' => taken' # NoTask)
    <3>1. /\ UNCHANGED <<status, executions, adding, cancels>>
          /\ taken # NoTask /\ out = FALSE
          /\ \/ taken' = NoTask /\ UNCHANGED <<queue, out>>
             \/ queue' = queue \ {taken} /\ out' = TRUE /\ taken' = taken
      BY <1>3 DEF place, RoutesInv
    <3>2. queue \subseteq RoutesTask
      BY DEF RoutesInv
    <3>. QED  BY <3>1, <3>2
  <2>. QED  BY <2>1, <2>2 DEF RoutesInv
<1>4. CASE assignTask
  <2>1. AnsweredIsQueued' /\ CancelledLeavesQueue'
    BY <1>4 DEF assignTask, RoutesInv, AnsweredIsQueued, CancelledLeavesQueue
  <2>. QED  BY <1>4, <2>1 DEF assignTask, RoutesInv, RowStatus
<1>. QED  BY <1>1, <1>2, <1>3, <1>4

LEMMA RoutesKeep == RoutesInv /\ [RoutesNext]_routesVars => RoutesInv'
<1>. SUFFICES ASSUME RoutesInv, [RoutesNext]_routesVars  PROVE RoutesInv'
  OBVIOUS
<1>1. CASE UNCHANGED routesVars
  BY <1>1 DEF routesVars, RoutesInv, AnsweredIsQueued, CancelledLeavesQueue
<1>2. CASE RoutesNext
  BY <1>2, CreationKeeps, EnqueueKeeps, CancellationKeeps, SchedulerKeeps DEF RoutesNext, RoutesTask
<1>. QED  BY <1>1, <1>2

\* A task that was answered as created is queued, taken or cancelled, a cancellation keeps it
\* out of the queue for good (tasks-lifecycle.ts:193-219, 544-546), and nothing but a
\* cancellation overwrites what a task ended with: for any calls of the three routes, with the
\* scheduler's one task in between.
THEOREM CallsAndQueueAgree ==
    RoutesSpec => []RoutesTypeOK /\ []AnsweredIsQueued /\ []CancelledLeavesQueue /\ ResultsStay
<1>1. RoutesInv => RoutesTypeOK /\ AnsweredIsQueued /\ CancelledLeavesQueue
  BY DEF RoutesInv, RoutesTypeOK, RowStatus
<1>2. RoutesInv /\ [RoutesNext]_routesVars =>
        [\A t \in RoutesTask : status[t] \in {"COMPLETED", "FAILED"} => status'[t] \in {status[t], "CANCELLED"}]_routesVars
  <2>. SUFFICES ASSUME RoutesInv, RoutesNext, NEW t \in RoutesTask, status[t] \in {"COMPLETED", "FAILED"}
                PROVE  status'[t] \in {status[t], "CANCELLED"}
    OBVIOUS
  <2>1. ASSUME NEW u \in RoutesTask, create(u) \/ createRetry(u)  PROVE status'[t] = status[t]
    BY <2>1 DEF create, createRetry, Insert, RoutesInv
  <2>2. ASSUME NEW c \in Cancel, cancelTask(c)  PROVE status'[t] \in {status[t], "CANCELLED"}
    BY <2>2 DEF cancelTask, RoutesInv
  <2>3. ASSUME NEW u \in RoutesTask, finish(u)  PROVE status'[t] = status[t]
    BY <2>3 DEF finish, RoutesInv
  <2>4. ASSUME assignTask  PROVE status'[t] = status[t]
    BY <2>4 DEF assignTask, RoutesInv
  <2>. QED
    BY <2>1, <2>2, <2>3, <2>4
    DEF RoutesNext, RoutesTask, countExecutions, findOriginal, enqueue, look, leaveQueue, findTask, place
<1>. QED  BY <1>1, <1>2, RoutesBegin, RoutesKeep, PTL DEF RoutesSpec, ResultsStay

===============================================================================
