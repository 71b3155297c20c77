--------------------------- MODULE Infrastructure ---------------------------
(***************************************************************************)
(* What the processes are built on: the order of their shutdown, plugins,  *)
(* adapters of queues, and caches. They share nothing; each has its own    *)
(* initial states, next-state relation and properties.                     *)
(***************************************************************************)
EXTENDS Naturals, SequencesExt

(***************************************************************************)
(* src/lib/infrastructure/lifecycle.ts: handlers that close what the       *)
(* application holds, run one after the other when it shuts down.          *)
(*                                                                         *)
(* A handler that takes its share of the time is left running and the next *)
(* one starts.                                                             *)
(***************************************************************************)

CONSTANTS
    Handler, MaxShutdowns        \* bound on the calls of shutdown()

VARIABLES
    shutdownHandlers,       \* in the order of registration
    isReady, isShuttingDown,
    runs,                   \* what each shutdown() under way has still to run
    running,                \* handlers that run
    asked,                  \* history: calls of shutdown()
    agenda,                 \* history: the handlers that were registered when it began
    started                 \* history: the handlers in the order of their starts

lifecycleVars == <<shutdownHandlers, isReady, isShuttingDown, runs, running, asked, agenda, started>>

LifecycleInit ==
    /\ shutdownHandlers = <<>>
    /\ isReady = FALSE /\ isShuttingDown = FALSE
    /\ runs = <<>> /\ running = {}
    /\ asked = 0
    /\ agenda = <<>> /\ started = <<>>

onShutdown(h) ==
    /\ ~Contains(shutdownHandlers, h)
    /\ shutdownHandlers' = Append(shutdownHandlers, h)
    /\ UNCHANGED <<isReady, isShuttingDown, runs, running, asked, agenda, started>>

\* What onShutdown() returned is called.
unregister(h) ==
    /\ Contains(shutdownHandlers, h)
    /\ shutdownHandlers' = Remove(shutdownHandlers, h)
    /\ UNCHANGED <<isReady, isShuttingDown, runs, running, asked, agenda, started>>

markReady(ready) ==
    /\ isReady # ready
    /\ isReady' = ready
    /\ UNCHANGED <<shutdownHandlers, isShuttingDown, runs, running, asked, agenda, started>>

MayShutDown == ~isShuttingDown

\* A second call returns at once.
shutdown ==
    /\ asked < MaxShutdowns
    /\ asked' = asked + 1
    /\ IF MayShutDown
       THEN /\ isShuttingDown' = TRUE
            /\ runs' = Append(runs, Reverse(shutdownHandlers))
            /\ agenda' = shutdownHandlers
       ELSE UNCHANGED <<isShuttingDown, runs, agenda>>
    /\ UNCHANGED <<shutdownHandlers, isReady, running, started>>

\* The next handler starts when the one before it ended or took too long.
startHandler(r) ==
    /\ runs[r] # <<>>
    /\ running' = running \cup {Head(runs[r])}
    /\ started' = Append(started, Head(runs[r]))
    /\ runs' = [runs EXCEPT ![r] = Tail(@)]
    /\ UNCHANGED <<shutdownHandlers, isReady, isShuttingDown, asked, agenda>>

endHandler(h) ==
    /\ h \in running
    /\ running' = running \ {h}
    /\ UNCHANGED <<shutdownHandlers, isReady, isShuttingDown, runs, asked, agenda, started>>

LifecycleNext ==
    \/ \E h \in Handler : onShutdown(h) \/ unregister(h) \/ endHandler(h)
    \/ \E ready \in BOOLEAN : markReady(ready)
    \/ \E r \in DOMAIN runs : startHandler(r)
    \/ shutdown

LifecycleSpec == LifecycleInit /\ [][LifecycleNext]_lifecycleVars

LifecycleTypeOK ==
    /\ isReady \in BOOLEAN /\ isShuttingDown \in BOOLEAN
    /\ running \subseteq Handler
    /\ asked \in 0..MaxShutdowns

\* What depends on something, registered after it, is told first and once, whoever registers,
\* unregisters or asks again meanwhile.
DependentsFirst == IsPrefix(started, Reverse(agenda)) /\ IsInjective(started)

-----------------------------------------------------------------------------
(***************************************************************************)
(* backend/src/architecture/core-vs-plugins.ts: plugins that depend on     *)
(* others are registered, enabled, also all that a configuration names,    *)
(* and disabled.                                                           *)
(*                                                                         *)
(* Each operation checks, then waits for the plugin's own code, then       *)
(* records; others run while it waits.  That code may fail.  A decoration  *)
(* of the server cannot be taken back nor made twice.                      *)
(***************************************************************************)

CONSTANTS
    Configured        \* the plugins that the configuration enables

VARIABLES
    plugins,          \* the registered ones
    enabledPlugins,
    decorated,        \* plugins whose services decorate the server
    enabling, disabling,       \* operations that wait for a plugin
    loading,          \* what loadFromConfig() has still to enable, and whether it has begun
    broken,           \* history: whether a plugin was disabled while another that needs it was being enabled
    intervened,       \* history: whether a plugin failed, or somebody enabled or disabled one
    refused           \* history: whether loadFromConfig() failed to enable a plugin

pluginVars == <<plugins, enabledPlugins, decorated, enabling, disabling, loading, broken, intervened, refused>>

\* The catalogue: what each plugin needs and when it is loaded; loadOrder in tens and fives.
PLUGIN_MODULES ==
    [workflowOrchestration |-> [dependencies |-> {}, loadOrder |-> 5],
     costOptimization |-> [dependencies |-> {}, loadOrder |-> 10],
     carbonTracking |-> [dependencies |-> {"costOptimization"}, loadOrder |-> 15]]

Plugin == DOMAIN PLUGIN_MODULES
Needs(p) == PLUGIN_MODULES[p].dependencies

PluginInit ==
    /\ plugins = {} /\ enabledPlugins = {} /\ decorated = {}
    /\ enabling = {} /\ disabling = {}
    /\ loading = [todo |-> <<>>, begun |-> FALSE]
    /\ broken = FALSE /\ intervened = FALSE /\ refused = FALSE

register(p) ==
    /\ p \notin plugins /\ Needs(p) \subseteq plugins
    /\ plugins' = plugins \cup {p}
    /\ UNCHANGED <<enabledPlugins, decorated, enabling, disabling, loading, broken, intervened, refused>>

MayEnable(p) == p \in plugins /\ Needs(p) \subseteq enabledPlugins

PluginBegin(p) ==
    /\ enabling' = enabling \cup {p}
    /\ decorated' = decorated \cup {p}
    /\ broken' = (broken \/ Needs(p) \cap disabling # {})

\* Nothing stops a plugin that is enabled from being enabled again but its decoration.
enable(p) ==
    /\ MayEnable(p) /\ p \notin decorated
    /\ PluginBegin(p)
    /\ intervened' = TRUE
    /\ UNCHANGED <<plugins, enabledPlugins, disabling, loading, refused>>

enabled(p) ==
    /\ p \in enabling
    /\ enabling' = enabling \ {p}
    /\ \E fails \in BOOLEAN :
          /\ enabledPlugins' = IF fails THEN enabledPlugins ELSE enabledPlugins \cup {p}
          /\ intervened' = (intervened \/ fails)
          /\ loading' = IF loading.todo # <<>> /\ Head(loading.todo) = p
                        THEN [loading EXCEPT !.todo = IF fails THEN <<>> ELSE Tail(@)] ELSE loading
    /\ UNCHANGED <<plugins, decorated, disabling, broken, refused>>

MayDisable(p) == p \in enabledPlugins /\ ~\E q \in enabledPlugins : p \in Needs(q)

disable(p) ==
    /\ MayDisable(p) /\ p \notin disabling
    /\ disabling' = disabling \cup {p}
    /\ broken' = (broken \/ \E q \in enabling : p \in Needs(q))
    /\ intervened' = TRUE
    /\ UNCHANGED <<plugins, enabledPlugins, decorated, enabling, loading, refused>>

disabled(p) ==
    /\ p \in disabling
    /\ disabling' = disabling \ {p}
    /\ \E fails \in BOOLEAN : enabledPlugins' = IF fails THEN enabledPlugins ELSE enabledPlugins \ {p}
    /\ UNCHANGED <<plugins, decorated, enabling, loading, broken, intervened, refused>>

Before(p, q) == PLUGIN_MODULES[p].loadOrder < PLUGIN_MODULES[q].loadOrder

loadFromConfig ==
    /\ ~loading.begun
    /\ loading' = [todo |-> SetToSortSeq(plugins \cap Configured, Before), begun |-> TRUE]
    /\ UNCHANGED <<plugins, enabledPlugins, decorated, enabling, disabling, broken, intervened, refused>>

\* The next one is enabled; if it may not be, the rest is not loaded.
loadNext ==
    /\ loading.todo # <<>> /\ Head(loading.todo) \notin enabling
    /\ LET p == Head(loading.todo)
       IN  IF MayEnable(p) /\ p \notin decorated
           THEN PluginBegin(p) /\ UNCHANGED <<loading, refused>>
           ELSE /\ loading' = [loading EXCEPT !.todo = <<>>]
                /\ refused' = TRUE
                /\ UNCHANGED <<enabling, decorated, broken>>
    /\ UNCHANGED <<plugins, enabledPlugins, disabling, intervened>>

PluginNext ==
    \/ \E p \in Plugin : register(p) \/ enable(p) \/ enabled(p) \/ disable(p) \/ disabled(p)
    \/ loadFromConfig \/ loadNext

PluginSpec == PluginInit /\ [][PluginNext]_pluginVars

PluginTypeOK ==
    /\ plugins \subseteq Plugin
    /\ enabledPlugins \subseteq decorated /\ decorated \subseteq plugins
    /\ enabling \subseteq decorated /\ disabling \subseteq Plugin

\* What an enabled plugin needs is enabled, if nothing was disabled while something that needs it
\* was being enabled: the check of either operation is not repeated when its wait is over.
EnabledHasItsNeeds == ~broken => \A p \in enabledPlugins : Needs(p) \subseteq enabledPlugins

\* The configuration loads to its end, unless a plugin fails or somebody intervenes: the order of
\* loading that the catalogue states suits the dependencies it states.
ConfigurationLoads == refused => intervened

-----------------------------------------------------------------------------
(***************************************************************************)
(* src/lib/queue/TaskQueueManager.ts: the adapters of Kafka, RabbitMQ and  *)
(* Redis streams.  What each of them confirms to its broker, and when,     *)
(* decides what a restart delivers again.                                  *)
(*                                                                         *)
(* The brokers are external; counters of the adapters are left out.        *)
(***************************************************************************)

CONSTANTS Message, prefetch, MaxConnections

VARIABLES
    type,          \* which adapter the constructor chose
    connections,   \* how often it has connected
    broker,        \* broker[m]: "none", "ready", "unacked", and "done", which is never delivered again
    batch,         \* Redis: read from the stream and not looked at yet
    handling,      \* messages whose handler runs
    acking,        \* Redis: handled, and xAck() not answered yet
    handled,       \* history: the handler returned
    threw,         \* history: the handler threw
    starts         \* history: how often the handler was called with a message

adapterVars == <<type, connections, broker, batch, handling, acking, handled, threw, starts>>

AdapterInit ==
    /\ type = "none" /\ connections = 0
    /\ broker = [m \in Message |-> "none"]
    /\ batch = {} /\ handling = {} /\ acking = {}
    /\ handled = {} /\ threw = {}
    /\ starts = [m \in Message |-> 0]

\* What brokers do with messages of a consumer that is gone: Kafka and RabbitMQ deliver them again;
\* a stream keeps them for that consumer, whose name nobody has again.
Redelivered == [m \in Message |-> IF broker[m] = "unacked" /\ type # "redis" THEN "ready" ELSE broker[m]]

\* The first connection, or one after the process ended.
connect(kind) ==
    /\ type \in {"none", kind} /\ connections < MaxConnections
    /\ type' = kind /\ connections' = connections + 1
    /\ broker' = Redelivered
    /\ batch' = {} /\ handling' = {} /\ acking' = {}
    /\ UNCHANGED <<handled, threw, starts>>

connectKafka == connect("kafka")
connectRabbit == connect("rabbitmq")
connectRedis == connect("redis")

produce(m) ==
    /\ connections > 0 /\ broker[m] = "none"
    /\ broker' = [broker EXCEPT ![m] = "ready"]
    /\ UNCHANGED <<type, connections, batch, handling, acking, handled, threw, starts>>

Handle(m) ==
    /\ handling' = handling \cup {m}
    /\ starts' = [starts EXCEPT ![m] = @ + 1]

\* One message at a time; its offset is committed when eachMessage() returns.
eachMessage(m) ==
    /\ type = "kafka" /\ handling = {}
    /\ broker[m] = "ready" /\ broker' = [broker EXCEPT ![m] = "unacked"]
    /\ Handle(m)
    /\ UNCHANGED <<type, connections, batch, acking, handled, threw>>

\* The callback does not wait for the one before.
consumeRabbit(m) ==
    /\ type = "rabbitmq" /\ Cardinality({n \in Message : broker[n] = "unacked"}) < prefetch
    /\ broker[m] = "ready" /\ broker' = [broker EXCEPT ![m] = "unacked"]
    /\ Handle(m)
    /\ UNCHANGED <<type, connections, batch, acking, handled, threw>>

xReadGroup(read) ==
    /\ type = "redis" /\ batch = {} /\ handling = {} /\ acking = {}
    /\ read # {} /\ Cardinality(read) <= prefetch
    /\ \A m \in read : broker[m] = "ready"
    /\ broker' = [m \in Message |-> IF m \in read THEN "unacked" ELSE broker[m]]
    /\ batch' = read
    /\ UNCHANGED <<type, connections, handling, acking, handled, threw, starts>>

poll(m) ==
    /\ m \in batch /\ handling = {} /\ acking = {}
    /\ batch' = batch \ {m}
    /\ Handle(m)
    /\ UNCHANGED <<type, connections, broker, acking, handled, threw>>

\* Errors are caught and logged: Kafka commits the offset, the others confirm nothing.
AfterThrow == IF type = "kafka" THEN "done" ELSE "unacked"

throws(m) ==
    /\ m \in handling
    /\ handling' = handling \ {m}
    /\ threw' = threw \cup {m}
    /\ broker' = [broker EXCEPT ![m] = AfterThrow]
    /\ UNCHANGED <<type, connections, batch, acking, handled, starts>>

\* RabbitMQ is never told: ack() of the adapter counts.
returns(m) ==
    /\ m \in handling
    /\ handling' = handling \ {m}
    /\ handled' = handled \cup {m}
    /\ broker' = [broker EXCEPT ![m] = IF type = "kafka" THEN "done" ELSE @]
    /\ acking' = IF type = "redis" THEN {m} ELSE {}
    /\ UNCHANGED <<type, connections, batch, threw, starts>>

Confirmed(m) == {m}

\* xAck() throws like the handler does.
xAck(m) ==
    /\ m \in acking /\ acking' = {}
    /\ broker' \in {broker, [n \in Message |-> IF n \in Confirmed(m) THEN "done" ELSE broker[n]]}
    /\ UNCHANGED <<type, connections, batch, handling, handled, threw, starts>>

AdapterNext ==
    \/ connectKafka \/ connectRabbit \/ connectRedis
    \/ \E read \in SUBSET Message : xReadGroup(read)
    \/ \E m \in Message : \/ produce(m) \/ eachMessage(m) \/ consumeRabbit(m) \/ poll(m)
                          \/ throws(m) \/ returns(m) \/ xAck(m)

AdapterSpec == AdapterInit /\ [][AdapterNext]_adapterVars

AdapterTypeOK ==
    /\ type \in {"none", "kafka", "rabbitmq", "redis"}
    /\ broker \in [Message -> {"none", "ready", "unacked", "done"}]
    /\ batch \cup handling \cup acking \subseteq {m \in Message : broker[m] = "unacked"}

\* What a broker will not deliver again was handled, wherever the process ended in between; only
\* the Kafka adapter gives up messages whose handler threw.
DoneWasHandled ==
    \A m \in Message : broker[m] = "done" => m \in handled \/ (type = "kafka" /\ m \in threw)

\* No message is given to its handler twice by one connection, whatever became of it.
OncePerConnection == \A m \in Message : starts[m] <= connections

-----------------------------------------------------------------------------
(***************************************************************************)
(* packages/performance/src/optimizations.ts, DistributedCache: callers    *)
(* that look for one key, and of which the holder of a lock computes it.   *)
(*                                                                         *)
(* Redis is external.  A lock expires and is deleted whoever holds it, so  *)
(* everything below supposes that a holder is done in time: Promptness,    *)
(* which nothing in the code sees to, is a guard of tick.                  *)
(***************************************************************************)

CONSTANTS
    Caller, ttlSeconds, lockTimeout,
    cacheHorizon \* bound on time

VARIABLES
    cacheNow,
    cached,      \* when the value expires; 0 if there is none
    lock,        \* when the lock expires; 0 if it is free
    pc,          \* pc[c]: where the call is
    since        \* since[c]: when the caller got the lock

cacheVars == <<cacheNow, cached, lock, pc, since>>

CacheInit ==
    /\ cacheNow = 1 /\ cached = 0 /\ lock = 0
    /\ pc = [c \in Caller |-> "idle"]
    /\ since = [c \in Caller |-> 0]

CacheAt(c, here) == pc[c] = here
Goto(c, there) == pc' = [pc EXCEPT ![c] = there]

getWithLock(c) == CacheAt(c, "idle") /\ Goto(c, "get") /\ UNCHANGED <<cacheNow, cached, lock, since>>

cacheGet(c) ==
         /\ CacheAt(c, "get")
         /\ Goto(c, IF cached > cacheNow THEN "idle" ELSE "acquire")
         /\ UNCHANGED <<cacheNow, cached, lock, since>>

Acquired == lock <= cacheNow

\* One that does not get the lock looks again after a while; one that does, computes, also if the
\* value has come since it looked.
acquire(c) ==
    /\ CacheAt(c, "acquire")
    /\ IF Acquired
       THEN /\ lock' = cacheNow + lockTimeout
            /\ since' = [since EXCEPT ![c] = cacheNow]
            /\ Goto(c, "factory")
       ELSE Goto(c, "get") /\ UNCHANGED <<lock, since>>
    /\ UNCHANGED <<cacheNow, cached>>

\* A factory that throws frees the lock too.
factory(c) ==
    /\ CacheAt(c, "factory") /\ pc' \in {[pc EXCEPT ![c] = "set"], [pc EXCEPT ![c] = "release"]}
    /\ UNCHANGED <<cacheNow, cached, lock, since>>

cacheSet(c) ==
         /\ CacheAt(c, "set") /\ Goto(c, "release")
         /\ cached' = cacheNow + ttlSeconds
         /\ UNCHANGED <<cacheNow, lock, since>>

release(c) ==
    /\ CacheAt(c, "release") /\ Goto(c, "idle")
    /\ lock' = 0
    /\ UNCHANGED <<cacheNow, cached, since>>

cacheDelete == cached > cacheNow /\ cached' = 0 /\ UNCHANGED <<cacheNow, lock, pc, since>>

Holding(c) == pc[c] \in {"factory", "set", "release"}

Promptness == \A c \in Caller : Holding(c) => cacheNow + 1 < since[c] + lockTimeout

cacheTick == cacheNow < cacheHorizon /\ Promptness /\ cacheNow' = cacheNow + 1 /\ UNCHANGED <<cached, lock, pc, since>>

CacheNext ==
    \/ \E c \in Caller : getWithLock(c) \/ cacheGet(c) \/ acquire(c) \/ factory(c) \/ cacheSet(c) \/ release(c)
    \/ cacheDelete \/ cacheTick

CacheSpec == CacheInit /\ [][CacheNext]_cacheVars

CacheTypeOK ==
    /\ cacheNow \in 1..cacheHorizon
    /\ cached \in 0..(cacheHorizon + ttlSeconds) /\ lock \in 0..(cacheHorizon + lockTimeout)
    /\ pc \in [Caller -> {"idle", "get", "acquire", "factory", "set", "release"}]

\* As long as holders are done before their lock expires, one caller at a time computes the value,
\* and the lock that is deleted at the end is the deleting caller's own.
OneFactory ==
    /\ Cardinality({c \in Caller : Holding(c)}) <= 1
    /\ \A c \in Caller : Holding(c) => lock = since[c] + lockTimeout

-----------------------------------------------------------------------------
(***************************************************************************)
(* packages/performance/src/optimizations.ts, MultiLayerCache: one key in  *)
(* the memory of several processes, over a cache that they share.          *)
(*                                                                         *)
(* The shared cache is external: a call is served there at some time and   *)
(* answered later, within `latency` of its beginning.                      *)
(***************************************************************************)

CONSTANTS
    Process, Value,
    l1TTL, l2TTL, l1Cleanup, latency

VARIABLES
    layersNow, sinceCleanup,
    l1,          \* l1[p]: value and expires
    l2,          \* value and expires
    calls,       \* calls[p]: op, its value, what was read, and when it began
    left         \* history: left[v]: when v was last seen in the shared cache

layersVars == <<layersNow, sinceCleanup, l1, l2, calls, left>>

None == "none"
Nothing == [value |-> None, expires |-> 0]
Idle == [op |-> "idle", value |-> None, since |-> 0]

LayersInit ==
    /\ layersNow = 0 /\ sinceCleanup = 0
    /\ l1 = [p \in Process |-> Nothing] /\ l2 = Nothing
    /\ calls = [p \in Process |-> Idle]
    /\ left = [v \in Value |-> 0]

Live(entry) == entry.value # None /\ entry.expires > layersNow
Seen == [v \in Value |-> IF Live(l2) /\ l2.value = v THEN layersNow ELSE left[v]]

LayersBegin(p, op, v) == calls[p] = Idle /\ calls' = [calls EXCEPT ![p] = [op |-> op, value |-> v, since |-> layersNow]]
LayersAt(p, op) == calls[p].op = op

\* What get() answers without asking the shared cache.
Served(p) == IF Live(l1[p]) THEN l1[p].value ELSE None

layersGet(p) ==
          /\ Served(p) = None /\ LayersBegin(p, "get", None)
          /\ UNCHANGED <<layersNow, sinceCleanup, l1, l2, left>>

layersRead(p) ==
          /\ LayersAt(p, "get")
          /\ calls' = [calls EXCEPT ![p].op = "got", ![p].value = IF Live(l2) THEN l2.value ELSE None]
          /\ left' = Seen
          /\ UNCHANGED <<layersNow, sinceCleanup, l1, l2>>

\* Whatever happened to the key since it was read.
got(p) ==
    /\ LayersAt(p, "got")
    /\ l1' = IF calls[p].value = None THEN l1
             ELSE [l1 EXCEPT ![p] = [value |-> calls[p].value, expires |-> layersNow + l1TTL]]
    /\ calls' = [calls EXCEPT ![p] = Idle]
    /\ UNCHANGED <<layersNow, sinceCleanup, l2, left>>

layersSet(p, v) ==
          /\ LayersBegin(p, "set", v)
          /\ l1' = [l1 EXCEPT ![p] = [value |-> v, expires |-> layersNow + l1TTL]]
          /\ left' = [left EXCEPT ![v] = layersNow]
          /\ UNCHANGED <<layersNow, sinceCleanup, l2>>

layersDelete(p) ==
    /\ LayersBegin(p, "delete", None)
    /\ l1' = [l1 EXCEPT ![p] = Nothing]
    /\ UNCHANGED <<layersNow, sinceCleanup, l2, left>>

\* The shared part of set() and delete().
written(p) ==
    /\ LayersAt(p, "set") \/ LayersAt(p, "delete")
    /\ left' = Seen
    /\ l2' = IF LayersAt(p, "set") THEN [value |-> calls[p].value, expires |-> layersNow + l2TTL] ELSE Nothing
    /\ calls' = [calls EXCEPT ![p] = Idle]
    /\ UNCHANGED <<layersNow, sinceCleanup, l1>>

cleanupL1 ==
    /\ sinceCleanup = l1Cleanup /\ sinceCleanup' = 0
    /\ l1' = [p \in Process |-> IF Live(l1[p]) THEN l1[p] ELSE Nothing]
    /\ UNCHANGED <<layersNow, l2, calls, left>>

layersTick ==
    /\ layersNow < cacheHorizon /\ sinceCleanup < l1Cleanup
    /\ \A p \in Process : calls[p] # Idle => layersNow < calls[p].since + latency
    /\ layersNow' = layersNow + 1 /\ sinceCleanup' = sinceCleanup + 1
    /\ left' = Seen
    /\ UNCHANGED <<l1, l2, calls>>

LayersNext ==
    \/ \E p \in Process : \/ layersGet(p) \/ layersRead(p) \/ got(p) \/ layersDelete(p) \/ written(p)
                          \/ \E v \in Value : layersSet(p, v)
    \/ cleanupL1 \/ layersTick

LayersSpec == LayersInit /\ [][LayersNext]_layersVars

LayersTypeOK ==
    /\ layersNow \in 0..cacheHorizon /\ sinceCleanup \in 0..l1Cleanup
    /\ \A p \in Process : l1[p].value \in Value \cup {None} /\ l1[p].expires <= layersNow + l1TTL
    /\ l2.value \in Value \cup {None}

\* A process serves from its memory what another has deleted or replaced, also after it deleted it
\* itself while it was reading, but no longer than l1TTL and the latency of a call together.
StaleIsShort == \A p \in Process : Served(p) # None => layersNow <= Seen[Served(p)] + l1TTL + latency

=============================================================================
