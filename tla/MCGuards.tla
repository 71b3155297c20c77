------------------------------ MODULE MCGuards ------------------------------
(***************************************************************************)
(* The task scheduler with prompt claims, crashes and failing calls, and   *)
(* the libraries that admit, refuse and order. They share nothing, so one  *)
(* of them moves in each behaviour, the one that `active` names, and their *)
(* state spaces add up.                                                    *)
(***************************************************************************)
EXTENDS MCTaskScheduler

CONSTANTS
    windowMs, limits, cleanupInterval, Horizon, Id, keyHorizon, Expiry, Rule, Address,
    Target, filterHorizon, Source, threshold, window, cooldownMs, maxHistorySize, maxAlerts,
    intrusionHorizon, MaxEvents, JWT_EXPIRY, RATE_LIMIT_WINDOW_MS, RATE_LIMIT_MAX,
    agentCleanup, agentHorizon, MaxRequests, Handler, MaxShutdowns, Configured, Message,
    prefetch, MaxConnections, ttlSeconds, lockTimeout, cacheHorizon, l1TTL, l2TTL,
    l1Cleanup, latency

VARIABLES
    active, rateNow, maxRequests, store, rateSinceCleanup, rateAllowed, changed, apiKeyNow,
    apiKeyKeys, keyIndex, given, apiKeyWithdrawn, filterNow, rules, whitelist, shared,
    intrusionNow, eventHistory, alerts, lastTriggerTime, events, raised, agentKeyNow,
    apiKeys, tokens, revokedTokens, agentKeyWithdrawn, agentRateNow, agentRateSinceCleanup,
    rateLimitStore, agentRateAllowed, shutdownHandlers, isReady, isShuttingDown,
    lifecycleRuns, running, asked, agenda, started, plugins, enabledPlugins, decorated,
    enabling, disabling, loading, broken, intervened, refused, type, connections, broker,
    batch, handling, acking, handled, threw, starts, cacheNow, cached, cacheLock, pc, since,
    layersNow, sinceCleanup, l1, l2, calls, left

rateVars == <<rateNow, maxRequests, store, rateSinceCleanup, rateAllowed, changed>>
apiKeyVars == <<apiKeyNow, apiKeyKeys, keyIndex, given, apiKeyWithdrawn>>
filterVars == <<filterNow, rules, whitelist, shared>>
intrusionVars == <<intrusionNow, eventHistory, alerts, lastTriggerTime, events, raised>>
agentKeyVars == <<agentKeyNow, apiKeys, tokens, revokedTokens, agentKeyWithdrawn>>
agentRateVars == <<agentRateNow, agentRateSinceCleanup, rateLimitStore, agentRateAllowed>>
lifecycleVars == <<
    shutdownHandlers, isReady, isShuttingDown, lifecycleRuns, running, asked, agenda,
    started>>
pluginVars == <<
    plugins, enabledPlugins, decorated, enabling, disabling, loading, broken, intervened,
    refused>>
adapterVars == <<type, connections, broker, batch, handling, acking, handled, threw, starts>>
cacheVars == <<cacheNow, cached, cacheLock, pc, since>>
layersVars == <<layersNow, sinceCleanup, l1, l2, calls, left>>

AccessControl == INSTANCE AccessControl
    WITH Agent <- {"a", "b"},
         Key <- {1, 2},
         Token <- {1, 2},
         Client <- {1, 2}
Infrastructure == INSTANCE Infrastructure
    WITH Caller <- {1, 2},
         Process <- {1, 2},
         Value <- {"v"},
         runs <- lifecycleRuns,
         lock <- cacheLock

GuardsInit ==
    /\ active \in
         {"scheduler", "rate", "lifecycle", "apiKey", "filter", "intrusion", "plugin",
          "adapter", "agentKey", "agentRate", "cache", "layers"}
    /\ Init
    /\ AccessControl!RateInit
    /\ Infrastructure!LifecycleInit
    /\ AccessControl!ApiKeyInit
    /\ AccessControl!FilterInit
    /\ AccessControl!IntrusionInit
    /\ Infrastructure!PluginInit
    /\ Infrastructure!AdapterInit
    /\ AccessControl!AgentKeyInit
    /\ AccessControl!AgentRateInit
    /\ Infrastructure!CacheInit
    /\ Infrastructure!LayersInit

GuardsNext ==
    /\ UNCHANGED active
    /\ IF active = "scheduler" THEN Next ELSE UNCHANGED vars
    /\ IF active = "rate" THEN AccessControl!RateNext ELSE UNCHANGED rateVars
    /\ IF active = "lifecycle" THEN Infrastructure!LifecycleNext ELSE UNCHANGED lifecycleVars
    /\ IF active = "apiKey" THEN AccessControl!ApiKeyNext ELSE UNCHANGED apiKeyVars
    /\ IF active = "filter" THEN AccessControl!FilterNext ELSE UNCHANGED filterVars
    /\ IF active = "intrusion" THEN AccessControl!IntrusionNext ELSE UNCHANGED intrusionVars
    /\ IF active = "plugin" THEN Infrastructure!PluginNext ELSE UNCHANGED pluginVars
    /\ IF active = "adapter" THEN Infrastructure!AdapterNext ELSE UNCHANGED adapterVars
    /\ IF active = "agentKey" THEN AccessControl!AgentKeyNext ELSE UNCHANGED agentKeyVars
    /\ IF active = "agentRate" THEN AccessControl!AgentRateNext ELSE UNCHANGED agentRateVars
    /\ IF active = "cache" THEN Infrastructure!CacheNext ELSE UNCHANGED cacheVars
    /\ IF active = "layers" THEN Infrastructure!LayersNext ELSE UNCHANGED layersVars

GuardsSpec ==
    /\ GuardsInit /\ [][GuardsNext]_<<active,
          vars, rateVars, apiKeyVars, filterVars, intrusionVars, agentKeyVars,
          agentRateVars, lifecycleVars, pluginVars, adapterVars, cacheVars, layersVars>>

-----------------------------------------------------------------------------

\* Every component keeps its types.
TypesOK ==
    /\ TypeOK
    /\ AccessControl!RateTypeOK
    /\ Infrastructure!LifecycleTypeOK
    /\ AccessControl!ApiKeyTypeOK
    /\ AccessControl!FilterTypeOK
    /\ AccessControl!IntrusionTypeOK
    /\ Infrastructure!PluginTypeOK
    /\ Infrastructure!AdapterTypeOK
    /\ AccessControl!AgentKeyTypeOK
    /\ AccessControl!AgentRateTypeOK
    /\ Infrastructure!CacheTypeOK
    /\ Infrastructure!LayersTypeOK

\* No more requests pass than the windows allow; shutdown goes by dependence; the index of
\* API keys is that of the enabled ones, and withdrawn keys are refused; the decision on an
\* address follows the rules; a flood is seen; an enabled plugin has what it needs, and a
\* configuration loads; a message that is done was handled, and once per connection; an
\* agent is authenticated by what is its own, and every window of its requests is limited;
\* one factory fills the cache, and what is stale is so for a short time.
GuardsSafe ==
    /\ TypesOK
    /\ AccessControl!NoMoreThanOneWindowOver
    /\ Infrastructure!DependentsFirst
    /\ AccessControl!IndexIsOfEnabled
    /\ AccessControl!WithdrawnIsRefused
    /\ AccessControl!DecisionFollowsRules
    /\ AccessControl!FloodIsSeen
    /\ Infrastructure!EnabledHasItsNeeds
    /\ Infrastructure!ConfigurationLoads
    /\ Infrastructure!DoneWasHandled
    /\ Infrastructure!OncePerConnection
    /\ AccessControl!AuthenticatedByItsOwn
    /\ AccessControl!EveryWindowIsLimited
    /\ Infrastructure!OneFactory
    /\ Infrastructure!StaleIsShort
=============================================================================
