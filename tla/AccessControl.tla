--------------------------- MODULE AccessControl ----------------------------
(***************************************************************************)
(* Who is let in and how often: rate limits, API keys, addresses,          *)
(* intrusions and the keys of agents. They share nothing; each has its own *)
(* initial states, next-state relation and properties.                     *)
(***************************************************************************)
EXTENDS Integers, SequencesExt

(***************************************************************************)
(* src/lib/security/rate-limiter.ts: requests counted in windows that      *)
(* begin with the first request after the last window ended.               *)
(*                                                                         *)
(* Time passes in ticks; the clean-up is a timer of its own.  A change of  *)
(* the limits counts for the windows that run.  Reset forgets a key.       *)
(***************************************************************************)

CONSTANTS
    windowMs, limits,       \* limits: the values of maxRequests that setConfig() sets
    cleanupInterval, Horizon

VARIABLES
    rateNow,
    maxRequests,
    store,            \* the entry of a key: count and resetTime, or NoEntry
    rateSinceCleanup,
    rateAllowed,      \* history: how many requests were allowed at each time, until
    changed           \* history: the limit is changed or the key reset

rateVars == <<rateNow, maxRequests, store, rateSinceCleanup, rateAllowed, changed>>

NoEntry == [count |-> 0, resetTime |-> 0]
Largest == CHOOSE m \in limits : \A n \in limits : n <= m

RateInit ==
    /\ rateNow = 1
    /\ maxRequests = Largest
    /\ store = NoEntry
    /\ rateSinceCleanup = 0
    /\ rateAllowed = [t \in 1..Horizon |-> 0]
    /\ changed = FALSE

\* Mutant: a window ends a tick early.
mOver == store.resetTime <= rateNow + 1

Over == store.resetTime <= rateNow

rateCheck ==
    LET entry == IF Over THEN [count |-> 0, resetTime |-> rateNow + windowMs] ELSE store
    IN  /\ IF entry.count >= maxRequests
           THEN store' = entry /\ UNCHANGED rateAllowed
           ELSE /\ store' = [entry EXCEPT !.count = @ + 1]
                /\ rateAllowed' = IF changed THEN rateAllowed ELSE [rateAllowed EXCEPT ![rateNow] = @ + 1]
        /\ UNCHANGED <<rateNow, maxRequests, rateSinceCleanup, changed>>

rateCleanup ==
    /\ rateSinceCleanup = cleanupInterval
    /\ store' = IF Over THEN NoEntry ELSE store
    /\ rateSinceCleanup' = 0
    /\ UNCHANGED <<rateNow, maxRequests, rateAllowed, changed>>

setConfig(m) ==
    /\ m # maxRequests
    /\ maxRequests' = m
    /\ changed' = TRUE
    /\ UNCHANGED <<rateNow, store, rateSinceCleanup, rateAllowed>>

reset ==
    /\ store # NoEntry
    /\ store' = NoEntry
    /\ changed' = TRUE
    /\ UNCHANGED <<rateNow, maxRequests, rateSinceCleanup, rateAllowed>>

rateTick ==
    /\ rateNow < Horizon /\ rateSinceCleanup < cleanupInterval
    /\ rateNow' = rateNow + 1
    /\ rateSinceCleanup' = rateSinceCleanup + 1
    /\ UNCHANGED <<maxRequests, store, rateAllowed, changed>>

RateNext == rateCheck \/ rateCleanup \/ reset \/ rateTick \/ \E m \in limits : setConfig(m)

RateSpec == RateInit /\ [][RateNext]_rateVars

RateTypeOK ==
    /\ rateNow \in 1..Horizon
    /\ maxRequests \in limits
    /\ store.count \in 0..Largest

Allowed(span) == FoldFunctionOnSet(+, 0, rateAllowed, span)

\* In no span of n windows' length are more than n + 1 windows' requests allowed, also with the
\* clean-up between them; with one limit and without a reset this is the best that windows give
\* which begin with a request.
NoMoreThanOneWindowOver ==
    \A n \in 1..2, t \in 1..Horizon :
        Allowed({u \in 1..Horizon : t <= u /\ u < t + n * windowMs}) <= (n + 1) * Largest

-----------------------------------------------------------------------------
(***************************************************************************)
(* src/lib/auth/api-key.ts: API keys that expire and are revoked, deleted  *)
(* and rotated.                                                            *)
(*                                                                         *)
(* A key is looked up by the hash of its secret.  Hashes are taken to      *)
(* differ, so that a hash and the id of its key are the same here.  A      *)
(* rotated key gets the default expiry, whatever that of the old one.      *)
(***************************************************************************)

CONSTANTS
    Id, keyHorizon, Expiry   \* Expiry: the lifetimes that are asked for, in ticks

VARIABLES
    apiKeyNow,
    apiKeyKeys,      \* the stored keys: enabled and expiresAt, or NoKey
    keyIndex,        \* the hashes that lead to a key
    given,           \* history: ids that were handed out
    apiKeyWithdrawn  \* history: keys that were revoked, rotated or deleted

apiKeyVars == <<apiKeyNow, apiKeyKeys, keyIndex, given, apiKeyWithdrawn>>

NoKey == [enabled |-> FALSE, expiresAt |-> 0]

ApiKeyInit ==
    /\ apiKeyNow = 0
    /\ apiKeyKeys = [i \in Id |-> NoKey]
    /\ keyIndex = {} /\ given = {} /\ apiKeyWithdrawn = {}

Stored == {i \in Id : apiKeyKeys[i] # NoKey}

generateKey(i, days) ==
    /\ i \notin given
    /\ apiKeyKeys' = [apiKeyKeys EXCEPT ![i] = [enabled |-> TRUE, expiresAt |-> apiKeyNow + days]]
    /\ keyIndex' = keyIndex \cup {i}
    /\ given' = given \cup {i}
    /\ UNCHANGED <<apiKeyNow, apiKeyWithdrawn>>

IndexWithout(i) == keyIndex \ {i}

revokeKey(i) ==
    /\ i \in Stored
    /\ apiKeyKeys' = [apiKeyKeys EXCEPT ![i].enabled = FALSE]
    /\ keyIndex' = IndexWithout(i)
    /\ apiKeyWithdrawn' = apiKeyWithdrawn \cup {i}
    /\ UNCHANGED <<apiKeyNow, given>>

deleteKey(i) ==
    /\ i \in Stored
    /\ apiKeyKeys' = [apiKeyKeys EXCEPT ![i] = NoKey]
    /\ keyIndex' = IndexWithout(i)
    /\ apiKeyWithdrawn' = apiKeyWithdrawn \cup {i}
    /\ UNCHANGED <<apiKeyNow, given>>

\* Also of a key that was revoked or has expired, and as often as it is asked for.
rotateKey(i, new) ==
    /\ i \in Stored /\ new \notin given
    /\ \E days \in Expiry :
          /\ \A other \in Expiry : days >= other
          /\ apiKeyKeys' = [apiKeyKeys EXCEPT ![new] = [enabled |-> TRUE, expiresAt |-> apiKeyNow + days], ![i].enabled = FALSE]
    /\ keyIndex' = IndexWithout(i) \cup {new}
    /\ given' = given \cup {new}
    /\ apiKeyWithdrawn' = apiKeyWithdrawn \cup {i}
    /\ UNCHANGED apiKeyNow

apiKeyTick == apiKeyNow < keyHorizon /\ apiKeyNow' = apiKeyNow + 1 /\ UNCHANGED <<apiKeyKeys, keyIndex, given, apiKeyWithdrawn>>

ApiKeyNext ==
    \/ \E i \in Id :
        \/ revokeKey(i) \/ deleteKey(i)
        \/ \E days \in Expiry : generateKey(i, days)
        \/ \E new \in Id : rotateKey(i, new)
    \/ apiKeyTick

ApiKeySpec == ApiKeyInit /\ [][ApiKeyNext]_apiKeyVars

validateKey(i) == i \in keyIndex /\ i \in Stored /\ apiKeyKeys[i].enabled /\ ~(apiKeyNow > apiKeyKeys[i].expiresAt)

ApiKeyTypeOK ==
    /\ apiKeyNow \in 0..keyHorizon
    /\ keyIndex \subseteq Id
    /\ apiKeyWithdrawn \subseteq given

\* The index leads to the enabled keys and to no other: the two maps change together in every
\* operation.
IndexIsOfEnabled == keyIndex = {i \in Stored : apiKeyKeys[i].enabled}

\* A key that was withdrawn, by whatever operation, is refused from then on, and so is one that
\* has expired.
WithdrawnIsRefused == \A i \in Id : validateKey(i) => i \notin apiKeyWithdrawn /\ apiKeyNow <= apiKeyKeys[i].expiresAt

-----------------------------------------------------------------------------
(***************************************************************************)
(* src/lib/auth/ip-filter.ts: rules that allow or refuse addresses, some   *)
(* for a time, and the sets of addresses kept beside them.                 *)
(*                                                                         *)
(* A rule is for one address or for a network of addresses; ipMatches() is *)
(* given, since its arithmetic on 32 bits is that of the platform.         *)
(***************************************************************************)

CONSTANTS
    Rule, Address,
    Target,            \* what a rule may be for; a set of addresses each
    filterHorizon

VARIABLES
    filterNow,
    rules,             \* rules[r]: type, ip and expiresAt, or NoRule; expiresAt 0 is never
    whitelist,         \* the targets that were added to the set of that name
    shared             \* history: whether two rules for one target were there at once

filterVars == <<filterNow, rules, whitelist, shared>>

NoRule == [type |-> "none", ip |-> {}, expiresAt |-> 0]

FilterInit ==
    /\ filterNow = 1
    /\ rules = [r \in Rule |-> NoRule]
    /\ whitelist = {}
    /\ shared = FALSE

Present(type) == {r \in Rule : rules[r].type = type}
Lapsed(r) == rules[r].expiresAt # 0 /\ filterNow > rules[r].expiresAt

add(type, r, ip, expiresAt) ==
    /\ rules[r] = NoRule
    /\ rules' = [rules EXCEPT ![r] = [type |-> type, ip |-> ip, expiresAt |-> expiresAt]]
    /\ shared' = (shared \/ \E q \in Present(type) : rules[q].ip = ip)
    /\ UNCHANGED filterNow

addWhitelist(r, ip, expiresAt) == add("whitelist", r, ip, expiresAt) /\ whitelist' = whitelist \cup {ip}

addBlacklist(r, ip, expiresAt) == add("blacklist", r, ip, expiresAt) /\ UNCHANGED whitelist

Without(gone) == whitelist \ {rules[r].ip : r \in gone \cap Present("whitelist")}

RemoveRules(gone) ==
    /\ whitelist' = Without(gone)
    /\ rules' = [r \in Rule |-> IF r \in gone THEN NoRule ELSE rules[r]]

removeRule(r) == rules[r] # NoRule /\ RemoveRules({r}) /\ UNCHANGED <<filterNow, shared>>

filterCleanup == RemoveRules({r \in Rule : Lapsed(r)}) /\ UNCHANGED <<filterNow, shared>>

filterTick == filterNow < filterHorizon /\ filterNow' = filterNow + 1 /\ UNCHANGED <<rules, whitelist, shared>>

Matches(type, ip) == \E r \in Present(type) : ~Lapsed(r) /\ ip \in rules[r].ip

filterCheck(ip) == ~Matches("blacklist", ip) /\ (whitelist # {} => Matches("whitelist", ip))

FilterNext ==
    \/ \E r \in Rule :
        \/ removeRule(r)
        \/ \E ip \in Target, t \in 0..filterHorizon : addWhitelist(r, ip, t) \/ addBlacklist(r, ip, t)
    \/ filterCleanup \/ filterTick

FilterSpec == FilterInit /\ [][FilterNext]_filterVars

FilterTypeOK ==
    /\ filterNow \in 1..filterHorizon
    /\ whitelist \subseteq Target

\* An address passes if no rule in force refuses it and, where the whitelist has rules, one in
\* force names it: the set beside the rules says whether it has.  Two rules for one target must
\* not be there at once: with the first of them the set forgets the target.
DecisionFollowsRules ==
    ~shared => \A ip \in Address :
        filterCheck(ip) <=> /\ ~Matches("blacklist", ip)
                            /\ Present("whitelist") # {} => Matches("whitelist", ip)

-----------------------------------------------------------------------------
(***************************************************************************)
(* src/lib/security/intrusion-detection.ts: rules over the recent events,  *)
(* each with a time in which it is silent after an alert.                  *)
(*                                                                         *)
(* One rule, which counts the failed logins of a source in a window; the   *)
(* others differ in the events they count, in the threshold, and in having *)
(* no silence.  The silence of a rule is one for all sources.              *)
(***************************************************************************)

CONSTANTS
    Source,
    threshold, window, cooldownMs,
    maxHistorySize, maxAlerts,
    intrusionHorizon, MaxEvents \* bounds on time and on events

VARIABLES
    intrusionNow,
    eventHistory,        \* source and timestamp of the events of the rule's type
    alerts,              \* source, timestamp and acknowledged
    lastTriggerTime,     \* of the rule, 0 when it never triggered
    events,              \* bound: how many events there were
    raised               \* history: the times of all alerts

intrusionVars == <<intrusionNow, eventHistory, alerts, lastTriggerTime, events, raised>>

IntrusionInit ==
    /\ intrusionNow = 1
    /\ eventHistory = <<>> /\ alerts = <<>>
    /\ lastTriggerTime = 0
    /\ events = 0
    /\ raised = {}

\* The last `size` elements.
Kept(seq, size) == IF Len(seq) > size THEN Tail(seq) ELSE seq

Recent(history, source) == {i \in DOMAIN history : history[i].timestamp >= intrusionNow - window /\ history[i].source = source}

Condition(history, source) == Cardinality(Recent(history, source)) >= threshold

Silent == lastTriggerTime # 0 /\ intrusionNow - lastTriggerTime < cooldownMs

processEvent(source) ==
    LET history == Kept(Append(eventHistory, [source |-> source, timestamp |-> intrusionNow]), maxHistorySize)
    IN  /\ events < MaxEvents
        /\ events' = events + 1
        /\ eventHistory' = history
        /\ IF ~Silent /\ Condition(history, source)
           THEN /\ alerts' = Kept(Append(alerts, [source |-> source, timestamp |-> intrusionNow, acknowledged |-> FALSE]), maxAlerts)
                /\ lastTriggerTime' = intrusionNow
                /\ raised' = raised \cup {intrusionNow}
           ELSE UNCHANGED <<alerts, lastTriggerTime, raised>>
        /\ UNCHANGED intrusionNow

acknowledgeAlert(i) ==
    /\ i \in DOMAIN alerts /\ ~alerts[i].acknowledged
    /\ alerts' = [alerts EXCEPT ![i].acknowledged = TRUE]
    /\ UNCHANGED <<intrusionNow, eventHistory, lastTriggerTime, events, raised>>

clearAlerts ==
    /\ alerts # <<>>
    /\ alerts' = <<>>
    /\ UNCHANGED <<intrusionNow, eventHistory, lastTriggerTime, events, raised>>

intrusionTick == intrusionNow < intrusionHorizon /\ intrusionNow' = intrusionNow + 1 /\ UNCHANGED <<eventHistory, alerts, lastTriggerTime, events, raised>>

IntrusionNext ==
    \/ \E s \in Source : processEvent(s)
    \/ \E i \in 1..maxAlerts : acknowledgeAlert(i)
    \/ clearAlerts \/ intrusionTick

IntrusionSpec == IntrusionInit /\ [][IntrusionNext]_intrusionVars

IntrusionTypeOK ==
    /\ intrusionNow \in 1..intrusionHorizon
    /\ Len(eventHistory) <= maxHistorySize /\ Len(alerts) <= maxAlerts
    /\ lastTriggerTime \in 0..intrusionNow

\* As long as the failures of one source fill the window, there was an alert since, or so little
\* before that the rule was silent: events of other sources and alerts that are acknowledged or
\* cleared hide none.  The history must hold what a window may see.
FloodIsSeen ==
    (events <= maxHistorySize /\ \E s \in Source : Cardinality(Recent(eventHistory, s)) >= threshold)
        => \E t \in raised : intrusionNow - t <= window + cooldownMs

-----------------------------------------------------------------------------
(***************************************************************************)
(* src/lib/auth/AgentAuth.ts: the API keys and tokens of agents, and the   *)
(* order in which authenticate() tries what a request carries.             *)
(*                                                                         *)
(* Hashes and signatures are taken to be sound; signed requests are in     *)
(* AgentAuth, and a certificate says which agent it is for.                *)
(***************************************************************************)

CONSTANTS
    Agent, Key, Token,
    JWT_EXPIRY           \* in ticks; Horizon bounds time

VARIABLES
    agentKeyNow,
    apiKeys,          \* apiKeys[k]: agentId and enabled; agentId is "none" before the key is made
    tokens,           \* tokens[t]: agentId and exp
    revokedTokens,
    agentKeyWithdrawn \* history: keys whose agent was revoked after they were made

agentKeyVars == <<agentKeyNow, apiKeys, tokens, revokedTokens, agentKeyWithdrawn>>

AgentKeyInit ==
    /\ agentKeyNow = 0
    /\ apiKeys = [k \in Key |-> [agentId |-> "none", enabled |-> FALSE]]
    /\ tokens = [t \in Token |-> [agentId |-> "none", exp |-> 0]]
    /\ revokedTokens = {} /\ agentKeyWithdrawn = {}

generateApiKey(k, a) ==
    /\ apiKeys[k].agentId = "none"
    /\ apiKeys' = [apiKeys EXCEPT ![k] = [agentId |-> a, enabled |-> TRUE]]
    /\ UNCHANGED <<agentKeyNow, tokens, revokedTokens, agentKeyWithdrawn>>

generateJWT(t, a) ==
    /\ tokens[t].agentId = "none"
    /\ tokens' = [tokens EXCEPT ![t] = [agentId |-> a, exp |-> agentKeyNow + JWT_EXPIRY]]
    /\ UNCHANGED <<agentKeyNow, apiKeys, revokedTokens, agentKeyWithdrawn>>

revokeToken(t) ==
    /\ tokens[t].agentId # "none"
    /\ revokedTokens' = revokedTokens \cup {t}
    /\ UNCHANGED <<agentKeyNow, apiKeys, tokens, agentKeyWithdrawn>>

\* Only keys: a token of the agent is good until it expires.
revokeAgentTokens(a) ==
    LET keys == {k \in Key : apiKeys[k].agentId = a}
    IN  /\ apiKeys' = [k \in Key |-> IF k \in keys THEN [apiKeys[k] EXCEPT !.enabled = FALSE] ELSE apiKeys[k]]
        /\ agentKeyWithdrawn' = agentKeyWithdrawn \cup keys
        /\ UNCHANGED <<agentKeyNow, tokens, revokedTokens>>

agentKeyTick == agentKeyNow < keyHorizon /\ agentKeyNow' = agentKeyNow + 1 /\ UNCHANGED <<apiKeys, tokens, revokedTokens, agentKeyWithdrawn>>

AgentKeyNext ==
    \/ \E a \in Agent : \/ revokeAgentTokens(a)
                        \/ \E k \in Key : generateApiKey(k, a)
                        \/ \E t \in Token : generateJWT(t, a)
    \/ \E t \in Token : revokeToken(t)
    \/ agentKeyTick

AgentKeySpec == AgentKeyInit /\ [][AgentKeyNext]_agentKeyVars

(* What a request is answered: the agent it is taken for, or "none".       *)

validateApiKey(k) == IF k \in Key /\ apiKeys[k].enabled THEN apiKeys[k].agentId ELSE "none"

validateJWT(t) ==
    IF t \in Token /\ t \notin revokedTokens /\ tokens[t].exp >= agentKeyNow THEN tokens[t].agentId ELSE "none"

validateMTLS(cert, agentId) == IF cert = agentId THEN agentId ELSE "none"

\* The first way that succeeds decides; one that fails is as good as absent.
authenticate(cert, agentId, t, k) ==
    IF cert # "none" /\ agentId # "none" /\ validateMTLS(cert, agentId) # "none" THEN agentId
    ELSE IF validateJWT(t) # "none" THEN validateJWT(t) ELSE validateApiKey(k)

AgentKeyTypeOK ==
    /\ agentKeyNow \in 0..keyHorizon
    /\ apiKeys \in [Key -> [agentId : Agent \cup {"none"}, enabled : BOOLEAN]]
    /\ revokedTokens \subseteq Token /\ agentKeyWithdrawn \subseteq Key

\* A request that authenticates carries something that is good now and is of the agent it is taken
\* for: a certificate of the agent it names, a token that neither expired nor was revoked, or a key
\* made after the agent was last revoked; what else it carries neither helps nor harms.
AuthenticatedByItsOwn ==
    \A cert, agentId \in Agent \cup {"none"}, t \in Token \cup {0}, k \in Key \cup {0} :
        LET who == authenticate(cert, agentId, t, k)
        IN  who # "none" =>
                \/ cert = who /\ agentId = who
                \/ t \in Token \ revokedTokens /\ tokens[t].agentId = who /\ agentKeyNow <= tokens[t].exp
                \/ k \in Key \ agentKeyWithdrawn /\ apiKeys[k].agentId = who

-----------------------------------------------------------------------------
(***************************************************************************)
(* edge-agent/server.js: the sliding window by which an agent limits what  *)
(* each client may ask, and the clean-up of its records.                   *)
(***************************************************************************)

CONSTANTS
    Client,
    RATE_LIMIT_WINDOW_MS, RATE_LIMIT_MAX, agentCleanup,
    agentHorizon, MaxRequests \* bounds on time and on the requests that are let through

VARIABLES
    agentRateNow, agentRateSinceCleanup,
    rateLimitStore,    \* rateLimitStore[c]: times of requests, <<>> also where there is no record
    agentRateAllowed   \* history: the times of all requests that were let through

agentRateVars == <<agentRateNow, agentRateSinceCleanup, rateLimitStore, agentRateAllowed>>

AgentRateInit ==
    /\ agentRateNow = 0 /\ agentRateSinceCleanup = 0
    /\ rateLimitStore = [c \in Client |-> <<>>]
    /\ agentRateAllowed = [c \in Client |-> <<>>]

Within(times) == SelectSeq(times, LAMBDA t : t > agentRateNow - RATE_LIMIT_WINDOW_MS)

\* A request over the limit is refused and not counted.
rateLimiter(c) ==
    LET requests == Within(rateLimitStore[c])
    IN  /\ Len(agentRateAllowed[c]) < MaxRequests
        /\ IF Len(requests) >= RATE_LIMIT_MAX
           THEN /\ rateLimitStore' = [rateLimitStore EXCEPT ![c] = requests]
                /\ UNCHANGED agentRateAllowed
           ELSE /\ rateLimitStore' = [rateLimitStore EXCEPT ![c] = Append(requests, agentRateNow)]
                /\ agentRateAllowed' = [agentRateAllowed EXCEPT ![c] = Append(@, agentRateNow)]
        /\ UNCHANGED <<agentRateNow, agentRateSinceCleanup>>

Stale(times) == times = <<>> \/ Last(times) < agentRateNow - RATE_LIMIT_WINDOW_MS

agentRateCleanup ==
    /\ agentRateSinceCleanup = agentCleanup
    /\ rateLimitStore' = [c \in Client |-> IF Stale(rateLimitStore[c]) THEN <<>> ELSE rateLimitStore[c]]
    /\ agentRateSinceCleanup' = 0
    /\ UNCHANGED <<agentRateNow, agentRateAllowed>>

agentRateTick ==
    /\ agentRateNow < agentHorizon /\ agentRateSinceCleanup < agentCleanup
    /\ agentRateNow' = agentRateNow + 1 /\ agentRateSinceCleanup' = agentRateSinceCleanup + 1
    /\ UNCHANGED <<rateLimitStore, agentRateAllowed>>

AgentRateNext == (\E c \in Client : rateLimiter(c)) \/ agentRateCleanup \/ agentRateTick

AgentRateSpec == AgentRateInit /\ [][AgentRateNext]_agentRateVars

AgentRateTypeOK ==
    /\ agentRateNow \in 0..agentHorizon /\ agentRateSinceCleanup \in 0..agentCleanup
    /\ \A c \in Client : Len(rateLimitStore[c]) <= RATE_LIMIT_MAX

\* No window of RATE_LIMIT_WINDOW_MS, wherever it begins, has more than RATE_LIMIT_MAX requests of a
\* client, though records are filtered when they are used and forgotten by a timer.
EveryWindowIsLimited ==
    \A c \in Client, from \in 0..agentHorizon :
        Len(SelectSeq(agentRateAllowed[c], LAMBDA t : t \in from..(from + RATE_LIMIT_WINDOW_MS - 1))) <= RATE_LIMIT_MAX

=============================================================================
