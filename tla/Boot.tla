-------------------------------- MODULE Boot ---------------------------------
(***************************************************************************)
(* blackwall.main: what a deployment's environment makes of the service.   *)
(* Boot is a sequence of stages, each of which may wire a source into the  *)
(* handler, say so in the banner, degrade or stop the process; then the    *)
(* server answers the discovery documents and the routes, and SIGTERM      *)
(* drains it.                                                              *)
(*                                                                         *)
(* An option stands for an environment variable or flag that is set.  What *)
(* files, the key-value store and the network answer is chosen freely at   *)
(* each stage.                                                             *)
(***************************************************************************)
EXTENDS Integers, Sequences, FiniteSets, SequencesExt, FiniteSetsExt

CONSTANT Deployments   \* the environments looked at: sets of options

VARIABLES env,      \* the options that are set
          stage,    \* where main is
          wired,    \* what was built and handed to the handler
          banner,   \* what the boot lines say is ON
          screens,  \* the sanctions list has addresses
          mirror,   \* of the durable ledger: [why, failures]
          code,     \* the exit code
          drained,  \* the ledger's queue was flushed on the way out
          said      \* the last answer: [what, of]

vars == <<env, stage, wired, banner, screens, mirror, code, drained, said>>
kept == <<env, screens, mirror, drained, said>>

Stages == <<"ledger", "signer", "store", "sanctions", "billing", "readiness", "hold", "category",
            "secret", "sellers", "divergence", "rate", "enrich", "rwa", "stocks", "pyth", "dex",
            "holder", "honeypot", "payto", "aave", "corpus", "node", "sim", "anchor", "construct",
            "sigterm", "bind", "bound", "loop">>

After(s) == Stages[1 + CHOOSE i \in DOMAIN Stages : Stages[i] = s]
Set(o) == o \in env
Has(s) == s \in wired
Only(cond, what) == IF cond THEN what ELSE {}

\* A stage ends well: it built `sources` and announced `on`.
Goes(s, sources, on) ==
    /\ stage = s /\ stage' = After(s)
    /\ wired' = wired \cup sources
    /\ banner' = banner \cup on
    /\ UNCHANGED code

\* A stage ends the process: 2 for a refusal with a message, 1 for an exception.
Dies(s, c) ==
    /\ stage = s /\ stage' = "exited"
    /\ code' = c
    /\ UNCHANGED <<wired, banner>>

Stage(s, sources, on) == Goes(s, sources, on) /\ UNCHANGED kept

-----------------------------------------------------------------------------
(* The stages of main.                                                     *)

KV == {"kv_url", "kv_token", "kv_key"}

\* A key-value store that is configured in part, with a bad key or with a broken
\* cipher is fatal; one that is complete is hydrated from and probed for a write, and
\* announced as degraded when the probe fails.
LedgerStage(writable) ==
    LET kv == KV \cap env IN
    /\ IF Set("ledger") /\ kv # {} /\ (kv # KV \/ Set("kv_unusable"))
       THEN Dies("ledger", 2) /\ UNCHANGED mirror
       ELSE /\ Goes("ledger", Only(Set("ledger"), {"ledger"} \cup Only(kv # {}, {"durable"})),
                              Only(Set("ledger") /\ kv # {} /\ writable, {"durable"}))
            /\ mirror' = [why |-> Set("ledger") /\ kv # {} /\ ~ writable, failures |-> 0]
    /\ UNCHANGED <<env, screens, drained, said>>

\* A seed that does not parse is fatal, and so is a signer that is not constant-time
\* on a public bind without the override.
SignerStage ==
    /\ IF \/ Set("seed_bad")
          \/ Set("seed") /\ Set("public") /\ ~ Set("native") /\ ~ Set("allow_slow")
       THEN Dies("signer", 2)
       ELSE Goes("signer", Only(Set("seed"), {"signer"}), Only(Set("seed"), {"signer"}))
    /\ UNCHANGED kept

\* The store, and the payer graph and the velocity source over it; a store that
\* cannot be opened raises.
StoreStage(opens) ==
    /\ IF Set("store") /\ ~ opens THEN Dies("store", 1)
       ELSE Goes("store", Only(Set("store"), {"store", "graph", "velocity"}), {})
    /\ UNCHANGED kept

\* The list is wrapped even when it is empty; only addresses make it ON.
SanctionsStage(nonempty) ==
    /\ Goes("sanctions", Only(Set("sanctions"), {"sanctions"}), Only(Set("sanctions") /\ nonempty, {"sanctions"}))
    /\ screens' = (Set("sanctions") /\ nonempty)
    /\ UNCHANGED <<env, mirror, drained, said>>

\* choose_facilitator: credentials win over a URL, half of them is refused.
ChooseFacilitator ==
    CASE {"cdp_id", "cdp_secret"} \subseteq env -> "cdp"
      [] Set("cdp_id") \/ Set("cdp_secret")     -> "refused"
      [] Set("facilitator")                     -> "keyless"
      [] OTHER                                  -> "mock"

\* A malformed timeout or pricing constant (_float_env, PricingPolicy) and half a
\* pair of credentials raise.
BillingStage ==
    /\ IF Set("pay_to") /\ (Set("bad_number") \/ ChooseFacilitator = "refused") THEN Dies("billing", 1)
       ELSE Goes("billing", Only(Set("pay_to"), {"billing"} \cup Only(Set("value_pricing"), {"pricing"})), {})
    /\ UNCHANGED kept

\* The service's own source takes precedence over the external one.
ReadinessStage ==
    Stage("readiness", Only(Set("readiness_local"), {"readiness_local"})
                         \cup Only(~ Set("readiness_local") /\ Set("readiness"), {"readiness"}),
                       Only(Set("readiness_local") \/ Set("readiness"), {"readiness"}))

\* A threshold that does not parse is warned about and left at its default.
HoldStage(valid) == Stage("hold", Only(Set("hold_above") /\ valid, {"hold_above"}), Only(Set("hold_above") /\ valid, {"hold_above"}))

\* load_category_index fails open.
CategoryStage(usable) == Stage("category", Only(Set("category") /\ usable, {"category"}), Only(Set("category") /\ usable, {"category"}))

\* hmac_key.load_key: a secret that is unset is a random one of this process.
SecretStage(weak) == Stage("secret", {IF Set("secret") THEN "secret" ELSE "ephemeral"}, Only(Set("secret") /\ ~ weak, {"secret"}))

\* load_registry and describe_registry: unreadable revocations disable the tier, a
\* tier without a seed is announced as inert, not as ON.
SellersStage(readable) ==
    LET on == (Set("sellers") \/ Set("revocations")) /\ (Set("revocations") => readable)
    IN  Stage("sellers", Only(on, {"sellers"}), Only(on /\ Set("seed"), {"sellers"}))

DivergenceStage(usable) == Stage("divergence", Only(Set("divergence") /\ usable, {"divergence"}), Only(Set("divergence") /\ usable, {"divergence"}))

\* A limit that does not parse, or a bad window, leaves limiting off.
RateStage(valid) == Stage("rate", Only(Set("rate_limit") /\ valid, {"rate"}), Only(Set("rate_limit") /\ valid, {"rate"}))

EnrichStage == Stage("enrich", Only(Set("enrich"), {"enrich"}), Only(Set("enrich"), {"enrich"}))

\* With an RPC the simulation comes first and the mandate check last; the interface
\* probe is built with no RPC at all.
RwaStage ==
    Stage("rwa", Only(Set("rwa"), {"rwa"} \cup Only(Set("evm_rpc"), {"rwa_sim", "rams"}) \cup Only(Set("solana_rpc"), {"rwa_solana"})),
                 Only(Set("rwa"), {"rwa"}))

\* The registry brings the backing index; a feed that fails leaves both empty.
StocksStage == Stage("stocks", Only(Set("stocks"), {"stocks", "backing"}), Only(Set("stocks"), {"stocks", "backing"}))

PythStage == Stage("pyth", Only(Set("pyth") /\ Has("stocks"), {"pyth"}), Only(Set("pyth") /\ Has("stocks"), {"pyth"}))

DexStage ==
    LET on == Set("dex") /\ Has("pyth") /\ Set("evm_rpc")
    IN  Stage("dex", Only(on, {"dex"}), Only(on, {"dex"}))

HolderStage == Stage("holder", Only(Set("holder"), {"holder"}), Only(Set("holder"), {"holder"}))

HoneypotStage ==
    LET on == Set("honeypot") /\ Set("evm_rpc")
    IN  Stage("honeypot", Only(on, {"honeypot"}), Only(on, {"honeypot"}))

\* Always loaded; any exception leaves it out.  What is announced is whether the
\* recipient check can hold a payment: hosts, the lock and a directory that is dated.
PaytoStage(loads, gates) == Stage("payto", Only(loads, {"payto"}), Only(loads /\ gates, {"payto"}))

AaveStage ==
    LET on == Set("aave") /\ Set("evm_rpc")
    IN  Stage("aave", Only(on, {"aave"}), Only(on, {"aave"}))

\* The corpus brings the issuer grades, and with an RPC the balance snapshot.
CorpusStage ==
    LET on == Only(Set("rwa_ledger"), {"rwa_ledger", "issuer_trust"}
                                        \cup Only(Set("evm_rpc") \/ Set("solana_rpc"), {"balance"}))
    IN  Stage("corpus", on, on)

\* The own RPC node is waited for, up to a bound, and given up on any exception.
NodeStage(starts) ==
    LET on == Set("rpc_node") /\ starts
    IN  Stage("node", Only(on, {"node"}), Only(on, {"node"}))

\* An explicit URL wins; otherwise the own node serves both chains.
SimChains == Only(Set("base_rpc") \/ Has("node"), {"base"}) \cup Only(Set("evm_rpc") \/ Has("node"), {"ethereum"})

SimStage ==
    LET on == Set("sim") /\ SimChains # {}
    IN  Stage("sim", Only(on, {"sim", "auth_sim"}), Only(on, {"sim"}))

AnchorStage == Stage("anchor", Only(Set("anchor"), {"anchor"}), Only(Set("anchor"), {"anchor"}))

\* BLACKWALL_MAX_INFLIGHT is validated (_int_env), then the server is constructed.
ConstructStage ==
    /\ IF Set("bad_inflight") THEN Dies("construct", 1) ELSE Goes("construct", {}, {})
    /\ UNCHANGED kept

\* From here on SIGTERM is a KeyboardInterrupt; before, it ends the process.
SigtermStage == Stage("sigterm", {}, {})

\* The socket is bound, or the port is taken.
BindStage(free) ==
    /\ IF free THEN Goes("bind", {}, {}) ELSE Dies("bind", 1)
    /\ UNCHANGED kept

LoopStage == Stage("bound", {}, {})

-----------------------------------------------------------------------------
(* The running service.                                                    *)

Serving == stage = "loop"

\* The background refresh of the sanctions list lands.
RefreshLands ==
    /\ stage \in {"loop", "bound", "bind"} /\ Set("refresh") /\ Has("sanctions") /\ ~ screens
    /\ screens' = TRUE
    /\ UNCHANGED <<env, stage, wired, banner, mirror, code, drained, said>>

\* A record could not be mirrored.
MirrorFails ==
    /\ Serving /\ Has("durable") /\ mirror.failures = 0
    /\ mirror' = [mirror EXCEPT !.failures = 1]
    /\ UNCHANGED <<env, stage, wired, banner, screens, code, drained, said>>

Says(what, of) ==
    /\ Serving
    /\ said' = [what |-> what, of |-> of]
    /\ UNCHANGED <<env, stage, wired, banner, screens, mirror, code, drained>>

\* describe_health: what /healthz says of the ledger.
DescribeHealth ==
    CASE ~ Has("ledger")                       -> "none"
      [] ~ Has("durable")                      -> "ephemeral"
      [] mirror.why \/ mirror.failures > 0     -> "degraded"
      [] OTHER                                 -> "durable"

\* facilitator_health: what /healthz says of the facilitator.
FacilitatorHealth == IF Has("billing") THEN ChooseFacilitator ELSE "off"

Health == Says("health", {DescribeHealth, FacilitatorHealth})

\* _descriptor and build_descriptor: the signals advertised beside the ones that run
\* in every verdict, read from what is wired.
Signals ==
    Only(Has("sanctions") /\ screens, {"sanctions-ofac"})
      \cup Only(Has("readiness") \/ Has("readiness_local"), {"endpoint-readiness"})
      \cup Only(Has("sim"), {"settlement-simulation"})
      \cup Only(Has("honeypot"), {"honeypot-exit-check"})
      \cup Only(Has("rwa"), {"transfer-restriction-readiness"})
      \cup Only(Has("dex"), {"dex-market-peg"})
      \cup Only(Has("holder"), {"holder-concentration"})

Descriptor == Says("signals", Signals)

PublicGetRoutes == {"/healthz", "/.well-known/x402", "/v1/discovery", "/jwks.json",
                    "/.well-known/blackwall-receipt-key.json", "/v1/price-index",
                    "/v1/seller/revocations", "/openapi.json", "/stats"}
PublicPostRoutes == {"/v1/forecast-payment", "/v1/verify-signer", "/v1/report-outcome", "/v1/screen-payer",
                     "/v1/approvals", "/v1/approvals/decide", "/v1/seller/revoke", "/v1/approvals/redeem"}
BillingPostRoutes == {"/v1/session"}
UnadvertisedRoutes == {"/stats"}

\* build_openapi: the routes the document lists.
OpenapiPaths ==
    (PublicGetRoutes \ UnadvertisedRoutes) \cup PublicPostRoutes
      \cup Only(Has("billing"), BillingPostRoutes)

Openapi == Says("paths", OpenapiPaths)

\* do_GET and do_HEAD answer every route of the table; do_POST answers 404 for a
\* route whose component is not there, 503 for one that needs it, and otherwise
\* calls the route's handler.
AnswersTo(r) ==
    CASE r \in PublicGetRoutes                            -> 200
      [] r = "/v1/session" /\ ~ Has("billing")            -> 404
      [] r = "/v1/seller/revoke" /\ ~ Has("sellers")      -> 404
      [] r = "/v1/report-outcome" /\ ~ Has("ledger")      -> 503
      [] r = "/v1/screen-payer" /\ ~ Has("graph")         -> 503
      [] r \in PublicPostRoutes \cup BillingPostRoutes    -> 200
      [] OTHER                                            -> 404

-----------------------------------------------------------------------------
(* SIGTERM.                                                                *)

\* Before the handler is installed, the default action.
KilledAtBoot ==
    /\ stage \in Range(SubSeq(Stages, 1, 27)) /\ stage' = "exited" /\ code' = 143
    /\ UNCHANGED <<wired, banner>> /\ UNCHANGED kept

\* The interrupt reaches main's except clause: out of the constructor, out of the
\* running loop (whose own finally has shut the server down), or after the socket is
\* bound and before the loop runs, when shutdown waits for a loop that never was.
Interrupted ==
    /\ stage \in {"bind", "bound", "loop"}
    /\ stage' = IF stage = "bound" THEN "stuck" ELSE "draining"
    /\ UNCHANGED <<wired, banner, code>> /\ UNCHANGED kept

\* _drain_ledger flushes the queue of a durable ledger (its close returns or raises).
Drain ==
    /\ stage = "draining"
    /\ stage' = "exited" /\ code' = 0
    /\ drained' = Has("durable")
    /\ UNCHANGED <<env, wired, banner, screens, mirror, said>>

\* Another SIGTERM is another KeyboardInterrupt, which nothing catches any more.
InterruptedAgain ==
    /\ stage \in {"draining", "stuck"}
    /\ stage' = "exited" /\ code' = 130
    /\ UNCHANGED <<wired, banner>> /\ UNCHANGED kept

-----------------------------------------------------------------------------
Init ==
    /\ env \in Deployments
    /\ stage = Stages[1]
    /\ wired = {} /\ banner = {} /\ screens = FALSE
    /\ mirror = [why |-> FALSE, failures |-> 0]
    /\ code = 0 /\ drained = FALSE
    /\ said = [what |-> "none", of |-> {}]

BootStage ==
    \/ SignerStage \/ BillingStage \/ ReadinessStage \/ EnrichStage \/ RwaStage \/ StocksStage \/ PythStage
    \/ DexStage \/ HolderStage \/ HoneypotStage \/ AaveStage \/ CorpusStage \/ SimStage \/ AnchorStage
    \/ ConstructStage \/ SigtermStage \/ LoopStage
    \/ \E ok \in BOOLEAN :
         \/ LedgerStage(ok) \/ StoreStage(ok) \/ SanctionsStage(ok) \/ HoldStage(ok) \/ CategoryStage(ok)
         \/ SecretStage(ok) \/ SellersStage(ok) \/ DivergenceStage(ok) \/ RateStage(ok) \/ NodeStage(ok)
         \/ BindStage(ok)
    \/ \E loads, gates \in BOOLEAN : PaytoStage(loads, gates)

Next ==
    \/ BootStage
    \/ RefreshLands \/ MirrorFails \/ Health \/ Descriptor \/ Openapi
    \/ KilledAtBoot \/ Interrupted \/ Drain \/ InterruptedAgain

\* The closing main thread goes on: the flush is bounded (CloseReturns of DurableLedger).
Fairness == WF_vars(Drain)

Spec == Init /\ [][Next]_vars /\ Fairness

-----------------------------------------------------------------------------
TypeOK ==
    /\ stage \in Range(Stages) \cup {"draining", "stuck", "exited"}
    /\ code \in {0, 1, 2, 130, 143}
    /\ screens \in BOOLEAN /\ drained \in BOOLEAN
    /\ mirror \in [why : BOOLEAN, failures : 0..1]

\* A service that serves has what its operator configured for safety: a key-value
\* store that is set in part or cannot be used, a seed that does not parse, and a
\* signer that is not constant-time on a public address never serve.
NoSilentDowngrade ==
    Serving =>
      /\ Set("ledger") /\ KV \cap env # {} => Has("durable")
      /\ Set("seed") \/ Set("seed_bad") =>
           Has("signer") /\ (Set("public") => Set("native") \/ Set("allow_slow"))

\* What the descriptor advertises was wired by an option and can reach what it works
\* with.  (transfer-restriction-readiness is left out: it is advertised without an RPC.)
AdvertisedCanFire ==
    said.what = "signals" =>
      /\ "settlement-simulation" \in said.of => Set("sim") /\ (Set("base_rpc") \/ Set("evm_rpc") \/ Set("rpc_node"))
      /\ "honeypot-exit-check" \in said.of => Set("honeypot") /\ Set("evm_rpc")
      /\ "dex-market-peg" \in said.of => {"dex", "pyth", "stocks", "evm_rpc"} \subseteq env
      /\ "sanctions-ofac" \in said.of => Set("sanctions") /\ screens

\* A boot line that says ON is true of the service that runs, and /healthz says
\* durable only of a mirror that took a write at boot and every record since.
BannerIsTrue ==
    /\ Serving => banner \ {"readiness"} \subseteq wired
    /\ Serving /\ DescribeHealth = "durable" => "durable" \in banner /\ mirror.failures = 0

\* A route the OpenAPI document lists is not answered 404.  (/v1/seller/revoke is left
\* out: it is listed whether or not a registry is there.)
ListedIsServed ==
    said.what = "paths" => \A r \in said.of \ {"/v1/seller/revoke"} : AnswersTo(r) # 404

BootSound == NoSilentDowngrade /\ AdvertisedCanFire /\ BannerIsTrue /\ ListedIsServed

\* A running service that is told to stop ends, having flushed a durable ledger unless
\* it was told again.
SigtermEnds ==
    stage = "draining" ~> (stage = "exited" /\ (code = 0 /\ Has("durable") => drained))
=============================================================================
