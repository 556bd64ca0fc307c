------------------------------ MODULE Settings ------------------------------
(***************************************************************************)
(* The configuration of llama-proxy (config/mod.rs): one set of records    *)
(* per section, with the values its rules tell apart, and the loader's     *)
(* validation (config/loader.rs, config/validate.rs).  Durations and sizes *)
(* are small numbers around the limits, which are constants.               *)
(***************************************************************************)
EXTENDS Integers, Sequences, FiniteSets
LOCAL INSTANCE SequencesExt

CONSTANTS
  None,                       \* an absent key
  MAX_TIMEOUT_SECONDS, MAX_FAILURE_COOLDOWN_SECS, MAX_REPROMPT_TOTAL_MS, MAX_CHUNK_DELAY_MS

\* A limit, what is just beyond it, and zero.
Around(max) == {0, 1, max, max + 1}

---------------------------------------------------------------------------
\* Values.

Url(host) == [parses |-> TRUE, scheme |-> "http", host |-> host]
Urls == {Url("east"), Url(""), [Url("east") EXCEPT !.scheme = "ftp"], [Url("east") EXCEPT !.parses = FALSE]}

\* A bind host: an address literal or dot-separated labels, perhaps in brackets.
Literal(family) == [brackets |-> FALSE, literal |-> family, labels |-> <<>>]
Named(labels) == [brackets |-> FALSE, literal |-> "none", labels |-> labels]
BindHosts ==
  LET bare == {Literal("v4"), Literal("v6"), Named(<<"word">>), Named(<<"word", "word", "">>), Named(<<"">>),
               Named(<<"", "">>), Named(<<"word", "zone%">>)}
  IN bare \cup {[h EXCEPT !.brackets = TRUE] : h \in bare}

Origins == {"https://app", "", "with space", "with\ncontrol", "*"}

\* A model name is the sequence of its pieces, of which prefixes can be taken.
Model == <<"qwen", "-", "14b">>
Family == <<"qwen">>
Other == <<"gemma">>

---------------------------------------------------------------------------
\* The sections.

default_max_concurrent == 0
ServerConfig == [port : {0, 1}, host : BindHosts, max_concurrent_requests : {default_max_concurrent, 1},
                 allowed_origins : {None} \cup {<<o>> : o \in Origins} \cup {<<"https://app", "*">>}]
SaneServer == [port |-> 1, host |-> Literal("v4"), max_concurrent_requests |-> default_max_concurrent,
               allowed_origins |-> None]

\* The client certificate files are readable or not.
TlsConfig == {"none", "readable", "unreadable"}

default_timeout == 1
BackendConfig == [url : Urls, timeout_seconds : Around(MAX_TIMEOUT_SECONDS), tls : TlsConfig, model : {None, Model}]
DefaultBackend == [url |-> Url("localhost"), timeout_seconds |-> default_timeout, tls |-> "none", model |-> None]

\* -1 and 3 lie outside 0..=2; "nan" is not a number.
BackendNodeConfig == [url : Urls, timeout_seconds : Around(MAX_TIMEOUT_SECONDS), tls : TlsConfig, model : {None},
                      temperature : {None, "-1", "0", "2", "3", "nan"}]
Node(host, model) == [url |-> Url(host), timeout_seconds |-> default_timeout, tls |-> "none", model |-> model,
                      temperature |-> None]

default_strategy == "round_robin"
default_failure_cooldown_secs == 1
Group(mappings, nodes) == [mappings |-> mappings, strategy |-> default_strategy,
                           failure_cooldown_secs |-> default_failure_cooldown_secs, exclusive |-> FALSE, nodes |-> nodes]
BackendGroupConfig ==
  LET sane == Group(<<Model>>, <<Node("east", None)>>)
  IN  {[sane EXCEPT !.strategy = s] : s \in {"round_robin", "priority_free", "round-robin", "random"}}
      \cup {[sane EXCEPT !.failure_cooldown_secs = n] : n \in Around(MAX_FAILURE_COOLDOWN_SECS)}
      \cup {[sane EXCEPT !.nodes = ns] : ns \in {<<>>} \cup {<<n>> : n \in BackendNodeConfig}}

\* The groups by name.
BackendsConfig ==
  LET mappings == {<<>>, <<Model>>, <<Other, Model>>, <<Model, Model>>, << <<>> >>}
      one == <<Node("east", None)>>
  IN  {<<>>} \cup {[g1 |-> g] : g \in BackendGroupConfig}
      \cup {[g1 |-> Group(a, one), g2 |-> Group(b, one)] : a \in mappings, b \in mappings}

\* Nodes whose preflight is of interest: with and without a model of their own,
\* two in a group, and two that share a server.
Topology(h, m, n, k) ==
  [g1 |-> Group(<<>>, <<Node("east", m), Node(h, n)>>), g2 |-> Group(<<Other>>, <<Node("west", k)>>)]
Topologies ==
  {Topology(h, m, n, k) :
      h \in {"west", "south"}, m \in {None, Other}, n \in {None, Family}, k \in {None, Other}}

FixNames == {"null_index", "malformed_arguments", "bad_filepath"}
FixesConfig == [enabled : BOOLEAN, off : SUBSET FixNames]
DefaultFixes == [enabled |-> TRUE, off |-> {}]

StatsConfig == {"50000", "0", "inf", "nan"}
DefaultStats == "50000"

StreamingMode == {"disabled", "fake", "passthrough"}

SynthesisConfig == [chunk_delay_ms : Around(MAX_CHUNK_DELAY_MS), chunk_size_chars : {0, 1}]
DefaultSynthesis == [chunk_delay_ms |-> 0, chunk_size_chars |-> 1]

AugmentBackendConfig == [enabled : BOOLEAN, url : Urls, model : {"", "aug"}]

\* A prompt file exists, does not, or has an empty name.
RepromptConfig == [enabled : BOOLEAN, prompt_file : {None, "present", "missing", ""}, prompt : {None, "go on"},
                   done_sentinels : {<<>>, <<"DONE">>, <<"DONE", "">>}, max_total_ms : Around(MAX_REPROMPT_TOTAL_MS)]

InfluxDbConfig == [enabled : BOOLEAN, url : Urls]
DefaultInflux == [enabled |-> FALSE, url |-> Url("localhost")]

DumpConfig == [enabled : BOOLEAN, path : {"", " ", "dumps"}]
DefaultDump == [enabled |-> FALSE, path |-> ""]

\* AppConfig with every optional section at its default.
Sane == [server |-> SaneServer, backend |-> None, backends |-> None, fixes |-> DefaultFixes, stats |-> DefaultStats,
         influxdb |-> DefaultInflux, streaming |-> "fake", synthesis |-> DefaultSynthesis, augment_backend |-> None,
         reprompt |-> None, dump |-> DefaultDump]

OneGroup == [g1 |-> Group(<<>>, <<Node("east", None)>>)]
WithReprompt(r, mode) == [Sane EXCEPT !.reprompt = r, !.streaming = mode]
Reprompting == {WithReprompt(r, mode) : r \in RepromptConfig, mode \in StreamingMode}

\* The configurations explored: one section at a time takes all its values, and
\* a single backend may be left over beside the groups.
AppConfig ==
  {[Sane EXCEPT !.server = s] : s \in ServerConfig}
  \cup {[Sane EXCEPT !.backend = b] : b \in BackendConfig}
  \cup {[Sane EXCEPT !.backends = g] : g \in BackendsConfig \cup Topologies}
  \cup {[Sane EXCEPT !.backends = OneGroup, !.backend = b] : b \in BackendConfig}
  \cup {[Sane EXCEPT !.fixes = f] : f \in FixesConfig}
  \cup {[Sane EXCEPT !.stats = t] : t \in StatsConfig}
  \cup {[Sane EXCEPT !.synthesis = s] : s \in SynthesisConfig}
  \cup {[Sane EXCEPT !.augment_backend = a] : a \in AugmentBackendConfig}
  \cup Reprompting
  \cup {[Sane EXCEPT !.influxdb = i] : i \in InfluxDbConfig}
  \cup {[Sane EXCEPT !.dump = d] : d \in DumpConfig}

---------------------------------------------------------------------------
\* validate.rs.

\* A trailing dot is stripped, and no label may be empty or hold another character.
is_rfc1123_hostname(labels) ==
  LET trimmed == IF Len(labels) > 1 /\ Last(labels) = "" THEN Front(labels) ELSE labels
  IN  \A l \in Range(trimmed) : l = "word"

\* The brackets are taken off before anything is looked at.
validate_bind_host(host) == host.literal # "none" \/ is_rfc1123_hostname(host.labels)

validate_http_url(url) == url.parses /\ url.scheme \in {"http", "https"} /\ url.host # ""

\* Not a number or infinite is refused, and so is what lies outside 0..=2.
validate_temperature(t) == t \notin {"nan", "-1", "3"}

validate_allowed_origins(origins) == \A o \in Range(origins) : o = "https://app"

reject_over(value, max) == value <= max

validate_synthesis(s) == reject_over(s.chunk_delay_ms, MAX_CHUNK_DELAY_MS) /\ s.chunk_size_chars >= 1

---------------------------------------------------------------------------
\* loader.rs.  Each rule says whether the section passes.

validate_server_config(s) ==
  /\ s.port # 0
  /\ s.allowed_origins # None => validate_allowed_origins(s.allowed_origins)
  /\ validate_bind_host(s.host)

validate_reprompt(r) ==
  r # None =>
    /\ ~ (r.enabled /\ r.prompt_file = None /\ r.prompt = None)
    /\ r.prompt_file \notin {"", "missing"}
    /\ "" \notin Range(r.done_sentinels)
    /\ reject_over(r.max_total_ms, MAX_REPROMPT_TOTAL_MS)

validate_stats(tps) == tps \notin {"inf", "nan"}

validate_backend_config(b) == b.timeout_seconds # 0 /\ reject_over(b.timeout_seconds, MAX_TIMEOUT_SECONDS)

ValidGroup(g) ==
  /\ \A i \in DOMAIN g.mappings : g.mappings[i] # <<>>
  /\ g.nodes # <<>>
  /\ g.strategy \in {"round_robin", "priority_free"}
  /\ reject_over(g.failure_cooldown_secs, MAX_FAILURE_COOLDOWN_SECS)
  /\ \A i \in DOMAIN g.nodes :
        /\ validate_http_url(g.nodes[i].url)
        /\ g.nodes[i].timeout_seconds # 0 /\ reject_over(g.nodes[i].timeout_seconds, MAX_TIMEOUT_SECONDS)
        /\ validate_temperature(g.nodes[i].temperature)

\* Two owners of a model, or one group that lists it twice.
MappedTwice(groups) ==
  \E g, h \in DOMAIN groups : \E i \in DOMAIN groups[g].mappings, j \in DOMAIN groups[h].mappings :
     groups[g].mappings[i] = groups[h].mappings[j] /\ <<g, i>> # <<h, j>>

validate_backends(c) ==
  IF c.backends = None
  THEN c.backend # None => validate_backend_config(c.backend) /\ validate_http_url(c.backend.url)
  ELSE /\ DOMAIN c.backends # {}
       /\ Cardinality({g \in DOMAIN c.backends : c.backends[g].mappings = <<>>}) <= 1
       /\ ~ MappedTwice(c.backends)
       /\ \A g \in DOMAIN c.backends : ValidGroup(c.backends[g])

Trimmed(path) == IF path = " " THEN "" ELSE path

\* What is found at the path: no file, one that cannot be read, one that is not a
\* configuration, or a configuration.
load_config(found) ==
  CASE found.kind = "missing" -> "NotFound"
    [] found.kind = "unreadable" -> "Io"
    [] found.kind = "malformed" -> "Parse"
    [] OTHER -> LET c == found.config IN
         IF /\ validate_server_config(c.server)
            /\ validate_reprompt(c.reprompt)
            /\ validate_backends(c)
            /\ validate_synthesis(c.synthesis)
            /\ validate_stats(c.stats)
            /\ c.augment_backend # None => validate_http_url(c.augment_backend.url) /\ c.augment_backend.model # ""
            /\ c.influxdb.enabled => validate_http_url(c.influxdb.url)
            /\ c.dump.enabled => Trimmed(c.dump.path) # ""
         THEN "Ok" ELSE "Validation"
===========================================================================
