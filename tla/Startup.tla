------------------------------- MODULE Startup -------------------------------
(***************************************************************************)
(* The llama-proxy command (main.rs) up to the bound listener: the file is *)
(* loaded, the command line overrides it, what was merged is validated,    *)
(* the exporter is built, every backend node is probed concurrently        *)
(* (backends/preflight.rs), and run_server (proxy/server.rs) builds the    *)
(* balancer and its optional parts and binds.  list-fixes, check-config    *)
(* and test-backend share the loader.                                      *)
(***************************************************************************)
EXTENDS Settings
LOCAL INSTANCE SequencesExt
LOCAL INSTANCE FiniteSetsExt

CONSTANTS Hosts, NCtx   \* the servers' names; the n_ctx a llama.cpp server reports

VARIABLES
  cmd,       \* the subcommand
  built,     \* the cargo features compiled in
  found,     \* what is at the configuration path
  cli,       \* the overrides of `run`
  world,     \* host -> what its /v1/models lists
  llama,     \* the hosts whose Server header says llama.cpp
  boot,      \* the stage reached
  settings,  \* the configuration in force
  exporters, \* ExporterManager
  probe,     \* node -> its preflight
  windows,   \* host -> the context window cached under its URL
  testing,   \* test-backend: nodes left, failures
  shown,     \* what was printed or logged of the configuration
  serving,   \* what ProxyState holds
  why        \* why the process ended

startupVars == <<cmd, built, found, cli, world, llama, boot, settings, exporters, probe, windows, testing,
                 shown, serving, why>>
inputVars == <<cmd, built, found, cli, world, llama>>

NoOverrides == [port |-> None, backend_url |-> None, streaming_mode |-> None, dump |-> None]
Overrides == [port : {None, 0, 2}, backend_url : {None, Url("west"), Url("")}, streaming_mode : {None, "fake", "bogus"},
              dump : {None, " ", "dumps"}]

Listed(id, len) == [id |-> id, max_model_len |-> len]
Lists == {<<>>, <<Listed(Model, 2)>>, <<Listed(Model, 2), Listed(Other, 1)>>}
Quiet == [h \in Hosts |-> <<Listed(Model, 2)>>]

\* Where each field of a configuration matters it varies with the rest at rest.
Init ==
  /\ \/ /\ cmd \in {"run", "list-fixes", "check-config", "test-backend"}
        /\ built \in BOOLEAN
        /\ found \in {[kind |-> k] : k \in {"missing", "unreadable", "malformed"}}
                     \cup {[kind |-> "parsed", config |-> c] : c \in AppConfig}
        /\ cli = NoOverrides /\ world = Quiet /\ llama = {}
     \/ /\ cmd = "run" /\ built = FALSE
        /\ found \in {[kind |-> "parsed", config |-> c] :
                        c \in {Sane, [Sane EXCEPT !.backend = DefaultBackend],
                               [Sane EXCEPT !.backends = OneGroup]}}
        /\ cli \in Overrides /\ world = Quiet /\ llama = {}
     \/ /\ cmd = "run" /\ built = FALSE
        /\ found \in {[kind |-> "parsed", config |-> [Sane EXCEPT !.backends = t]] : t \in Topologies}
        /\ cli = NoOverrides /\ world \in [Hosts -> Lists] /\ llama \in SUBSET {"west"}
  /\ boot = "start" /\ settings = Sane /\ exporters = {} /\ probe = <<>>
  /\ windows = [h \in Hosts |-> None]
  /\ testing = [left |-> {}, failures |-> 0] /\ shown = None /\ serving = None
  /\ why = "running"

\* std::process::exit, or an error returned from main.
Exit(reason) == boot' = "exited" /\ why' = reason

---------------------------------------------------------------------------
\* main.rs.

\* The nodes of the configuration: group and index, or the single backend.
NodeIds(c) ==
  IF c.backends # None
  THEN UNION {{<<g, i>> : i \in DOMAIN c.backends[g].nodes} : g \in DOMAIN c.backends}
  ELSE IF c.backend # None THEN {<<"single", 1>>} ELSE {}
NodeAt(c, n) == IF c.backends # None THEN c.backends[n[1]].nodes[n[2]] ELSE c.backend

\* The constructed registry; spellings are resolved in ResponseFixes.
Constructed(fixes) == IF fixes.enabled THEN FixNames \ fixes.off ELSE {}

\* list-fixes: a module is shown as enabled iff it was constructed.
fix_module_states(fixes) == [f \in FixNames |-> f \in Constructed(fixes)]

\* What the passthrough mode leaves undone although it is configured, which is warned of.
gives_up(c) ==
  {f \in {"fixes", "reprompt"} :
     /\ c.streaming = "passthrough"
     /\ f = "fixes" => c.fixes.enabled
     /\ f = "reprompt" => c.reprompt # None /\ c.reprompt.enabled}

\* What check-config prints and run logs: the address, where requests go, the mode
\* and what is exported.
render_config_summary(c) ==
  [listen |-> <<c.server.host, c.server.port>>,
   nodes |-> {<<n, NodeAt(c, n).url>> : n \in NodeIds(c)},
   fixes |-> c.fixes, streaming |-> c.streaming, gives_up |-> gives_up(c), influxdb |-> c.influxdb]

\* load_config_or_exit, and the subcommands that need nothing more.
Load ==
  /\ boot = "start"
  /\ LET verdict == load_config(found) IN
     IF cmd = "list-fixes" /\ found.kind = "missing"
     THEN Exit("listed") /\ shown' = fix_module_states(DefaultFixes) /\ UNCHANGED <<settings, testing>>
     ELSE IF verdict # "Ok" THEN Exit(verdict) /\ UNCHANGED <<settings, testing, shown>>
     ELSE LET c == found.config IN
          /\ settings' = c
          /\ CASE cmd = "list-fixes" -> Exit("listed") /\ shown' = fix_module_states(c.fixes) /\ UNCHANGED testing
               [] cmd = "check-config" -> Exit("valid") /\ shown' = render_config_summary(c) /\ UNCHANGED testing
               [] cmd = "test-backend" -> /\ boot' = "testing" /\ UNCHANGED <<why, shown>>
                                          /\ testing' = [testing EXCEPT !.left = NodeIds(c)]
               [] OTHER -> boot' = "loaded" /\ UNCHANGED <<why, shown, testing>>
  /\ UNCHANGED <<inputVars, exporters, probe, windows, serving>>

\* /health must succeed, and /v1/models must succeed with a list.
probe_one_node(health, models) ==
  (IF health = "2xx" THEN 0 ELSE 1) + (IF models = "list" THEN 0 ELSE 1)

\* test_backend, one node after the other; a client that cannot be built is an error.
TestNode ==
  /\ boot = "testing"
  /\ \E n \in testing.left, health \in {"2xx", "5xx", "error"}, models \in {"list", "not a list", "5xx", "error"} :
       IF NodeAt(settings, n).tls = "unreadable" THEN Exit("client") /\ UNCHANGED testing
       ELSE /\ testing' = [left |-> testing.left \ {n}, failures |-> testing.failures + probe_one_node(health, models)]
            /\ UNCHANGED <<boot, why>>
  /\ UNCHANGED <<inputVars, settings, exporters, probe, windows, shown, serving>>

TestEnds ==
  /\ boot = "testing" /\ testing.left = {}
  /\ Exit(IF testing.failures > 0 THEN "probes failed" ELSE "tested")
  /\ UNCHANGED <<inputVars, settings, exporters, probe, windows, testing, shown, serving>>

\* The command line wins over the file, the file over the default.
resolve(override, configured) ==
  CASE override = None -> configured
    [] override \in StreamingMode -> override
    [] OTHER -> "invalid"

\* --backend-url is ignored in group mode and makes a backend where there is none.
WithBackendUrl(c, url) ==
  IF url = None \/ c.backends # None THEN c
  ELSE IF c.backend # None THEN [c EXCEPT !.backend.url = url]
  ELSE [c EXCEPT !.backend = [DefaultBackend EXCEPT !.url = url]]

\* run_proxy, up to validate_final.
Override ==
  /\ boot = "loaded"
  /\ LET mode == resolve(cli.streaming_mode, settings.streaming)
         listening == IF cli.port = None THEN settings ELSE [settings EXCEPT !.server.port = cli.port]
         merged == [WithBackendUrl(listening, cli.backend_url) EXCEPT !.streaming = mode]
     IN  IF mode = "invalid" THEN Exit("streaming mode") /\ UNCHANGED <<settings, shown>>
         ELSE /\ settings' = IF cli.dump = None THEN merged
                             ELSE [merged EXCEPT !.dump = [enabled |-> TRUE, path |-> cli.dump]]
              /\ shown' = render_config_summary(merged)
              /\ boot' = "merged" /\ UNCHANGED why
  /\ UNCHANGED <<inputVars, exporters, probe, windows, testing, serving>>

\* Mutant: only the loader looks at the port.
validate_final_bug(c) ==
  /\ c.backend # None => validate_http_url(c.backend.url)
  /\ c.augment_backend # None => validate_http_url(c.augment_backend.url)

\* The single backend's URL is looked at in group mode, too.
validate_final(c) ==
  /\ c.server.port # 0
  /\ c.backend # None => validate_http_url(c.backend.url)
  /\ c.augment_backend # None => validate_http_url(c.augment_backend.url)

ValidateFinal ==
  /\ boot = "merged"
  /\ IF validate_final(settings) THEN boot' = "validated" /\ UNCHANGED why ELSE Exit("final validation")
  /\ UNCHANGED <<inputVars, settings, exporters, probe, windows, testing, shown, serving>>

\* An exporter that is not compiled in is fatal; one that cannot be built is not.
influxdb_startup_gate(c) == c.influxdb.enabled /\ ~ built
checked_client_url(url) == url.parses /\ url.scheme \in {"http", "https"}

AddExporter ==
  /\ boot = "validated"
  /\ IF influxdb_startup_gate(settings) THEN Exit("not built") /\ UNCHANGED exporters
     ELSE /\ exporters' = IF settings.influxdb.enabled /\ checked_client_url(settings.influxdb.url)
                          THEN {"influxdb"} ELSE {}
          /\ boot' = "preflight" /\ UNCHANGED why
  /\ probe' = [n \in NodeIds(settings) |-> [at |-> "fetch", auto_model |-> None, window |-> None]]
  /\ UNCHANGED <<inputVars, settings, windows, testing, shown, serving>>

---------------------------------------------------------------------------
\* preflight.rs.

\* The longest id that extends the name or that the name extends, the larger
\* window among equals; without such an id the largest window.
select_max_model_len(entries, name) ==
  LET scored == {i \in DOMAIN entries : entries[i].max_model_len # None}
      matching == {i \in scored : /\ name # None
                                  /\ IsPrefix(name, entries[i].id) \/ IsPrefix(entries[i].id, name)}
      best == IF matching = {} THEN scored
              ELSE {i \in matching : \A j \in matching : Len(entries[i].id) >= Len(entries[j].id)}
  IN  IF best = {} THEN None ELSE Max({entries[i].max_model_len : i \in best})

\* A node that lists one model and was given none takes it.
AutoModel(n, entries) ==
  IF settings.backends # None /\ Len(entries) = 1 /\ NodeAt(settings, n).model = None THEN entries[1].id ELSE None

\* The answer to /v1/models, and the cache consulted: nothing is awaited between
\* the two unless the window has to be asked of /props.
FetchModels(n) ==
  LET cfg == NodeAt(settings, n)
      host == cfg.url.host
      entries == world[host]
      own == IF host \in llama THEN NCtx ELSE select_max_model_len(entries, cfg.model)
      learnt == [at |-> "done", auto_model |-> AutoModel(n, entries), window |-> own]
  IN  /\ boot = "preflight" /\ n \in DOMAIN probe /\ probe[n].at = "fetch"
      /\ cfg.tls # "unreadable"
      /\ IF windows[host] # None THEN probe' = [probe EXCEPT ![n] = learnt] /\ UNCHANGED windows
         ELSE IF host \in llama
         THEN probe' = [probe EXCEPT ![n] = [learnt EXCEPT !.at = "props"]] /\ UNCHANGED windows
         ELSE probe' = [probe EXCEPT ![n] = learnt] /\ windows' = [windows EXCEPT ![host] = own]
      /\ UNCHANGED <<inputVars, boot, settings, exporters, testing, shown, serving, why>>

\* No client, no answer in time, an error status, too much or no JSON: the node is
\* skipped, and startup goes on.
ProbeFails(n) ==
  /\ boot = "preflight" /\ n \in DOMAIN probe /\ probe[n].at = "fetch"
  /\ probe' = [probe EXCEPT ![n].at = "skipped"]
  /\ UNCHANGED <<inputVars, boot, settings, exporters, windows, testing, shown, serving, why>>

\* /props answers or not, and the window is written over what is there.
FetchProps(n) ==
  /\ boot = "preflight" /\ n \in DOMAIN probe /\ probe[n].at = "props"
  /\ \E ok \in BOOLEAN :
       /\ windows' = IF ok THEN [windows EXCEPT ![NodeAt(settings, n).url.host] = NCtx] ELSE windows
       /\ probe' = [probe EXCEPT ![n].at = "done", ![n].window = IF ok THEN @ ELSE None]
  /\ UNCHANGED <<inputVars, boot, settings, exporters, testing, shown, serving, why>>

\* All probes have ended; what they found is written to the nodes they probed.
Applied_bug(g, i) == LET flat == {n \in NodeIds(settings) : probe[n].auto_model # None}
                     IN  IF flat = {} THEN settings.backends[g].nodes[i].model ELSE probe[CHOOSE n \in flat : TRUE].auto_model
Applied(g, i) ==
  IF probe[<<g, i>>].auto_model # None THEN probe[<<g, i>>].auto_model ELSE settings.backends[g].nodes[i].model

Discovered(B) ==
  [g \in DOMAIN B |-> [B[g] EXCEPT !.nodes =
     [i \in DOMAIN B[g].nodes |-> [B[g].nodes[i] EXCEPT !.model = Applied(g, i)]]]]

PreflightEnds ==
  /\ boot = "preflight" /\ \A n \in DOMAIN probe : probe[n].at \in {"done", "skipped"}
  /\ settings' = IF settings.backends = None THEN settings
                 ELSE [settings EXCEPT !.backends = Discovered(settings.backends)]
  /\ boot' = "balance"
  /\ UNCHANGED <<inputVars, exporters, probe, windows, testing, shown, serving, why>>

---------------------------------------------------------------------------
\* server.rs.

\* Both spellings are understood here; the loader has let only one pass.
BalancingStrategy(s) ==
  CASE s \in {"priority-free", "priority_free"} -> "PriorityFree"
    [] s \in {"round-robin", "round_robin"} -> "RoundRobin"
    [] OTHER -> "unknown"

\* A node's client needs its certificates, a group its strategy.
BuildBalancer ==
  /\ boot = "balance"
  /\ IF \/ \E n \in NodeIds(settings) : NodeAt(settings, n).tls = "unreadable"
        \/ settings.backends # None
           /\ \E g \in DOMAIN settings.backends : BalancingStrategy(settings.backends[g].strategy) = "unknown"
     THEN Exit("balancer") ELSE boot' = "state" /\ UNCHANGED why
  /\ UNCHANGED <<inputVars, settings, exporters, probe, windows, testing, shown, serving>>

\* The origins whose requests may be answered across origins: all, or those listed.
build_cors_layer(origins) == IF origins = None THEN "any" ELSE {o \in Range(origins) : o \notin {"*", "with\ncontrol"}}

\* ProxyState.  The augment backend and the reprompt engine are optional: what cannot
\* be built (a client, a prompt file that has gone or is blank) is left out.
BuildState ==
  /\ boot = "state"
  /\ \E augment, engine \in BOOLEAN :
       /\ augment => settings.augment_backend # None /\ settings.augment_backend.enabled
       /\ engine => settings.reprompt # None /\ settings.reprompt.enabled
       /\ serving' = [augment |-> augment, reprompt |-> engine, addr |-> None,
                      dump |-> IF settings.dump.enabled /\ settings.dump.path # "" THEN settings.dump.path ELSE None,
                      fixes |-> Constructed(settings.fixes), cors |-> build_cors_layer(settings.server.allowed_origins),
                      permits |-> IF settings.server.max_concurrent_requests > 0
                                  THEN settings.server.max_concurrent_requests ELSE None]
  /\ boot' = "bind"
  /\ UNCHANGED <<inputVars, settings, exporters, probe, windows, testing, shown, why>>

prefer_loopback(addrs) ==
  SelectSeq(addrs, LAMBDA a : a = "loopback") \o SelectSeq(addrs, LAMBDA a : a # "loopback")

\* A literal is used as it is; a name must pass the loader's rule again and resolve.
InvalidInput(host) == host.literal = "none" /\ ~ validate_bind_host(host)
resolve_bind_addr(host, resolved) ==
  IF host.literal # "none" THEN <<"literal">> ELSE prefer_loopback(resolved)

\* bind_addr: the first candidate that can be bound.
Bind ==
  /\ boot = "bind"
  /\ \E resolved \in {<<>>, <<"loopback">>, <<"public", "loopback">>}, free \in SUBSET {"literal", "loopback", "public"} :
       LET candidates == resolve_bind_addr(settings.server.host, resolved)
           bindable == SelectSeq(candidates, LAMBDA a : a \in free)
       IN  IF InvalidInput(settings.server.host) THEN Exit("host") /\ UNCHANGED serving
           ELSE IF bindable = <<>> THEN Exit("bind") /\ UNCHANGED serving
           ELSE /\ boot' = "serving" /\ UNCHANGED why
                /\ serving' = [serving EXCEPT !.addr = bindable[1]]
  /\ UNCHANGED <<inputVars, settings, exporters, probe, windows, testing, shown>>

Next ==
  \/ Load \/ TestNode \/ TestEnds \/ Override \/ ValidateFinal \/ AddExporter
  \/ \E n \in DOMAIN probe : FetchModels(n) \/ ProbeFails(n) \/ FetchProps(n)
  \/ PreflightEnds \/ BuildBalancer \/ BuildState \/ Bind

Spec == Init /\ [][Next]_startupVars

---------------------------------------------------------------------------

Dialled(c) == {NodeAt(c, n) : n \in NodeIds(c)}
Maps(group, m) == \E i \in DOMAIN group.mappings : group.mappings[i] = m

\* What serves may be relied on by the request path: every URL it will dial is an http
\* URL, no timeout, cooldown or budget can overflow the clock, a model has one owner,
\* an exporter that was asked for is there, and the log describes what serves.  The file,
\* the command line, the loader, validate_final, the gate and the builders each see to a
\* part.  And "whatever the loader accepts must bind": the binder refuses no host that
\* the loader let pass.
ServesWhatWasChecked ==
  /\ why # "host"
  /\ boot = "serving" =>
    /\ shown = render_config_summary(settings)
    /\ settings.server.port # 0
    /\ \A n \in Dialled(settings) : /\ validate_http_url(n.url)
                                    /\ n.timeout_seconds \in 1 .. MAX_TIMEOUT_SECONDS
    /\ settings.reprompt # None => settings.reprompt.max_total_ms <= MAX_REPROMPT_TOTAL_MS
    /\ settings.influxdb.enabled => exporters # {}
    /\ settings.backends # None =>
         /\ \A g \in DOMAIN settings.backends :
              settings.backends[g].failure_cooldown_secs <= MAX_FAILURE_COOLDOWN_SECS
         /\ \A g, h \in DOMAIN settings.backends : \A m \in {Model, Other} :
              Maps(settings.backends[g], m) /\ Maps(settings.backends[h], m) => g = h

\* preflight.rs: whatever the order of the answers, a node forwards the model it was
\* configured with, or else the only one its own server listed, or else what the client
\* asked for.
ModelsAsDiscovered ==
  boot \in {"balance", "state", "bind", "serving"} /\ settings.backends # None =>
    \A n \in NodeIds(settings) :
      LET given == NodeAt(found.config, n)
          held == NodeAt(settings, n).model
      IN  IF given.model # None THEN held = given.model
          ELSE held = IF probe[n].at = "done" /\ Len(world[given.url.host]) = 1
                      THEN world[given.url.host][1].id ELSE None

\* preflight.rs, "per-node work is independent": the window cached for a node's server is
\* the one its own probe found.
NodesAreIndependent ==
  boot = "balance" =>
    \A n \in DOMAIN probe : probe[n].at = "done" /\ probe[n].window # None
                            => windows[NodeAt(settings, n).url.host] = probe[n].window
===========================================================================
