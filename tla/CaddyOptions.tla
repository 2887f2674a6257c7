---------------------------- MODULE CaddyOptions ----------------------------
(***************************************************************************)
(* The global options block: the lines the parsers of                      *)
(* caddyfile/adapter/options.rs accept, as tables of CaddyGrammar.  Every  *)
(* option is a segment of its own.  `order` only rewrites the list of      *)
(* directives and is modelled in CaddyAdapter.                             *)
(***************************************************************************)
EXTENDS CaddyGrammar

\* A module's name, whatever else is on its line, and a block read line by line.
ModuleConfig == SkippingLines(Dropping(1, AnyWord))

PortOption == HeadOnly(One(Ints))
SingleString == HeadOnly(One(AnyWord))
DurationOption == HeadOnly(Leaving(1, Durations))
OffOption == HeadOnly(One({"off"}))
StorageCleanInterval == HeadOnly(One(Durations))
RenewalWindowRatio == HeadOnly(One(OpenRatios))
AutoHttps == HeadOnly(AtLeast(1, {"off", "disable_redirects", "disable_certs", "ignore_loaded_certs"}))
\* "off" stands alone; anything else is the address the endpoint listens on.
Admin == Table(Shaped(Between(0, 1, AnyWord), "off"),
               "enforce_origin" :> Unless(Unread, {"off"}) @@ "origins" :> Unless(AtLeast(0, AnyWord), {"off"}), None)
DefaultBind == Table(AtLeast(0, AnyWord), "protocols" :> AtLeast(1, AnyWord), None)
Events == Table(Flag, "on" :> Adds(SkippingLines(Dropping(2, AnyWord))), None)
Pki == Table(Flag, "ca" :> Adds(Opening(Between(0, 1, AnyWord), "pki_ca")), None)
PkiCa == Table(Unread, Each({"name", "root_cn", "intermediate_cn"}, One(AnyWord))
                       @@ Each({"intermediate_lifetime", "maintenance_interval"}, One(Durations))
                       @@ "renewal_window_ratio" :> One(Ratios)
                       @@ Each({"root", "intermediate"}, Opening(Flag, "pki_key_pair")), None)
PkiKeyPair == Table(Unread, Each({"cert", "key", "format"}, One(AnyWord)), None)
MetricsOption == Table(AtLeast(0, AnyWord), Each({"per_host", "observe_catchall_hosts", "otlp"}, AtLeast(0, AnyWord)), None)

GlobalLog == Table(Between(0, 1, AnyWord),
                   Each({"output", "core", "format"}, ModuleConfig)
                   @@ "sampling" :> Opening(DroppingAll, "global_sampling")
                   @@ "level" :> One(AnyWord)
                   @@ Each({"include", "exclude"}, AtLeast(0, AnyWord))
                   @@ "no_hostname" :> Flag, None)
GlobalLogSampling == Table(Unread, "interval" :> Dropping(1, Durations)
                                   @@ Each({"first", "thereafter"}, Dropping(1, Ints)), None)

ModuleOption == HeadOnly(ModuleConfig)
DnsOption == HeadOnly(ModuleConfig)
\* acme_dns without a provider ends there.
AcmeDnsOption == HeadOnly(SkippingLines(Row(0, 1, "drop", AnyWord, AnyWord)))

AcmeEab == Table(Flag, Each({"key_id", "mac_key"}, Dropping(1, AnyWord)), None)
OnDemandTls == Needing(Table(Flag, "ask" :> Once(As(Dropping(1, AnyWord), "permission"))
                                   @@ "permission" :> Once(ModuleConfig), None),
                       {{"permission"}})
PreferredChains == Needing(Table(Setting(Refusing(Between(0, 1, {"smallest"})), <<"smallest">>),
                                 "root_common_name" :> Unless(AtLeast(1, AnyWord), {"any_common_name"})
                                 @@ "any_common_name" :> Unless(AtLeast(1, AnyWord), {"root_common_name"}), None),
                           {{"smallest", "root_common_name", "any_common_name"}})
Ech == Table(AtLeast(1, AnyWord), "dns" :> ModuleConfig, None)
Filesystem == HeadOnly(Skipping(Leaving(2, AnyWord)))

-----------------------------------------------------------------------------
(* servers. *)

ServerIdentityRows ==
    "name" :> One(AnyWord)
    @@ Each({"listener_wrappers", "packet_conn_wrappers"}, Skipping(Unread))
    @@ "timeouts" :> Opening(Unread, "timeouts")
    @@ Each({"keepalive_interval", "keepalive_idle"}, One(Durations))
    @@ "keepalive_count" :> One(Ints)
    @@ "enable_full_duplex" :> Flag
ServerProtocolRows ==
    "protocols" :> Shaped(Refusing(AtLeast(0, {"h1", "h2", "h2c", "h3"})), "distinct")
    @@ "trusted_proxies" :> AtLeast(1, AnyWord)
    @@ Each({"trusted_proxies_strict", "trusted_proxies_unix", "log_credentials", "trace"}, Flag)
    @@ "client_ip_headers" :> Shaped(Refusing(AtLeast(0, AnyWord)), "distinct")
    @@ "max_header_size" :> One(ByteSizes)
    @@ "strict_sni_host" :> Between(0, 1, {"on", "insecure_off"})
    @@ "metrics" :> Opening(Unread, "server_metrics")
    @@ "0rtt" :> One({"off"})
Servers == Implying(Table(Setting(Between(0, 1, AnyWord), <<"listener">>),
                          ServerIdentityRows @@ ServerProtocolRows, None),
                    {<<"name", "listener">>})
Timeouts == Table(Unread, Each({"read_body", "read_header", "write", "idle"}, Leaving(1, Durations)), None)
ServerMetrics == Table(Unread, "per_host" :> Flag, None)

-----------------------------------------------------------------------------
(* evaluate_global_options. *)

UnsupportedOptions ==
    Each({"debug", "local_certs", "skip_install_trust"}, HeadOnly(Unread))
    @@ Each({"default_sni", "fallback_sni", "acme_ca_root", "key_type"}, SingleString)
    @@ Each({"grace_period", "shutdown_delay", "renew_interval", "ocsp_interval", "cert_lifetime"}, DurationOption)
    @@ Each({"storage_check", "persist_config", "ocsp_stapling"}, OffOption)
    @@ "admin" :> Admin @@ "auto_https" :> AutoHttps @@ "default_bind" :> DefaultBind
    @@ "storage_clean_interval" :> StorageCleanInterval @@ "tls_resolvers" :> HeadOnly(AtLeast(1, AnyWord))
    @@ "renewal_window_ratio" :> RenewalWindowRatio @@ "pki" :> Pki @@ "events" :> Events
    @@ "metrics" :> MetricsOption @@ "log" :> GlobalLog @@ Each({"storage", "cert_issuer"}, ModuleOption)
    @@ "on_demand_tls" :> OnDemandTls @@ "preferred_chains" :> PreferredChains @@ "ech" :> Ech

OptionTables ==
    Each({"http_port", "https_port"}, PortOption) @@ Each({"email", "acme_ca"}, SingleString)
    @@ "servers" :> Servers @@ "filesystem" :> Filesystem @@ "acme_eab" :> AcmeEab
    @@ "acme_dns" :> AcmeDnsOption @@ "dns" :> DnsOption @@ UnsupportedOptions

OptionBlocks ==
    "pki_ca" :> PkiCa @@ "pki_key_pair" :> PkiKeyPair @@ "global_sampling" :> GlobalLogSampling
    @@ "timeouts" :> Timeouts @@ "server_metrics" :> ServerMetrics
=============================================================================
