--------------------------- MODULE CaddyHandlers ----------------------------
(***************************************************************************)
(* The directives of a site block: the lines each parser of                *)
(* caddyfile/adapter/handlers.rs and matchers.rs accepts, as tables of     *)
(* CaddyGrammar.                                                           *)
(***************************************************************************)
EXTENDS CaddyGrammar

-----------------------------------------------------------------------------
(* Static responses, variables, logging. *)

Respond == Table(Shaped(Setting(Between(1, 2, AnyWord), <<"body", "status">>), "status"),
                 "body" :> Once(One(AnyWord)) @@ "close" :> Once(Unread), None)

ErrorTable == Table(Shaped(Setting(Between(1, 2, AnyWord), <<"message", "status">>), "status"),
                    "message" :> Once(One(AnyWord)), None)

Abort == Rowless(Flag)

RedirCodes == {"permanent", "temporary", "html", "{c}", "301", "401"}
Redir == HeadOnly(Row(1, 2, "leave", AnyWord, RedirCodes))

ZeroserveCall == Table(Exactly(2, AnyWord), None, <<AtLeast(0, AnyWord)>>)

\* Either no argument or a name and a value.
Vars == Table(Shaped(Between(0, 2, AnyWord), "pair"), None, <<One(AnyWord)>>)

\* A source and its destinations; no line has more outputs than destinations.
MapTable == Table(AtLeast(2, AnyWord), "default" :> Once(AtLeast(0, AnyWord)),
                  <<As(Adds(Shaped(AtLeast(0, AnyWord), "outputs")), "mappings")>>)

LogAppend == HeadOnly(Leaving(2, AnyWord))
LogSkip == Rowless(Flag)
LogName == HeadOnly(AtLeast(0, AnyWord))

Log == Table(Setting(Between(0, 1, AnyWord), <<"name">>),
             "hostnames" :> AtLeast(1, AnyWord)
             @@ "output" :> Skipping(Row(1, 2, "drop", AnyWord, AnyWord))
             @@ Each({"format", "core"}, Skipping(Dropping(1, AnyWord)))
             @@ "sampling" :> Owning(DroppingAll, "log_sampling")
             @@ "level" :> One(AnyWord)
             @@ "no_hostname" :> Flag, None)
LogSampling == Table(DroppingAll, Each({"interval", "first", "thereafter"}, One(AnyWord)), None)

Bind == Table(AtLeast(0, AnyWord), "protocols" :> AtLeast(1, AnyWord), None)

-----------------------------------------------------------------------------
(* tls. *)

TlsModes == {"internal", "force_automate", "off", "m@h"}
TlsProtocols == {"tls1.2", "tls1.3"}
TlsCiphers == {"TLS_AES_128_GCM_SHA256"}
TlsCurves == {"x25519", "secp256r1"}
Issuers == {"acme", "internal", "zerossl"}
CertificateManagers == {"http", "tailscale"}
CaPoolSources == {"combined", "file", "http", "inline", "pki_intermediate", "pki_root", "storage", "system"}

TlsPolicyRows ==
    "protocols" :> Row(1, 2, "drop", TlsProtocols, TlsProtocols)
    @@ "ciphers" :> AtLeast(0, TlsCiphers)
    @@ "curves" :> AtLeast(0, TlsCurves)
    @@ "alpn" :> AtLeast(1, AnyWord)
    @@ "load" :> Adds(AtLeast(0, AnyWord))
    @@ "resolvers" :> AtLeast(1, AnyWord)
    @@ "client_auth" :> Adds(Owning(DroppingAll, "client_auth"))

TlsIssuanceRows ==
    Each({"ca", "ca_root", "key_type", "dns_challenge_override_domain", "insecure_secrets_log"}, One(AnyWord))
    @@ Each({"propagation_delay", "dns_ttl"}, One(TlsDurations))
    @@ "propagation_timeout" :> One(TlsDurations \cup {"-1"})
    @@ "issuer" :> Adds(Dropping(1, Issuers))
    @@ "get_certificate" :> Dropping(1, CertificateManagers)
    @@ "eab" :> Exactly(2, AnyWord)
    @@ "dns" :> Wanting(SkippingLines(Row(0, 1, "drop", AnyWord, AnyWord)), {"dns"})
    @@ Each({"on_demand", "reuse_private_keys", "force_automate"}, Flag)
    @@ "renewal_window_ratio" :> One(OpenRatios)

TlsRows == TlsPolicyRows @@ TlsIssuanceRows

\* Something must be said, and the options of a DNS challenge need its provider.
TlsTable == Implying(Needing(Table(Shaped(Between(0, 2, AnyWord \cup TlsModes), "tls"), TlsRows, None),
                             {{"head"} \cup DOMAIN TlsRows}),
                     {"resolvers", "propagation_delay", "dns_ttl", "propagation_timeout"} \X {"dns"})

ClientAuth ==
    Table(DroppingAll,
          "mode" :> One(AnyWord)
          @@ Each({"trusted_ca_cert", "trusted_ca_cert_file"}, Adds(Unless(One(AnyWord), {"trust_pool"})))
          @@ Each({"trusted_leaf_cert", "trusted_leaf_cert_file"}, One(AnyWord))
          @@ "trust_pool" :> Unless(FirstIs(AtLeast(1, AnyWord), CaPoolSources),
                                    {"trusted_ca_cert", "trusted_ca_cert_file"})
          @@ "verifier" :> Dropping(1, {"leaf"}), None)

-----------------------------------------------------------------------------
(* Request and response handling. *)

Tracing == Table(Flag, "span" :> One(AnyWord) @@ "span_attributes" :> Opening(Flag, "span_attributes"), None)
SpanAttributes == Table(Unread, None, <<One(AnyWord)>>)

BasicAuth == Table(FirstIs(Between(0, 2, AnyWord), {"bcrypt", "argon2id"}), None, <<As(Adds(One(AnyWord)), "accounts")>>)

RequestBody == Table(Unread, "max_size" :> One(ByteSizes)
                             @@ Each({"read_timeout", "write_timeout"}, One(GoDurations))
                             @@ "set" :> One(AnyWord), None)

FileServerTable ==
    Table(Setting(Between(0, 1, {"browse"}), <<"browse">>),
          "fs" :> Once(Leaving(1, AnyWord))
          @@ Each({"hide", "index", "etag_file_extensions"}, AtLeast(1, AnyWord))
          @@ "root" :> One(AnyWord)
          @@ "browse" :> Once(Opening(LeavingUpTo(1, AnyWord), "browse"))
          @@ "status" :> Leaving(1, AnyWord)
          @@ Each({"disable_canonical_uris", "pass_thru"}, Flag)
          @@ "precompressed" :> AtLeast(0, {"br", "zstd", "gzip"}), None)
Browse == Table(Unread, "reveal_symlinks" :> Once(Unread)
                        @@ "sort" :> Adds(AtLeast(0, {"name", "size", "asc"}))
                        @@ "file_limit" :> Once(One(AnyWord)), None)

CopyResponseHeaders == Table(Flag, Each({"include", "exclude"}, Adds(AtLeast(0, AnyWord))), None)
CopyResponse == Failing(Table(AtLeast(0, AnyWord), "status" :> Leaving(1, AnyWord), None))

Encoders == {"gzip", "zstd"}
Encode == Table(AtLeast(0, Encoders),
                "minimum_length" :> Leaving(1, Ints)
                @@ "match" :> Shaped(Opening(AtLeast(0, AnyWord), "response_lines"), "inline")
                @@ "gzip" :> Adds(Row(0, 1, "drop", Ints, AnyWord))
                @@ "zstd" :> Adds(Setting(Opening(Between(0, 1, {"fastest", "best"}), "zstd"), <<"level">>)), None)
Zstd == Table(Unread, "level" :> Once(One({"fastest", "best"})) @@ "disable_checksum" :> Once(Flag), None)

\* The lines of a response matcher.
ResponseLines == Table(Unread, "status" :> Adds(AtLeast(1, Statuses))
                               @@ "header" :> Adds(Shaped(Row(1, 2, "leave", AnyWord, AnyWord), "header")), None)

Templates == Failing(Table(Flag, "mime" :> AtLeast(1, AnyWord) @@ "between" :> Exactly(2, AnyWord)
                                 @@ "root" :> One(AnyWord) @@ "extensions" :> Refusing(Flag), <<Unread>>))
Metrics == Table(Flag, "disable_openmetrics" :> Flag, None)

AcmeServer == Table(Flag, "ca" :> One(AnyWord)
                          @@ "lifetime" :> Leaving(1, Durations)
                          @@ "resolvers" :> AtLeast(1, AnyWord)
                          @@ "challenges" :> Adds(AtLeast(0, AnyWord))
                          @@ "allow_wildcard_names" :> Unread
                          @@ Each({"allow", "deny"}, Opening(Unread, "acme_rules"))
                          @@ "sign_with_root" :> Flag, None)
AcmeRules == Table(Unread, Each({"domains", "ip_ranges"}, Adds(AtLeast(1, AnyWord))), None)

Invoke == Rowless(One(AnyWord))

-----------------------------------------------------------------------------
(* Upstreams of a proxy, by the scheme they name.  "http://a:443" contradicts *)
(* itself and "ws://a" is for browsers; neither is accepted.                  *)

SchemeOf == "a:1" :> "" @@ "unix/s" :> "" @@ "http://a" :> "http" @@ "https://a" :> "https" @@ "h2c://a" :> "h2c"
Upstreams == DOMAIN SchemeOf
RefusedUpstreams == {"ws://a", "http://a:443"}

\* append_upstream over a list: the scheme of each must be the one before it,
\* if that one had any.
SameScheme(ups) ==
    \A i \in DOMAIN ups : ups[i] \in Upstreams
        /\ (i = 1 \/ SchemeOf[ups[i - 1]] \in {"", SchemeOf[ups[i]]})

-----------------------------------------------------------------------------
(* php_fastcgi and reverse_proxy. *)

HeaderFields == AnyWord
HeaderOp == Adds(FirstIs(Between(1, 3, AnyWord), HeaderFields))

PhpTransportRows ==
    "root" :> Leaving(1, AnyWord)
    @@ "split" :> AtLeast(1, AnyWord)
    @@ "env" :> Adds(Exactly(2, AnyWord))
    @@ "index" :> One(AnyWord)
    @@ "try_files" :> AtLeast(1, AnyWord)
    @@ Each({"resolve_root_symlink", "capture_stderr"}, DroppingAll)
    @@ Each({"dial_timeout", "read_timeout", "write_timeout"}, Leaving(1, Durations))

ReplaceStatus == Shaped(Adds(Between(1, 2, AnyWord)), "replace")
HandleResponse == Shaped(Adds(Opening(Between(0, 1, {"@r", "@x"}), "site")), "named")
ResponseMatcher == Once(Opening(Unread, "response"))

PhpRequestRows ==
    Each({"header_up", "header_down"}, HeaderOp)
    @@ Each({"rewrite", "method"}, One(AnyWord))
    @@ "replace_status" :> ReplaceStatus
    @@ "handle_response" :> HandleResponse
    @@ "@r" :> ResponseMatcher
    @@ "to" :> As(Adds(Shaped(AtLeast(0, Upstreams \cup RefusedUpstreams), "upstreams")), "upstreams")

PhpBalancingRows ==
    "dynamic" :> Once(Via("dynamic"))
    @@ "lb_policy" :> Via("policy")
    @@ "lb_retries" :> One(Ints)
    @@ Each({"lb_try_duration", "lb_try_interval"}, One(Durations))
    @@ "lb_retry_match" :> Adds(Opening(Unread, "matchers"))

PhpHealthRows ==
    Each({"health_uri", "health_path", "health_method", "health_request_body", "health_body"}, One(AnyWord))
    @@ "health_upstream" :> One(HostPorts)
    @@ "health_port" :> Unless(One(Ints), {"health_upstream"})
    @@ "health_headers" :> Opening(Unread, "health_headers")
    @@ Each({"health_interval", "health_timeout"}, One(Durations))
    @@ "health_status" :> One(Statuses)
    @@ "health_follow_redirects" :> Flag
    @@ Each({"health_passes", "health_fails"}, One(Ints))
HealthHeaders == Table(Unread, None, <<Adds(AtLeast(0, AnyWord))>>)

PhpRuntimeRows ==
    Each({"max_fails", "unhealthy_request_count"}, One(Ints))
    @@ Each({"fail_duration", "unhealthy_latency", "flush_interval", "stream_timeout", "stream_close_delay"},
            One(Durations))
    @@ "unhealthy_status" :> AtLeast(1, Statuses)
    @@ Each({"request_buffers", "response_buffers", "stream_buffer_size"}, One(BufferSizes))
    @@ "trusted_proxies" :> Adds(AtLeast(0, AnyWord))
    @@ "verbose_logs" :> Once(Flag)

UpstreamHead == As(Shaped(AtLeast(0, Upstreams \cup RefusedUpstreams), "upstreams"), "upstreams")

PhpFastcgi == Needing(Table(UpstreamHead, PhpTransportRows @@ PhpRequestRows @@ PhpBalancingRows
                                          @@ PhpHealthRows @@ PhpRuntimeRows, None),
                      {{"upstreams", "dynamic"}})

\* reverse_proxy repeats the arms of php_fastcgi; `to` needs an upstream here, and
\* the transport may be chosen.
ReverseProxyRequestRows ==
    [PhpRequestRows EXCEPT !["to"].lo = 1]
    @@ "transport" :> Once(Via("transport"))
ReverseProxyBalancingRows == PhpBalancingRows
ReverseProxyHealthRows == PhpHealthRows
ReverseProxyRuntimeRows == PhpRuntimeRows
ReverseProxyRows == ReverseProxyRequestRows @@ ReverseProxyBalancingRows
                    @@ ReverseProxyHealthRows @@ ReverseProxyRuntimeRows
ReverseProxy == Table(UpstreamHead, ReverseProxyRows, None)

ForwardAuthRows == "uri" :> One(AnyWord)
                   @@ "copy_headers" :> Shaped(Opening(AtLeast(0, AnyWord \ {">b"}), "copy_headers"), "some")
ForwardAuth == Needing(Table(UpstreamHead, ReverseProxyRows @@ ForwardAuthRows, None), {{"uri"}})
CopyHeaders == Table(Unread, None, <<Adds(Flag)>>)

-----------------------------------------------------------------------------
(* The modules a proxy names: selection policies, transports, sources. *)

PositiveDurations == {"1", "5", "200", "1s"}

Policies == Table(Unread,
    Each({"random", "least_conn", "round_robin", "first", "ip_hash", "client_ip_hash", "uri_hash"}, Flag)
    @@ "weighted_round_robin" :> AtLeast(1, Ints \ {"-1"})
    @@ "random_choose" :> One(Ints)
    @@ Each({"query", "header"}, Opening(One(AnyWord), "fallback"))
    @@ "cookie" :> Opening(Between(0, 2, AnyWord), "cookie"), None)
FallbackBlock == Table(Unread, "fallback" :> Once(Via("policy")), None)
CookieBlock == Table(Unread, "fallback" :> Once(Via("policy"))
                             @@ "max_age" :> Once(One(PositiveDurations)), None)

Transports == Table(Unread, "http" :> Opening(Flag, "http_transport")
                            @@ "fastcgi" :> Opening(Flag, "fastcgi_transport"), <<Skipping(Flag)>>)
FastcgiTransport == Table(Unread, "split" :> AtLeast(1, AnyWord), <<Skipping(DroppingAll)>>)

HttpTransportTlsRows ==
    Each({"tls", "tls_insecure_skip_verify"}, Flag)
    @@ "tls_server_name" :> Dropping(1, AnyWord)
    @@ "tls_timeout" :> Dropping(1, Durations)
    @@ "tls_client_auth" :> Between(1, 2, AnyWord)
    @@ Each({"tls_trusted_ca_certs", "tls_curves", "tls_except_ports", "versions", "resolvers"}, AtLeast(1, AnyWord))
HttpTransportTuningRows ==
    Each({"read_buffer", "write_buffer", "max_response_header"}, Dropping(1, BufferSizes))
    @@ Each({"read_timeout", "write_timeout", "dial_timeout", "dial_fallback_delay",
             "response_header_timeout", "expect_continue_timeout", "keepalive", "keepalive_interval"},
            Dropping(1, Durations))
    @@ Each({"keepalive_idle_conns", "keepalive_idle_conns_per_host"}, Dropping(1, Ints))
    @@ "compression" :> Row(0, 1, "drop", AnyWord, AnyWord)
HttpTransportProxyRows ==
    "proxy_protocol" :> Dropping(1, {"v1", "v2"})
    @@ "forward_proxy_url" :> As(Dropping(1, AnyWord), "network_proxy")
    @@ "network_proxy" :> Via("network_proxy")
    @@ "tls_renegotiation" :> Dropping(1, {"never", "once", "freely"})
    @@ "max_conns_per_host" :> Dropping(1, Ints)
    @@ "local_address" :> Dropping(1, AnyWord)
    @@ "tls_trust_pool" :> Skipping(AtLeast(1, AnyWord))
HttpTransport == Table(Unread, HttpTransportTlsRows @@ HttpTransportTuningRows @@ HttpTransportProxyRows, None)
NetworkProxy == Table(Unread, "url" :> One(AnyWord) @@ "none" :> Flag, <<Skipping(AtLeast(0, AnyWord))>>)

DynamicRows == "srv" :> Setting(Opening(Between(0, 1, AnyWord), "srv"), <<"name">>)
               @@ "a" :> Setting(Opening(Between(0, 2, AnyWord), "a"), <<"name", "port">>)
               @@ "multi" :> Opening(Flag, "multi")
Dynamic == Table(Unread, DynamicRows, None)
DynamicMulti == Table(Unread, [w \in DOMAIN DynamicRows |-> Adds(DynamicRows[w])], None)
LookupRows == Each({"refresh", "dial_timeout", "dial_fallback_delay"}, Leaving(1, GoDurations))
              @@ "resolvers" :> AtLeast(1, AnyWord)
DynamicSrv == Table(Unread, Each({"service", "proto", "name"}, Once(Leaving(1, AnyWord)))
                            @@ "grace_period" :> Leaving(1, GoDurations) @@ LookupRows, None)
DynamicA == Table(Unread, Each({"name", "port"}, Once(Leaving(1, AnyWord)))
                          @@ "versions" :> AtLeast(1, {"ipv4", "ipv6"}) @@ LookupRows, None)

-----------------------------------------------------------------------------
(* Rewrites, headers, subroutes. *)

MethodTable == HeadOnly(One(AnyWord))

UriOps == Table(Unread,
    Each({"strip_prefix", "strip_suffix"}, One(AnyWord))
    @@ "replace" :> Shaped(Between(2, 3, AnyWord), "limit")
    @@ "path_regexp" :> Exactly(2, AnyWord)
    @@ "query" :> Shaped(Setting(Opening(Between(0, 3, AnyWord), "query_ops"), <<"args">>), "query"), None)
UriTable == HeadOnly(Via("uri_ops"))
\* apply_uri_query_ops: a deletion, an addition, a renaming, a replacement, a setting.
QueryOps == Table(Unread, None, <<As(Adds(Shaped(Unless(AtLeast(0, AnyWord), {"args"}), "query_line")), "ops")>>)

FsTable == HeadOnly(One(AnyWord))

Intercept == Table(Flag, "handle_response" :> HandleResponse
                         @@ "replace_status" :> Refusing(ReplaceStatus)
                         @@ "@r" :> ResponseMatcher, None)

Push == Table(LeavingUpTo(1, AnyWord), "headers" :> Opening(Flag, "push_headers")
                                   @@ Each({"GET", "HEAD"}, As(Adds(Leaving(1, AnyWord)), "resources")),
              <<As(Adds(Unread), "resources")>>)
PushHeaders == Table(Unread, None, <<Adds(Between(0, 2, AnyWord))>>)

Header == Table(Setting(Row(0, 3, "leave", AnyWord, AnyWord), <<"args">>),
                "defer" :> Unread @@ "match" :> Owning(Unread, "response"),
                <<Adds(Unless(Row(0, 2, "leave", AnyWord, AnyWord), {"args"}))>>)
RequestHeader == HeadOnly(FirstIs(Between(1, 3, AnyWord), HeaderFields))
Rewrite == HeadOnly(Between(1, 2, AnyWord))
TryFilesTable == Table(AtLeast(1, AnyWord),
    "policy" :> Once(Leaving(1, {"first_exist", "first_exist_fallback", "largest_size",
                                 "smallest_size", "most_recently_modified"})), <<Unread>>)
Root == HeadOnly(Between(1, 2, AnyWord))

Handle == OfDirectives(Flag)
RouteTable == OfDirectives(Flag)
HandlePath == OfDirectives(One({"/p"}))
HandleErrors == OfDirectives(AtLeast(0, {"200", "2xx"}))

-----------------------------------------------------------------------------
(* Request matchers.  A matcher may stand on several lines, which its parser *)
(* reads one after the other.                                                *)

StringList == Repeated(Adds(AtLeast(0, AnyWord)), None)
RegexpMatcher == Repeated(Once(Between(1, 2, AnyWord)), None)
QueryMatcher == Repeated(Adds(AtLeast(0, {"k=v"})), None)
HeaderMatcher == Repeated(Adds(Shaped(Row(1, 2, "leave", AnyWord, AnyWord), "header")), None)
HeaderRegexp == Repeated(Shaped(Row(2, 3, "leave", AnyWord, AnyWord), "fields"), None)
VarsRegexp == Repeated(Adds(Row(2, 3, "leave", AnyWord, AnyWord)), None)
ExpressionMatcher == HeadOnly(AtLeast(1, AnyWord))
NotMatcher == Repeated(Adds(Opening(Unread, "matchers")), None)
IpMatcher == Repeated(Adds(AtLeast(0, AnyWord)), None)
ProtocolMatcher == Repeated(Leaving(1, AnyWord), None)
TlsMatcher == Repeated(Between(0, 1, {"early_data"}), None)
FileMatcher == Repeated(As(Adds(AtLeast(0, AnyWord)), "try_files"),
                        Each({"root", "try_policy"}, Leaving(1, AnyWord))
                        @@ "try_files" :> Adds(Wanting(AtLeast(0, AnyWord), {"try_files"}))
                        @@ "split_path" :> AtLeast(1, AnyWord))
VarsMatcher == Repeated(Adds(AtLeast(2, AnyWord)), None)

\* make_matcher.
MatcherTables ==
    Each({"path", "host", "method"}, StringList) @@ "path_regexp" :> RegexpMatcher
    @@ "query" :> QueryMatcher @@ "header" :> HeaderMatcher @@ "header_regexp" :> HeaderRegexp
    @@ "expression" :> ExpressionMatcher @@ "not" :> NotMatcher @@ Each({"remote_ip", "client_ip"}, IpMatcher)
    @@ "protocol" :> ProtocolMatcher @@ "tls" :> TlsMatcher @@ "file" :> FileMatcher
    @@ "vars" :> VarsMatcher @@ "vars_regexp" :> VarsRegexp

-----------------------------------------------------------------------------
(* dispatch. *)

\* The directives that look for a request matcher only when a second argument
\* follows, and those that never do; the others look for one before their arguments.
MatcherIfTwo == {"rewrite", "root"}
NoMatcher == {"try_files", "bind", "tls", "log", "handle_path", "handle_errors"}

DirectiveTables ==
    "respond" :> Respond @@ "error" :> ErrorTable @@ "abort" :> Abort @@ "redir" :> Redir
    @@ "vars" :> Vars @@ "map" :> MapTable @@ "log_append" :> LogAppend @@ "tracing" :> Tracing
    @@ Each({"basicauth", "basic_auth"}, BasicAuth) @@ Each({"skip_log", "log_skip"}, LogSkip)
    @@ "log_name" :> LogName @@ "request_body" :> RequestBody @@ "zeroserve_call" :> ZeroserveCall
    @@ "file_server" :> FileServerTable @@ "reverse_proxy" :> ReverseProxy @@ "forward_auth" :> ForwardAuth
    @@ "method" :> MethodTable @@ "uri" :> UriTable @@ "fs" :> FsTable @@ "intercept" :> Intercept
    @@ "copy_response" :> CopyResponse @@ "copy_response_headers" :> CopyResponseHeaders
    @@ "encode" :> Encode @@ "templates" :> Templates @@ "metrics" :> Metrics @@ "push" :> Push
    @@ "invoke" :> Invoke @@ "acme_server" :> AcmeServer @@ "header" :> Header
    @@ "request_header" :> RequestHeader @@ "php_fastcgi" :> PhpFastcgi
    @@ "handle" :> Handle @@ "route" :> RouteTable
    @@ "rewrite" :> Rewrite @@ "root" :> Root
    @@ "try_files" :> TryFilesTable @@ "bind" :> Bind @@ "tls" :> TlsTable @@ "log" :> Log
    @@ "handle_path" :> HandlePath @@ "handle_errors" :> HandleErrors

\* The blocks that open inside a directive.
HandlerBlocks ==
    "log_sampling" :> LogSampling @@ "client_auth" :> ClientAuth @@ "span_attributes" :> SpanAttributes
    @@ "browse" :> Browse @@ "zstd" :> Zstd @@ "acme_rules" :> AcmeRules @@ "response_lines" :> ResponseLines
    @@ "health_headers" :> HealthHeaders @@ "copy_headers" :> CopyHeaders @@ "policy" :> Policies
    @@ "fallback" :> FallbackBlock @@ "cookie" :> CookieBlock @@ "transport" :> Transports
    @@ "http_transport" :> HttpTransport @@ "fastcgi_transport" :> FastcgiTransport
    @@ "network_proxy" :> NetworkProxy @@ "dynamic" :> Dynamic @@ "multi" :> DynamicMulti
    @@ "srv" :> DynamicSrv @@ "a" :> DynamicA @@ "uri_ops" :> UriOps @@ "query_ops" :> QueryOps
    @@ "push_headers" :> PushHeaders
=============================================================================
