--------------------------- MODULE MCCommandLine ----------------------------
(* Command lines, and what their --config names.                           *)
EXTENDS CommandLine

Str(text) == Scalar("string", text)

NoFile  == [status |-> "none", doc |-> EmptyTable]
Broken  == [status |-> "broken", doc |-> EmptyTable]
Read(f) == [status |-> "read", doc |-> Table(f)]

MCConfigs ==
    {NoFile, Broken,
     Read(("profiler" :> Table(("output_format" :> Str("CSV"))
                                 @@ ("output_file" :> Str("out"))
                                 @@ ("use_root" :> Scalar("boolean", "true"))))
            @@ ("sources" :> Table("cgroup" :> Table(
                    ("ignore_on_failure" :> Scalar("boolean", "true"))
                      @@ ("poll_interval" :> Str("10ms"))
                      @@ ("create_cgroup" :> Scalar("boolean", "false")))))),
     Read("sources" :> Table(("rapl" :> EmptyTable) @@ ("nvlm" :> EmptyTable))),
     Read(("profiler" :> Table(("rapl_backend" :> Str("powercap"))
                                 @@ ("stdout_file" :> Str("log"))))
            @@ ("sources" :> Table(("rapl" :> Table(
                    ("sockets_spec" :> Scalar("array", "[0]"))
                      @@ ("unknown" :> Scalar("boolean", "true"))))
                  @@ ("perf" :> EmptyTable)))),
     Read("profilr" :> EmptyTable),
     Read("profiler" :> Table("output_fromat" :> Str("json")))}

Define(key, text) == [assigns |-> TRUE, key |-> key, text |-> text]

MCOverrides ==
    {Define(<<"profiler", "output_format">>, "json"),
     Define(<<"profiler", "output_format">>, "42"),
     Define(<<"profiler", "output_fromat">>, "json"),
     Define(<<"profiler", "use_root">>, "false"),
     Define(<<"profiler">>, "{rapl_backend='powercap'}"),
     Define(<<"profiler">>, "{rapl_backnd='powercap'}"),
     Define(<<"profiler">>, "5"),
     Define(<<"sources", "cgroup", "create_cgroup">>, "true"),
     Define(<<"sources", "cgroup", "poll_interval">>, "soon"),
     Define(<<"sources", "rapl", "ignore_on_failure">>, "true"),
     Define(<<"sources", "rapl", "sockets_spec">>, "[1]"),
     Define(<<"sources", "rapl", "sockets_spec", "first">>, "5"),
     Define(<<"sources", "rapl">>, "{}"),
     Define(<<"sources">>, "{}"),
     Define(<<"sources">>, "{nvlm={}}"),
     Define(<<"sources", "perff", "events">>, "[0]"),
     Define(<<"profiler", "", "use_root">>, "true"),
     [assigns |-> FALSE, key |-> <<"profiler">>, text |-> ""]}

OverrideLists ==
    {<<>>} \cup {<<a>> : a \in MCOverrides} \cup {<<a, b>> : a \in MCOverrides, b \in MCOverrides}

\* The rest of a command line.
Rest ==
    {[command |-> "profile", sources |-> <<>>, flags |-> <<>>, use_root |-> FALSE],
     [command |-> "profile", sources |-> <<"perf_event", "rapl">>,
      flags |-> ("output_format" :> "json") @@ ("stdout_file" :> "log"), use_root |-> TRUE],
     [command |-> "profile", sources |-> <<"perf", "perf_event">>,
      flags |-> <<>>, use_root |-> FALSE],
     [command |-> "profile", sources |-> <<"procfs">>,
      flags |-> ("output_file" :> "nowhere") @@ ("stdout_file" :> "out")
                  @@ ("token_pattern" :> "x") @@ ("init_timeout" :> "5s"), use_root |-> FALSE],
     [command |-> "list", sources |-> <<"nvml">>,
      flags |-> ("output_file" :> "out"), use_root |-> FALSE],
     [command |-> "list", sources |-> <<"energy">>, flags |-> <<>>, use_root |-> FALSE]}

MCArguments ==
    {[command |-> r.command, sources |-> r.sources, flags |-> r.flags,
      use_root |-> r.use_root, config |-> c, overrides |-> o] :
        r \in Rest, c \in MCConfigs, o \in OverrideLists}

MCUnavailable == {{}, {"rapl"}, {"cgroup", "perf"}}

MCMetricNames ==
    [id \in SourceIds |->
        CASE id = "rapl" -> <<2, 1>> [] id = "cgroup" -> <<1, 3>>
          [] id = "perf" -> <<2>> [] OTHER -> <<1, 2>>]

\* "NVML" < "RAPL" < "amdsmi" < "cgroup" < "perf_event" < "procfs"
NameRank == [nvml |-> 1, rapl |-> 2, amdsmi |-> 3, cgroup |-> 4, perf |-> 5, procfs |-> 6]

MCNamedBefore == {<<a, b>> \in SourceIds \X SourceIds : NameRank[a] < NameRank[b]}

=============================================================================
