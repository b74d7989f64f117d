---------------------------- MODULE ConfigTable -----------------------------
(***************************************************************************)
(* The configuration of joule-profiler (cli/src/config): a TOML document,  *)
(* the -D overrides written into it, its deserialisation, the flags that   *)
(* override it, and the sections that the sources take out of it.          *)
(*                                                                         *)
(* A TOML value is a table or a scalar; a scalar keeps its kind and its    *)
(* text.  An optional result is a sequence of at most one element.         *)
(***************************************************************************)
EXTENDS Naturals, SequencesExt

Table(f)           == [kind |-> "table", of |-> f]
Scalar(kind, text) == [kind |-> kind, text |-> text]
EmptyTable         == Table(<<>>)
IsTable(v)         == v.kind = "table"

Put(f, key, v) == [k \in DOMAIN f \cup {key} |-> IF k = key THEN v ELSE f[k]]

-----------------------------------------------------------------------------
(* Overrides                                                               *)
-----------------------------------------------------------------------------

\* parse_value: a bare text as toml reads it; one that it cannot read is a string.
ParseValue(raw) ==
    CASE raw \in {"true", "false"} -> Scalar("boolean", raw)
      [] raw \in {"5", "42"} -> Scalar("integer", raw)
      [] raw \in {"[0]", "[1]"} -> Scalar("array", raw)
      [] raw = "{}" -> EmptyTable
      [] raw = "{rapl_backend='powercap'}" ->
            Table([rapl_backend |-> Scalar("string", "powercap")])
      [] raw = "{rapl_backnd='powercap'}" ->
            Table([rapl_backnd |-> Scalar("string", "powercap")])
      [] raw = "{nvlm={}}" -> Table([nvlm |-> EmptyTable])
      [] OTHER -> Scalar("string", raw)

(***************************************************************************)
(* ConfigOverride::from_str of KEY=VALUE: "assigns" tells whether there is *)
(* an equals sign, and "key" is the key between its dots.                  *)
(***************************************************************************)
OverrideReads(raw) == raw.assigns /\ "" \notin Range(raw.key)

OverrideOf(raw) == [path |-> raw.key, value |-> ParseValue(raw.text)]

\* An entry of a table; one that is missing is created as a table.
Entry(v, key) ==
    IF ~ IsTable(v) THEN v
    ELSE IF key \in DOMAIN v.of THEN v.of[key] ELSE EmptyTable

\* The value at a path of a document.
NodeAt(root, path) ==
    LET node[i \in 0 .. Len(path)] ==
            IF i = 0 THEN root ELSE Entry(node[i - 1], path[i])
    IN  node[Len(path)]

Traversed(override) ==
    {SubSeq(override.path, 1, i) : i \in 0 .. Len(override.path) - 1}

\* Seeded fault: the last table is replaced, not changed.
ApplyReplacing(override, root) ==
    LET path  == override.path
        depth == Len(path)
        written[i \in 0 .. depth] ==
            IF i = 0 THEN override.value
            ELSE IF i = 1 THEN Table(path[depth] :> override.value)
            ELSE Table(Put(NodeAt(root, SubSeq(path, 1, depth - i)).of,
                           path[depth - i + 1], written[i - 1]))
    IN  IF \E p \in Traversed(override) : ~ IsTable(NodeAt(root, p)) THEN <<>>
        ELSE <<written[depth]>>

(***************************************************************************)
(* ConfigOverride::apply; no result if the path goes through a scalar.     *)
(* "written" is built from the value outwards: written[i] is what i of the *)
(* tables on the path enclose.                                             *)
(***************************************************************************)
Apply(override, root) ==
    LET path  == override.path
        depth == Len(path)
        written[i \in 0 .. depth] ==
            IF i = 0 THEN override.value
            ELSE Table(Put(NodeAt(root, SubSeq(path, 1, depth - i)).of,
                           path[depth - i + 1], written[i - 1]))
    IN  IF \E p \in Traversed(override) : ~ IsTable(NodeAt(root, p)) THEN <<>>
        ELSE <<written[depth]>>

-----------------------------------------------------------------------------
(* Deserialisation                                                         *)
-----------------------------------------------------------------------------

OutputFormats == {"terminal", "json", "csv"}

\* The names of the variants and their aliases.
NamesOf ==
    [terminal |-> {"Terminal", "terminal", "term", "TERM"},
     json |-> {"Json", "json", "JSON"}, csv |-> {"Csv", "csv", "CSV"}]

FormatNamed ==
    [x \in UNION {NamesOf[f] : f \in OutputFormats} |->
        CHOOSE f \in OutputFormats : x \in NamesOf[f]]

RaplBackends == {"perf", "powercap"}

\* Texts that humantime reads.
Durations == {"1s", "5s", "10ms"}

Absent == "absent"

ProfilerDefault ==
    [stdout_file |-> Absent, token_pattern |-> "__[A-Z0-9_]+__",
     use_root |-> "false", output_file |-> Absent, output_format |-> "terminal",
     init_timeout |-> "1s", rapl_backend |-> "perf"]

ProfilerKeys == DOMAIN ProfilerDefault

ReadsAs(key, v) ==
    IF key = "use_root" THEN v.kind = "boolean"
    ELSE /\ v.kind = "string"
         /\ key = "output_format" => v.text \in DOMAIN FormatNamed
         /\ key = "init_timeout" => v.text \in Durations
         /\ key = "rapl_backend" => v.text \in RaplBackends

ValueFor(key, v) == IF key = "output_format" THEN FormatNamed[v.text] ELSE v.text

\* Seeded fault: unknown fields are dropped.
ProfilerReadsLeniently(v) ==
    IsTable(v) /\ \A k \in ProfilerKeys \cap DOMAIN v.of : ReadsAs(k, v.of[k])

\* ProfilerConfig, which denies unknown fields.
ProfilerReads(v) ==
    /\ IsTable(v) /\ DOMAIN v.of \subseteq ProfilerKeys
    /\ \A k \in DOMAIN v.of : ReadsAs(k, v.of[k])

ProfilerConfig(v) ==
    [k \in ProfilerKeys |->
        IF k \in DOMAIN v.of THEN ValueFor(k, v.of[k]) ELSE ProfilerDefault[k]]

\* GlobalConfig, which denies unknown fields too.
GlobalConfig(root) ==
    LET profiler == NodeAt(root, <<"profiler">>)
        sources  == NodeAt(root, <<"sources">>)
    IN  IF /\ DOMAIN root.of \subseteq {"profiler", "sources"}
           /\ ProfilerReads(profiler) /\ IsTable(sources)
        THEN <<[profiler |-> ProfilerConfig(profiler), sources |-> sources.of]>>
        ELSE <<>>

-----------------------------------------------------------------------------
(* The table                                                               *)
-----------------------------------------------------------------------------

\* Source, its names, and the alias of one of them.
SourceIds == {"rapl", "perf", "cgroup", "procfs", "nvml", "amdsmi"}

SourceNamed ==
    [x \in SourceIds \cup {"perf_event"} |-> IF x = "perf_event" THEN "perf" ELSE x]

DefaultSources == <<"rapl">>

\* ConfigTable::new
NewTable(global, sources) ==
    [profiler |-> global.profiler, sources |-> global.sources,
     enabled |-> DOMAIN global.sources \cup Range(sources)]

\* The flags that override a key; those of the subcommand only with profile.
FlagKeys(command) ==
    {"output_format", "output_file"} \cup
    IF command = "profile"
    THEN {"stdout_file", "token_pattern", "init_timeout"} ELSE {}

\* Seeded fault: the configuration has the last word.
ApplyCliBelow(table, cli) ==
    [table EXCEPT !.profiler =
        [k \in ProfilerKeys |->
            IF k \in FlagKeys(cli.command) \cap DOMAIN cli.flags
                 /\ table.profiler[k] = ProfilerDefault[k]
            THEN cli.flags[k] ELSE table.profiler[k]]]

\* ConfigTable::apply_cli; --use-root can only be added to the configuration.
ApplyCli(table, cli) ==
    [table EXCEPT !.profiler =
        [k \in ProfilerKeys |->
            IF k \in FlagKeys(cli.command) \cap DOMAIN cli.flags THEN cli.flags[k]
            ELSE IF k = "use_root" /\ cli.command = "profile" /\ cli.use_root THEN "true"
            ELSE table.profiler[k]]]

\* CgroupConfig
CgroupKeys == {"cgroup_root", "cgroup_name", "poll_interval", "attach_pid", "create_cgroup"}

\* RaplConfig: the key that both backends have.
RaplKeys == {"sockets_spec"}

\* The keys of the other sources are read in the same way, and are not listed.
KeysOf(id) ==
    {"ignore_on_failure"}
      \cup (IF id = "cgroup" THEN CgroupKeys ELSE {})
      \cup (IF id = "rapl" THEN RaplKeys ELSE {})

KindOf(key) ==
    CASE key \in {"cgroup_root", "cgroup_name", "poll_interval"} -> "string"
      [] key = "sockets_spec" -> "array"
      [] OTHER -> "boolean"

\* MetricSourceConfig is flattened: keys that it does not know are dropped.
SectionReads(id, section) ==
    /\ IsTable(section)
    /\ \A k \in KeysOf(id) \cap DOMAIN section.of :
          /\ section.of[k].kind = KindOf(k)
          /\ k = "poll_interval" => section.of[k].text \in Durations

SectionOf(table, id) ==
    IF id \in DOMAIN table.sources THEN table.sources[id] ELSE EmptyTable

SourceConfig(id, section) ==
    [k \in KeysOf(id) |->
        IF k \in DOMAIN section.of THEN section.of[k].text
        ELSE IF k = "ignore_on_failure" THEN "false" ELSE Absent]

\* remove() of the section of a source
TakeSection(table, id) ==
    [table EXCEPT !.sources = [s \in DOMAIN @ \ {id} |-> @[s]]]

\* Seeded fault: every failure is ignored.
BuildSourceSkips(table, id, available) ==
    LET section == SectionOf(table, id)
    IN  IF id \notin table.enabled THEN "disabled"
        ELSE IF ~ SectionReads(id, section) THEN "error"
        ELSE IF available THEN "added" ELSE "skipped"

(***************************************************************************)
(* build_source: what becomes of the source.  "reads" and from_config()    *)
(* may both fail, but only the second failure can be ignored.              *)
(***************************************************************************)
BuildSource(table, id, available) ==
    LET section == SectionOf(table, id)
    IN  IF id \notin table.enabled THEN "disabled"
        ELSE IF ~ SectionReads(id, section) THEN "error"
        ELSE IF available THEN "added"
        ELSE IF SourceConfig(id, section).ignore_on_failure = "true" THEN "skipped"
        ELSE "error"

\* Seeded fault: nobody looks at what is left.
SourcesAreKnownAlways(table) == TRUE

\* ensure_sources_are_known: every section was taken by its source.
SourcesAreKnown(table) == DOMAIN table.sources = {}

=============================================================================
