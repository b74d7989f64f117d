---------------------------- MODULE CommandLine -----------------------------
(***************************************************************************)
(* joule-profiler from its arguments to what it tells (cli/src/bin/main.rs *)
(* and cli/src/lib.rs): the arguments are parsed, the configuration is     *)
(* loaded and overridden, each source takes its section and is built, the  *)
(* displayer is made, and the command runs.  What JouleProfiler does is    *)
(* the subject of other modules; here it fails or has results.             *)
(***************************************************************************)
EXTENDS ConfigTable, Displayers

CONSTANTS
    Arguments,   \* the command lines, with what their --config names
    Unavailable, \* sets of sources whose from_config() fails
    MetricNames, \* function from a source to the sequence of its names
    NamedBefore, \* the order of the names of the sources: set of pairs
    MaxPhases    \* bound on the phases of a run

ASSUME CommandLineAssumption ==
    /\ \A ids \in Unavailable : ids \subseteq SourceIds
    /\ SourceIds \subseteq DOMAIN MetricNames
    /\ MaxPhases \in Nat \ {0}

\* What the types say of a command line: a segment of -D is a string and a key
\* has one, clap reads the flags that it knows, TOML keys are strings.
ASSUME ArgumentsAssumption ==
    \A a \in Arguments :
        /\ a.command \in {"profile", "list"}
        /\ a.sources \in Seq(STRING)
        /\ a.overrides \in Seq([assigns : BOOLEAN, key : Seq(STRING) \ {<<>>}, text : STRING])
        /\ DOMAIN a.flags \subseteq {"output_format", "output_file", "stdout_file",
                                     "token_pattern", "init_timeout"}
        /\ "output_format" \in DOMAIN a.flags => a.flags["output_format"] \in OutputFormats
        /\ IsTable(a.config.doc) /\ DOMAIN a.config.doc.of \subseteq STRING
        /\ \A v \in Range(a.config.doc.of) : IsTable(v) => DOMAIN v.of \subseteq STRING

VARIABLES
    args,        \* the command line
    unavailable, \* the sources that cannot be built on this machine
    stage,       \* how far main() is
    cli,         \* CliArgs
    step,        \* overrides applied, or sources registered
    root,        \* the document
    table,       \* ConfigTable
    added,       \* sources in the profiler, in order, with their configuration
    skipped,     \* sources that failed and were ignored
    displayer,   \* the displayer: its format and its file
    files,       \* what the files of interest hold
    started,     \* whether the profiled command was started
    results,     \* what JouleProfiler returned
    told         \* the rows that the displayer wrote

vars == <<args, unavailable, stage, cli, step, root, table, added, skipped,
          displayer, files, started, results, told>>

Stages == {"parse", "validate", "load", "override", "deserialize", "register",
           "known", "display", "start", "running", "results", "sensors", "done", "failed"}

\* The order of main(); RAPL is one source with one of two backends.
SourceOrder == <<"rapl", "perf", "cgroup", "procfs", "nvml", "amdsmi">>

NoTable == [profiler |-> ProfilerDefault, sources |-> <<>>, enabled |-> {}]

NoDisplayer == [format |-> "none", path |-> Absent]

\* Files that the arguments may name; every one is there before the run.
Paths == {"out", "log", "data"}

Contents == {"old", "empty", "results", "sensors", "stdout", "mixed"}

TypeOK ==
    /\ stage \in Stages
    /\ DOMAIN table.profiler = ProfilerKeys
    /\ \A k \in ProfilerKeys : k = "output_format" => table.profiler[k] \in OutputFormats
    /\ Range(cli.sources) \subseteq SourceIds
    /\ {added[i].id : i \in DOMAIN added} \cap skipped = {}
    /\ files \in [Paths -> Contents]
    /\ started => cli.command = "profile"

Init ==
    /\ args \in Arguments /\ unavailable \in Unavailable
    /\ stage = "parse" /\ step = 0
    /\ cli = [command |-> args.command, sources |-> DefaultSources,
              overrides |-> <<>>, flags |-> <<>>, use_root |-> FALSE]
    /\ root = EmptyTable /\ table = NoTable
    /\ added = <<>> /\ skipped = {} /\ displayer = NoDisplayer
    /\ files = [p \in Paths |-> "old"]
    /\ started = FALSE /\ results = <<>> /\ told = <<>>

-----------------------------------------------------------------------------

\* An error of main(): nothing else is done.
Fail == stage' = "failed"

\* clap: every override and every name must read.
ParseArgs ==
    /\ stage = "parse"
    /\ IF /\ \A i \in DOMAIN args.overrides : OverrideReads(args.overrides[i])
          /\ Range(args.sources) \subseteq DOMAIN SourceNamed
       THEN /\ stage' = "validate"
            /\ cli' = [command |-> args.command,
                       sources |-> IF args.sources = <<>> THEN DefaultSources
                                   ELSE [i \in DOMAIN args.sources |-> SourceNamed[args.sources[i]]],
                       overrides |-> [i \in DOMAIN args.overrides |-> OverrideOf(args.overrides[i])],
                       flags |-> args.flags, use_root |-> args.use_root]
       ELSE Fail /\ UNCHANGED cli
    /\ UNCHANGED <<args, unavailable, step, root, table, added, skipped, displayer,
                   files, started, results, told>>

\* CliArgs::validate: no source is named twice.
Validate ==
    /\ stage = "validate"
    /\ IF IsInjective(cli.sources) THEN stage' = "load" ELSE Fail
    /\ UNCHANGED <<args, unavailable, cli, step, root, table, added, skipped, displayer,
                   files, started, results, told>>

\* load_global_config, to the document of --config.
LoadFile ==
    /\ stage = "load"
    /\ IF args.config.status \in {"none", "read"}
       THEN stage' = "override" /\ root' = args.config.doc
       ELSE Fail /\ UNCHANGED root
    /\ UNCHANGED <<args, unavailable, cli, step, table, added, skipped, displayer,
                   files, started, results, told>>

\* load_global_config, one turn of its loop.
ApplyOverride ==
    /\ stage = "override" /\ step < Len(cli.overrides)
    /\ LET applied == Apply(cli.overrides[step + 1], root)
       IN  IF applied # <<>>
           THEN root' = applied[1] /\ step' = step + 1 /\ UNCHANGED stage
           ELSE Fail /\ UNCHANGED <<root, step>>
    /\ UNCHANGED <<args, unavailable, cli, table, added, skipped, displayer,
                   files, started, results, told>>

\* The end of load_global_config, ConfigTable::new and apply_cli.
Deserialize ==
    /\ stage = "override" /\ step = Len(cli.overrides)
    /\ LET global == GlobalConfig(root)
       IN  IF global # <<>>
           THEN /\ table' = ApplyCli(NewTable(global[1], cli.sources), cli)
                /\ stage' = "register" /\ step' = 0
           ELSE Fail /\ UNCHANGED <<table, step>>
    /\ UNCHANGED <<args, unavailable, cli, root, added, skipped, displayer,
                   files, started, results, told>>

\* register_source of the next source; the backend is chosen before.
Register ==
    /\ stage = "register" /\ step < Len(SourceOrder)
    /\ LET id     == SourceOrder[step + 1]
           result == BuildSource(table, id, id \notin unavailable)
       IN  /\ stage' = IF result = "error" THEN "failed" ELSE "register"
           /\ added' = IF result = "added"
                       THEN Append(added,
                              [id |-> id, config |-> SourceConfig(id, SectionOf(table, id)),
                               backend |-> IF id = "rapl" THEN table.profiler.rapl_backend
                                           ELSE Absent])
                       ELSE added
           /\ skipped' = skipped \cup IF result = "skipped" THEN {id} ELSE {}
           /\ table' = IF result = "disabled" THEN table ELSE TakeSection(table, id)
    /\ step' = step + 1
    /\ UNCHANGED <<args, unavailable, cli, root, displayer, files, started, results, told>>

EnsureKnown ==
    /\ stage = "register" /\ step = Len(SourceOrder)
    /\ IF SourcesAreKnown(table) THEN stage' = "display" ELSE Fail
    /\ UNCHANGED <<args, unavailable, cli, step, root, table, added, skipped, displayer,
                   files, started, results, told>>

\* The file of the results; the default name has the time in it.
ResultsPath ==
    IF table.profiler.output_file = Absent THEN "data" ELSE table.profiler.output_file

\* Seeded fault: the file is created for every format.
MakeDisplayerAlwaysCreates ==
    /\ stage = "display" /\ ResultsPath \in Paths
    /\ displayer' = [format |-> table.profiler.output_format, path |-> ResultsPath]
    /\ files' = [files EXCEPT ![ResultsPath] = "empty"]
    /\ stage' = "start"
    /\ UNCHANGED <<args, unavailable, cli, step, root, table, added, skipped,
                   started, results, told>>

\* Seeded fault: it is created before the sources are registered.
MakeDisplayerFirst ==
    /\ stage = "register" /\ displayer = NoDisplayer
    /\ table.profiler.output_format # "terminal" /\ ResultsPath \in Paths
    /\ displayer' = [format |-> table.profiler.output_format, path |-> ResultsPath]
    /\ files' = [files EXCEPT ![ResultsPath] = "empty"]
    /\ UNCHANGED <<args, unavailable, stage, cli, step, root, table, added, skipped,
                   started, results, told>>

(***************************************************************************)
(* create_file_with_user_permissions.  The file is opened, which empties   *)
(* it, and then given its permissions and its owner; each of these may     *)
(* fail, the later ones when the file is empty already.                    *)
(***************************************************************************)
CreateFile(path) == path \in Paths /\ files' = [files EXCEPT ![path] = "empty"]

CreateFileFails(path) == UNCHANGED files \/ CreateFile(path)

(***************************************************************************)
(* config_table_to_displayer: JSON and CSV create their file, or fail; the *)
(* terminal has none, whatever --output-file says.                         *)
(***************************************************************************)
MakeDisplayer ==
    LET format == table.profiler.output_format
    IN  /\ stage = "display"
        /\ \/ /\ format = "terminal"
              /\ displayer' = [format |-> format, path |-> Absent]
              /\ stage' = "start" /\ UNCHANGED files
           \/ /\ format # "terminal" /\ CreateFile(ResultsPath)
              /\ displayer' = [format |-> format, path |-> ResultsPath]
              /\ stage' = "start"
           \/ /\ format # "terminal" /\ CreateFileFails(ResultsPath)
              /\ Fail /\ UNCHANGED displayer
        /\ UNCHANGED <<args, unavailable, cli, step, root, table, added, skipped,
                       started, results, told>>

\* ConfigTable::to_config and the dispatch on the command.
Dispatch ==
    /\ stage = "start"
    /\ stage' = IF cli.command = "profile" THEN "running" ELSE "sensors"
    /\ UNCHANGED <<args, unavailable, cli, step, root, table, added, skipped, displayer,
                   files, started, results, told>>

\* Metrics of the sources, in the order of the sources.
AllMetrics ==
    FlattenSeq([i \in DOMAIN added |->
        LET id == added[i].id
        IN  [j \in DOMAIN MetricNames[id] |-> [source |-> id, name |-> MetricNames[id][j]]]])

Written(path, what) == IF files[path] = "empty" THEN what ELSE "mixed"

(***************************************************************************)
(* JouleProfiler::profile.  Without a source it does not start the         *)
(* command.  Once it is started, the file of its output is created, or     *)
(* that fails; its output goes there ("stdout" stands for the lines that   *)
(* are UTF-8, the others are skipped), and the run may still fail.         *)
(***************************************************************************)
ProfileFailsAtOnce ==
    /\ stage = "running" /\ ~ started
    /\ Fail
    /\ UNCHANGED <<args, unavailable, cli, step, root, table, added, skipped, displayer,
                   files, started, results, told>>

ProfileStarts ==
    /\ stage = "running" /\ ~ started /\ added # <<>>
    /\ started' = TRUE
    /\ LET path == table.profiler.stdout_file
       IN  \/ path = Absent /\ UNCHANGED <<files, stage>>
           \/ /\ path \in Paths /\ UNCHANGED stage
              /\ files' = [files EXCEPT ![path] = "stdout"]
           \/ path # Absent /\ CreateFileFails(path) /\ Fail
    /\ UNCHANGED <<args, unavailable, cli, step, root, table, added, skipped, displayer,
                   results, told>>

ProfileReturns ==
    /\ stage = "running" /\ started
    /\ \/ Fail /\ UNCHANGED results
       \/ /\ \E n \in 1 .. MaxPhases :
                results' = [i \in 1 .. n |-> PhaseMetrics(AllMetrics)]
          /\ stage' = "results"
    /\ UNCHANGED <<args, unavailable, cli, step, root, table, added, skipped, displayer,
                   files, started, told>>

\* JouleProfiler::list_sensors: the sensors of every source, or an error.
ListSensors ==
    /\ stage = "sensors" /\ results = <<>>
    /\ \/ Fail /\ UNCHANGED results
       \/ results' = <<AllMetrics>> /\ UNCHANGED stage
    /\ UNCHANGED <<args, unavailable, cli, step, root, table, added, skipped, displayer,
                   files, started, told>>

(***************************************************************************)
(* display_results and list_sensors of the displayer.  A file was created  *)
(* when the displayer was made, and is written from its beginning.  If it  *)
(* cannot be written, a part of it may have been.                          *)
(***************************************************************************)
Displayed(what, rows) ==
    /\ \/ /\ told' = rows /\ stage' = "done"
          /\ files' = IF displayer.path = Absent THEN files
                      ELSE [files EXCEPT ![displayer.path] = Written(displayer.path, what)]
       \/ /\ Fail /\ UNCHANGED told
          /\ \/ UNCHANGED files
             \/ /\ displayer.path # Absent
                /\ files' = [files EXCEPT ![displayer.path] = "mixed"]
    /\ UNCHANGED <<args, unavailable, cli, step, root, table, added, skipped, displayer,
                   started, results>>

DisplayResults ==
    /\ stage = "results"
    /\ Displayed("results", ResultRows(displayer.format, results, NamedBefore))

DisplaySensors ==
    /\ stage = "sensors" /\ results # <<>>
    /\ Displayed("sensors", SensorRows(displayer.format, results[1], NamedBefore))

Finished == stage \in {"done", "failed"} /\ UNCHANGED vars

Next ==
    \/ ParseArgs \/ Validate \/ LoadFile \/ ApplyOverride \/ Deserialize \/ Register
    \/ EnsureKnown \/ MakeDisplayer \/ Dispatch
    \/ ProfileFailsAtOnce \/ ProfileStarts \/ ProfileReturns
    \/ ListSensors \/ DisplayResults \/ DisplaySensors \/ Finished

Spec == Init /\ [][Next]_vars

-----------------------------------------------------------------------------
(***************************************************************************)
(* What was asked for, told without writing anything into a document: the  *)
(* last override on the way to a key has its value, or else the file.      *)
(***************************************************************************)

HasKey(v, key) == IsTable(v) /\ key \in DOMAIN v.of

HasNode(v, path) ==
    \A i \in 1 .. Len(path) : HasKey(NodeAt(v, SubSeq(path, 1, i - 1)), path[i])

\* What a document has at a path: none, or one.
Lookup(v, path) == IF HasNode(v, path) THEN <<NodeAt(v, path)>> ELSE <<>>

LastWriter(path) ==
    LET writers == {i \in DOMAIN cli.overrides : IsPrefix(cli.overrides[i].path, path)}
    IN  IF writers = {} THEN 0 ELSE Max(writers)

\* The value at a key that nothing was written below: none, or one.
Asked(path) ==
    LET i    == LastWriter(path)
        from == IF i = 0 THEN args.config.doc ELSE cli.overrides[i].value
        rest == IF i = 0 THEN path
                ELSE SubSeq(path, Len(cli.overrides[i].path) + 1, Len(path))
    IN  Lookup(from, rest)

\* A section is there if it was written, or something below it, last.
SectionAsked(name) ==
    LET path == <<"sources", name>>
    IN  \/ Asked(path) # <<>>
        \/ \E i \in DOMAIN cli.overrides :
              i > LastWriter(path) /\ IsPrefix(path, cli.overrides[i].path)

Resolved == stage \notin {"parse", "validate", "load", "override", "failed"}

(***************************************************************************)
(* Precedence: what profile() and the displayer get for a key is the flag, *)
(* if it was given to a command that takes it; or else the last -D that    *)
(* wrote the key or a table above it, or else the file, or else the        *)
(* default.  Root is used if anyone asks for it.                           *)
(***************************************************************************)
Precedence ==
    Resolved =>
        \A k \in ProfilerKeys :
            LET asked == Asked(<<"profiler", k>>)
                below == IF asked = <<>> THEN ProfilerDefault[k] ELSE ValueFor(k, asked[1])
            IN  table.profiler[k] =
                  IF k \in DOMAIN args.flags
                       /\ (args.command = "profile" \/ k \in {"output_format", "output_file"})
                  THEN args.flags[k]
                  ELSE IF k = "use_root" /\ args.command = "profile" /\ args.use_root
                  THEN "true" ELSE below

(***************************************************************************)
(* "Every key it sets can also be set with -D": a file leads to the same   *)
(* document, or to an error as well, as -D overrides with its keys would,  *)
(* given before the others.                                                *)
(***************************************************************************)
Load(doc, overrides) ==
    FoldLeft(LAMBDA result, o : IF result = <<>> THEN <<>> ELSE Apply(o, result[1]),
             <<doc>>, overrides)

Leaves(doc) ==
    LET keys  == UNION {DOMAIN NodeAt(doc, p).of :
                          p \in {p \in {<<>>, <<"profiler">>, <<"sources">>} :
                                    IsTable(NodeAt(doc, p))}}
        inner == UNION {DOMAIN NodeAt(doc, <<"sources", k>>).of :
                          k \in {k \in keys : IsTable(NodeAt(doc, <<"sources", k>>))}}
        paths == {p \in {<<a>> : a \in keys} \cup {<<a, b>> : a \in keys, b \in keys}
                           \cup {<<"sources", b, c>> : b \in keys, c \in inner} :
                    /\ HasNode(doc, p)
                    /\ ~ IsTable(NodeAt(doc, p)) \/ NodeAt(doc, p) = EmptyTable}
    IN  SetToSeq({[path |-> p, value |-> NodeAt(doc, p)] : p \in paths})

FileIsOverrides ==
    stage = "load" /\ args.config.status = "read" =>
        Load(args.config.doc, cli.overrides)
            = Load(EmptyTable, Leaves(args.config.doc) \o cli.overrides)

(***************************************************************************)
(* The profiler has exactly the sources that were asked for, by --sources  *)
(* or by a section, in the order of main() and each once, with what their  *)
(* section says and RAPL with its backend.  One is missing only if it      *)
(* failed and its section says to ignore that.                             *)
(***************************************************************************)
Wanted(id) == id \in Range(cli.sources) \/ SectionAsked(id)

AskedOf(id, key) ==
    LET asked == Asked(<<"sources", id, key>>)
    IN  IF asked # <<>> THEN asked[1].text
        ELSE IF key = "ignore_on_failure" THEN "false" ELSE Absent

SourcesAsAsked ==
    Resolved /\ stage # "register" =>
        /\ {added[i].id : i \in DOMAIN added} =
              {id \in SourceIds : Wanted(id) /\ id \notin unavailable}
        /\ \A i, j \in DOMAIN added :
              i < j => \E m, n \in DOMAIN SourceOrder :
                          /\ m < n
                          /\ added[i].id = SourceOrder[m] /\ added[j].id = SourceOrder[n]
        /\ skipped = {id \in unavailable : Wanted(id)}
        /\ \A id \in skipped : AskedOf(id, "ignore_on_failure") = "true"
        /\ \A i \in DOMAIN added :
              LET id == added[i].id
              IN  /\ \A k \in KeysOf(id) : added[i].config[k] = AskedOf(id, k)
                  /\ id = "rapl" => added[i].backend = table.profiler.rapl_backend

\* What the program reads of a table, given by its name.
KnownIn(name) == IF name = "sources" THEN SourceIds ELSE ProfilerKeys

\* The file and the overrides have no other key in the document and its two tables;
\* but a table that a later override replaced is not looked at.
KnownKeys ==
    LET names == {"profiler", "sources"}
    IN  /\ DOMAIN args.config.doc.of \subseteq names
        /\ \A i \in DOMAIN cli.overrides : cli.overrides[i].path[1] \in names
        /\ \A name \in names :
              LET asked == Asked(<<name>>)
              IN  /\ asked # <<>> =>
                        IsTable(asked[1]) /\ DOMAIN asked[1].of \subseteq KnownIn(name)
                  /\ \A i \in DOMAIN cli.overrides :
                        LET path == cli.overrides[i].path
                        IN  path[1] = name /\ Len(path) > 1 /\ LastWriter(<<name>>) < i =>
                                path[2] \in KnownIn(name)

(***************************************************************************)
(* A misspelled key, which would otherwise be dropped without a trace,     *)
(* never gets to a run: neither one of the profiler nor the name of a      *)
(* source, be it in the file, in a table that an override has as its value *)
(* or on the path of an override, unless a later override replaced it.     *)
(* The keys inside the section of a source are not covered: there the code *)
(* does drop the unknown ones.                                             *)
(***************************************************************************)
UnknownKeysStop == Resolved /\ stage # "register" => KnownKeys

\* Nothing is left to object to: the keys are known and their values read, no source
\* is named twice, and each that is wanted is there, or failed and was to be ignored.
Accepted ==
    /\ KnownKeys /\ IsInjective(cli.sources)
    /\ \A k \in ProfilerKeys :
          LET asked == Asked(<<"profiler", k>>) IN asked # <<>> => ReadsAs(k, asked[1])
    /\ \A id \in SourceIds :
          Wanted(id) =>
              \/ id \in {added[i].id : i \in DOMAIN added}
              \/ id \in skipped /\ AskedOf(id, "ignore_on_failure") = "true"

(***************************************************************************)
(* A configuration that is not accepted leaves no trace, wherever main()   *)
(* fails because of it: no file is created or emptied and no command is    *)
(* started.  Later, only the files that the configuration names are        *)
(* touched, be it by a creation that failed half-way: the terminal has     *)
(* none, and the file of the command's output only counts with profile.    *)
(* And the command runs only with a source and a displayer for it.         *)
(***************************************************************************)
Touched == {p \in Paths : files[p] # "old"}

OnlyNamedFilesTouched ==
    /\ Touched # {} \/ started => Accepted
    /\ Touched \subseteq
          (IF table.profiler.output_format = "terminal" THEN {} ELSE {ResultsPath})
            \cup (IF started THEN {table.profiler.stdout_file} ELSE {})
    /\ started =>
          added # <<>> /\ displayer # NoDisplayer /\ stage \notin {"display", "start"}

ToldOf(i, id) ==
    SelectSeq(told, LAMBDA row : row.phase = i /\ row.metric.source = id)

\* Each metric of each phase (or each sensor) is told once, phase by phase, those
\* of one source in the order of the results, in every format.
RowsTellEverything ==
    /\ stage = "done" /\ args.command = "profile" =>
          /\ \A i \in DOMAIN results, id \in SourceIds :
                [j \in DOMAIN ToldOf(i, id) |-> ToldOf(i, id)[j].metric] =
                    SelectSeq(results[i], LAMBDA m : m.source = id)
          /\ \A i, j \in DOMAIN told : i < j => told[i].phase <= told[j].phase
          /\ Len(told) = Len(FlattenSeq(results))
    /\ stage = "done" /\ args.command = "list" =>
          /\ \A id \in SourceIds :
                SelectSeq(told, LAMBDA m : m.source = id) =
                    SelectSeq(results[1], LAMBDA m : m.source = id)
          /\ Len(told) = Len(results[1])

\* The file of the displayer holds what it tells and nothing else, and the output of
\* the command is in the file it was redirected to, unless the two are one file.
FilesTellEverything ==
    /\ stage = "done" /\ args.command = "profile" =>
          LET log == table.profiler.stdout_file
          IN  displayer.path = Absent \/ displayer.path # log =>
                 /\ displayer.path # Absent => files[displayer.path] = "results"
                 /\ log # Absent => files[log] = "stdout"
    /\ stage = "done" /\ args.command = "list" /\ displayer.path # Absent =>
          files[displayer.path] = "sensors"

(***************************************************************************)
(* Success tells everything: main() returns without an error only when     *)
(* everything that was measured, or every sensor, was told by the          *)
(* displayer of the format that was asked for and is in its file.          *)
(***************************************************************************)
SuccessTellsEverything == RowsTellEverything /\ FilesTellEverything

=============================================================================
