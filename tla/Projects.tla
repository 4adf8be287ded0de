------------------------------ MODULE Projects ------------------------------
(***************************************************************************)
(* The folders of projects and who writes in them: the browser's editor    *)
(* (web/api.py), the lifecycle commands (service/projects.py, cli.py), and *)
(* the runs and ticks of `arena watch` that record into them.              *)
(*                                                                         *)
(* No lock covers a folder.  An operation is a list of stages, each one    *)
(* call on the file system or the database; others fall between, and it    *)
(* may die anywhere.  A file that was opened is the file, whatever name it *)
(* has since, so two writers of one temporary name meet.  PyYAML is there: *)
(* what is written is YAML.  What the fields of a config hold is a number  *)
(* of the edit; what a test file holds are the ids of its cases.           *)
(***************************************************************************)
EXTENDS Integers, Sequences, FiniteSets, Functions, SequencesExt, FiniteSetsExt

CONSTANTS
    Clients,        \* requests and commands that may be under way at once
    Names,          \* names of folders
    HandMade,       \* folders as people make them: a disk, a config, runs
    HistoryLimit,   \* runs that a tick of watch compares with
    Payloads,       \* what may be sent to the editor
    Slug,           \* the key that a model's id becomes
    MaxJobs,        \* bound: operations begun
    NULL

ASSUME ProjectsAssumption ==
    HistoryLimit \in Nat /\ MaxJobs \in Nat /\ NULL \notin Names

VARIABLES
    folder,     \* the names that are taken
    disk,       \* what is at each path of each folder
    runs,       \* the runs in each folder's databases
    clock,      \* runs started, which is the order of started_at
    todo,       \* the stages each client has before it
    job,        \* what each client is doing
    got,        \* what a client has read, was sent or will write
    fd,         \* the file or database it has open, by its present place
    left,       \* the paths it is still to copy or remove, or the one it has read,
                \* or the number of its run
    report,     \* what its tick of watch compared
    jobs,       \* operations begun
    believed,   \* history: each config, had each edit been one step
    causes      \* history: what may have gone wrong in each folder

clientVars == <<todo, job, got, fd, left, report>>
history == <<believed, causes>>
vars == <<folder, disk, runs, clock, clientVars, jobs, history>>

-----------------------------------------------------------------------------
(* Files *)

ConfigPaths == {"config.yaml", "config.yml", "config.json"}
TestPaths == {"tests.yaml", "tests.yml", "tests.json", "tests.jsonl", "tests.ndjson"}
Places == {"results", "elsewhere"}   \* output.dir
Paths == ConfigPaths \cup TestPaths \cup {"config.tmp", "tests.tmp"} \cup Places

Absent == [kind |-> "absent", holds |-> NULL]
Empty == [kind |-> "empty", holds |-> NULL]
Whole(content) == [kind |-> "whole", holds |-> content]
Nothing == [path \in Paths |-> Absent]

\* What the text of a config says.
Configs == [values : Nat, models : Nat, archived : BOOLEAN, name : Names, output : Places,
            loads : BOOLEAN]

\* The test files of all hand-made folders hold the same case here, and a project
\* with two files of one case does not load: a folder has one of them at most.
ASSUME FilesAssumption ==
    /\ IsFiniteSet(HandMade)
    /\ \A made \in HandMade :
          /\ made.runs \in Nat
          /\ made.paths \subseteq Paths \ {"config.tmp", "tests.tmp"} /\ made.output \in Places
          /\ \A one, other \in made.paths \cap TestPaths : one = other
    /\ NULL \notin Paths \cup {"missed"} \cup Configs \cup (Names \X Paths)

There(p) == {path \in Paths : disk[p][path].kind # "absent"}

\* The formats that a save knows: the one that it writes and the one that it takes
\* away.  A file in any other is found and read, and no save touches it.
YamlOf == [config |-> "config.yaml", tests |-> "tests.yaml"]
JsonOf == [config |-> "config.json", tests |-> "tests.json"]
OtherTests == TestPaths \ {YamlOf.tests, JsonOf.tests}

\* Mutant: the new text is written where the old one is.
TmpOfInPlace(stem) == YamlOf[stem]

TmpOf(stem) == IF stem = "config" THEN "config.tmp" ELSE "tests.tmp"

\* Mutant: a config.json is preferred to a config.yaml.
ConfigFileJsonFirst(p) ==
    IF "config.json" \in There(p) THEN "config.json"
    ELSE IF "config.yaml" \in There(p) THEN "config.yaml"
    ELSE IF "config.yml" \in There(p) THEN "config.yml" ELSE NULL

\* _config_file: the first of CONFIG_BASENAMES that is there.
ConfigFile(p) ==
    IF "config.yaml" \in There(p) THEN "config.yaml"
    ELSE IF "config.yml" \in There(p) THEN "config.yml"
    ELSE IF "config.json" \in There(p) THEN "config.json" ELSE NULL

\* load_structured: the text parses to a mapping.
Parses(p) == ConfigFile(p) # NULL /\ disk[p][ConfigFile(p)].kind = "whole"
Config(p) == disk[p][ConfigFile(p)].holds

\* load_config: and the mapping is a config.
Loads(p) == Parses(p) /\ Config(p).loads

TestFiles(p) == There(p) \cap TestPaths

\* What a new name means for the clients that have a file of either name open.
Moved(p, from, to) ==
    [c \in Clients |-> CASE fd[c] = <<p, from>> -> <<p, to>>
                         [] fd[c] = <<p, to>> /\ from # to -> NULL
                         [] OTHER -> fd[c]]
Closed(p, paths) == [c \in Clients |-> IF \E path \in paths : fd[c] = <<p, path>> THEN NULL ELSE fd[c]]

-----------------------------------------------------------------------------
(* What the editor makes of what it is sent; NULL is a refusal *)

\* The cases that are sent are a list, and the id of a case is a list of the
\* parts that its text has.
IsList(s) == Len(s) \in Nat /\ s = [i \in 1..Len(s) |-> s[i]]
ASSUME PayloadsAssumption ==
    \A payload \in Payloads :
        /\ IsList(payload.tests)
        /\ \A i \in DOMAIN payload.tests : payload.tests[i].id = NULL \/ IsList(payload.tests[i].id)

\* Weights of 0 and less are dropped; something has to matter.
CleanWeights(raw) == IF \E weight \in raw : weight > 0 THEN {w \in raw : w > 0} ELSE NULL

\* A bound, in percent, that is out of its range is refused.
CleanConstraints(raw) == IF raw \in 0..100 THEN raw ELSE NULL

\* The keys of the models: what was given, or else the slug of the model's id.
CleanModels(raw) ==
    IF raw = <<>> \/ \E i \in DOMAIN raw : raw[i].model = NULL THEN NULL
    ELSE [i \in DOMAIN raw |-> Slug[IF raw[i].key = NULL THEN raw[i].model ELSE raw[i].key]]

\* Mutant: an id is numbered by how often it was typed before.
TestIdCounted(raw, index, seen) ==
    LET base == IF raw = NULL THEN <<"case", index>> ELSE raw
        before == {n \in 1..Len(seen) : seen[n] = base}
    IN IF before = {} THEN base ELSE base \o <<Cardinality(before) + 1>>

\* The id as it was typed, or with the least number from 2 on that makes it new.
\* The id "case_2" is <<"case", 2>>.
TestId(raw, index, seen) ==
    LET base == IF raw = NULL THEN <<"case", index>> ELSE raw
        Candidate(n) == IF n = 1 THEN base ELSE base \o <<n>>
    IN Candidate(Min({n \in 1..(Len(seen) + 1) : Candidate(n) \notin ToSet(seen)}))

\* The ids of the cases that have an input.
CleanTests(raw) ==
    LET Take(seen, i) == IF raw[i].input = NULL THEN seen
                         ELSE Append(seen, TestId(raw[i].id, i, seen))
        ids == FoldLeft(Take, <<>>, [i \in DOMAIN raw |-> i])
    IN IF ids = <<>> THEN NULL ELSE ids

\* from_dict refuses a config of two models with one key.
LoadsWith(keys) == IsInjective(keys)

\* Sorting needs at least two labels, and all that is cleaned must be.
BuildConfig(name, payload, nth) ==
    IF \/ CleanWeights(payload.weights) = NULL
       \/ CleanModels(payload.models) = NULL
       \/ CleanConstraints(payload.constraint) = NULL
       \/ payload.labels < 2
    THEN NULL
    ELSE [values |-> nth, models |-> nth, archived |-> FALSE, name |-> name, output |-> "results",
          loads |-> LoadsWith(CleanModels(payload.models))]

\* What is sent with an edit is cleaned before anything is written.
Accepted(j, payload) ==
    CASE j.do = "update" /\ j.say = "values" ->
            CleanWeights(payload.weights) # NULL /\ CleanConstraints(payload.constraint) # NULL
      [] j.do = "update" /\ j.say = "models" -> CleanModels(payload.models) # NULL
      [] OTHER -> TRUE

\* The edit that a job makes of a config; `loads` says if the models it was sent
\* are a config's.
Edit(config, j, loads) ==
    CASE j.do = "update" /\ j.say = "values" -> [config EXCEPT !.values = j.nth]
      [] j.do = "update" /\ j.say = "models" -> [config EXCEPT !.models = j.nth, !.loads = loads]
      [] j.do = "archive" -> [config EXCEPT !.archived = j.say = "hide"]
      [] j.do = "duplicate" -> [config EXCEPT !.name = j.to, !.archived = FALSE]

-----------------------------------------------------------------------------
(* Operations *)

Says == [create |-> {"-"}, update |-> {"values", "models"},
         save_tests |-> {"-"}, archive |-> {"hide", "show"}, duplicate |-> {"-"},
         delete |-> {"all", "keep"}, run |-> {"-"}, watch |-> {"-"}, drop |-> {"-"}]
Jobs == {[do |-> do, on |-> on, to |-> to, say |-> say, nth |-> jobs + 1] :
            do \in DOMAIN Says, on \in Names, to \in Names, say \in UNION {Says[d] : d \in DOMAIN Says}}
NextJobs == {j \in Jobs : j.say \in Says[j.do] /\ (j.do = "duplicate" <=> j.on # j.to)}
Touched(j) == {j.on, j.to}

\* _write_structured of the editor: under another name first, then in place of
\* the old text; then the other format goes.
Save(stem) == <<<<"open", stem>>, <<"write", stem>>, <<"replace", stem>>, <<"unlink", stem>>>>
\* _write_structured of the service: over the old text.
Rewrite == <<<<"truncate", "config">>, <<"write", "config">>>>

Stages(do) ==
    CASE do = "create" -> <<<<"free", "-">>, <<"mkdir", "-">>, <<"build", "-">>>>
                              \o Save("config") \o Save("tests")
      [] do = "update" -> <<<<"load", "-">>, <<"read", "-">>>> \o Save("config")
      [] do = "save_tests" -> <<<<"load", "-">>, <<"discover", "-">>>> \o Save("tests")
      [] do = "archive" -> <<<<"read", "-">>>> \o Rewrite
      [] do = "duplicate" -> <<<<"source", "-">>, <<"copytree", "-">>, <<"copy", "-">>, <<"read", "-">>>>
                              \o Rewrite
      [] do = "delete" -> <<<<"confirm", "-">>, <<"list", "-">>, <<"remove", "-">>>>
      [] do = "run" -> <<<<"load", "-">>, <<"start", "-">>, <<"finish", "-">>>>
      [] do = "watch" -> <<<<"load", "-">>, <<"start", "-">>, <<"finish", "-">>, <<"compare", "-">>>>
      [] do = "drop" -> <<<<"drop", "-">>>>

TheOne(set) == CHOOSE x \in set : TRUE

Busy(c) == todo[c] # <<>>
At(c, stage) == Busy(c) /\ Head(todo[c])[1] = stage
Stem(c) == Head(todo[c])[2]
\* The folder that a client writes to.
Target(c) == job[c].to
GoOn(c) == todo' = [todo EXCEPT ![c] = Tail(@)]
Leave(c) == todo' = [todo EXCEPT ![c] = <<>>]

Init ==
    /\ \E made \in [Names -> HandMade \cup {NULL}] :
          LET Made(p) == made[p] # NULL
          IN /\ folder = {p \in Names : Made(p)}
             /\ disk = [p \in Names |->
                          IF Made(p) THEN [path \in Paths |->
                              IF path \in ConfigPaths \cap made[p].paths
                              THEN Whole([values |-> 0, models |-> 0, archived |-> FALSE,
                                          name |-> p, output |-> made[p].output, loads |-> TRUE])
                              ELSE IF path \in made[p].paths
                              THEN Whole(IF path \in Places THEN NULL ELSE <<<<"case", 1>>>>)
                              ELSE Absent]
                          ELSE Nothing]
             /\ runs = [p \in Names |->
                          IF Made(p) THEN {[id |-> n, place |-> made[p].output, name |-> p, home |-> p,
                                            ranked |-> TRUE, live |-> TRUE] : n \in 1..made[p].runs}
                          ELSE {}]
             /\ believed = [p \in Names |->
                              IF Made(p) THEN [values |-> 0, models |-> 0, archived |-> FALSE,
                                               name |-> p, output |-> made[p].output, loads |-> TRUE]
                              ELSE NULL]
    /\ clock = Max({0} \cup {made.runs : made \in HandMade})
    /\ todo = [c \in Clients |-> <<>>]
    /\ job = [c \in Clients |-> NULL]
    /\ got = [c \in Clients |-> NULL]
    /\ fd = [c \in Clients |-> NULL]
    /\ left = [c \in Clients |-> {}]
    /\ report = [c \in Clients |-> NULL]
    /\ jobs = 0
    /\ causes = [p \in Names |-> {}]

Begin(c) ==
    /\ ~Busy(c)
    /\ jobs < MaxJobs
    /\ jobs' = jobs + 1
    /\ \E j \in NextJobs :
          /\ job' = [job EXCEPT ![c] = j]
          /\ todo' = [todo EXCEPT ![c] = Stages(j.do)]
          /\ causes' = [p \in Names |->
                IF \E d \in Clients \ {c} :
                      /\ Busy(d)
                      /\ Touched(j) \cap Touched(job[d]) # {}
                      /\ p \in Touched(j) \cup Touched(job[d])
                THEN causes[p] \cup {"overlap"} ELSE causes[p]]
    /\ got' = [got EXCEPT ![c] = NULL]
    /\ left' = [left EXCEPT ![c] = {}]
    /\ report' = [report EXCEPT ![c] = NULL]
    /\ UNCHANGED <<folder, disk, runs, clock, fd, believed>>

\* An exception ends the operation where it is, and so does whoever stops the
\* process.  Of what was written in place only the beginning may be there.
Stop(c) ==
    /\ Leave(c)
    /\ fd' = [fd EXCEPT ![c] = NULL]
    /\ got' = [got EXCEPT ![c] = NULL]
    /\ left' = [left EXCEPT ![c] = {}]
    /\ causes' = [causes EXCEPT ![Target(c)] = @ \cup
            (IF job[c].do \in {"duplicate", "delete"} \/ (job[c].do = "archive" /\ At(c, "write"))
             THEN {"half"} ELSE {})
            \cup (IF At(c, "unlink") /\ Stem(c) = "tests" THEN {"left"} ELSE {})]
    /\ UNCHANGED <<folder, disk, runs, clock, job, report, jobs, believed>>

Die(c) == Busy(c) /\ Stop(c)

-----------------------------------------------------------------------------
(* Reading *)

\* create_project: a name that is free, and at least one example.
Free(c) ==
    /\ At(c, "free")
    /\ \E payload \in Payloads :
          IF Target(c) \notin folder /\ CleanTests(payload.tests) # NULL
          THEN /\ GoOn(c)
               /\ got' = [got EXCEPT ![c] = payload]
               /\ UNCHANGED <<folder, disk, runs, clock, job, fd, left, report, jobs, history>>
          ELSE Stop(c)

\* duplicate_project: the source is there and the name of the copy free.
Source(c) ==
    /\ At(c, "source")
    /\ IF Target(c) \notin folder /\ job[c].on \in folder
       THEN /\ GoOn(c)
            /\ UNCHANGED <<folder, disk, runs, clock, job, got, fd, left, report, jobs, history>>
       ELSE Stop(c)

\* _load, and ArenaRunner.from_project: the project as it is now.
Load(c) ==
    /\ At(c, "load")
    /\ IF Target(c) \in folder /\ Loads(Target(c))
       THEN /\ GoOn(c)
            /\ got' = [got EXCEPT ![c] = [config |-> Config(Target(c))]]
            /\ left' = [left EXCEPT ![c] = {ConfigFile(Target(c))}]
            /\ UNCHANGED <<folder, disk, runs, clock, job, fd, report, jobs, history>>
       ELSE Stop(c)

\* update_project, archive_project and duplicate_project: read the file as it is
\* now and change it.  A copy without a config is left so.
Read(c) ==
    LET p == Target(c)
        path == IF job[c].do = "update" THEN TheOne(left[c]) ELSE ConfigFile(p)
    IN /\ At(c, "read")
       /\ \E payload \in IF job[c].do = "update" THEN Payloads ELSE {NULL} :
             IF path # NULL /\ disk[p][path].kind = "whole" /\ Accepted(job[c], payload)
             THEN /\ GoOn(c)
                  /\ got' = [got EXCEPT ![c] =
                        [config |-> Edit(disk[p][path].holds, job[c],
                                         payload # NULL => LoadsWith(CleanModels(payload.models)))]]
                  /\ left' = [left EXCEPT ![c] = {path}]
                  /\ UNCHANGED <<folder, disk, runs, clock, job, fd, report, jobs, history>>
             ELSE Stop(c)

\* save_tests: one file, which parses; that it is empty is no error.
Discover(c) ==
    /\ At(c, "discover")
    /\ \E payload \in Payloads :
          IF /\ Cardinality(TestFiles(Target(c))) = 1
             /\ \A path \in TestFiles(Target(c)) : disk[Target(c)][path].kind \in {"whole", "empty"}
             /\ CleanTests(payload.tests) # NULL
          THEN /\ GoOn(c)
               /\ got' = [got EXCEPT ![c] = [tests |-> CleanTests(payload.tests)]]
               /\ UNCHANGED <<folder, disk, runs, clock, job, fd, left, report, jobs, history>>
          ELSE Stop(c)

-----------------------------------------------------------------------------
(* Writing *)

\* create_project, path.mkdir: whoever comes second is refused.
Mkdir(c) ==
    /\ At(c, "mkdir")
    /\ IF Target(c) \in folder THEN Stop(c)
       ELSE /\ folder' = folder \cup {Target(c)}
            /\ GoOn(c)
            /\ UNCHANGED <<disk, runs, clock, job, got, fd, left, report, jobs, history>>

\* _build_config refuses a payload when the folder is there already.
Build(c) ==
    LET config == BuildConfig(Target(c), got[c], job[c].nth)
    IN /\ At(c, "build")
       /\ IF config = NULL THEN Stop(c)
          ELSE /\ got' = [got EXCEPT ![c] = [config |-> config, tests |-> CleanTests(@.tests)]]
               /\ GoOn(c)
               /\ UNCHANGED <<folder, disk, runs, clock, job, fd, left, report, jobs, history>>

\* open(..., "w") makes the file, or makes it empty.
Opens(c, path) ==
    IF Target(c) \notin folder THEN Stop(c)
    ELSE /\ disk' = [disk EXCEPT ![Target(c)][path] = Empty]
         /\ fd' = [fd EXCEPT ![c] = <<Target(c), path>>]
         /\ GoOn(c)
         /\ UNCHANGED <<folder, runs, clock, job, got, left, report, jobs, history>>
Open(c) == At(c, "open") /\ Opens(c, TmpOf(Stem(c)))
Truncate(c) == At(c, "truncate") /\ Opens(c, TheOne(left[c]))

\* What a client has done to a config, when its text is in place.
Believe(c) ==
    LET p == Target(c)
    IN believed' = [believed EXCEPT ![p] = IF job[c].do = "create" THEN got[c].config
                                           ELSE IF @ = NULL THEN NULL
                                           ELSE Edit(@, job[c], got[c].config.loads)]

\* The text goes into the file that was opened, over what another client wrote
\* there since: of two texts the end of the longer one stays.
Write(c) ==
    /\ At(c, "write")
    /\ \E kind \in {"whole", "mixed"} :
          /\ kind = "mixed" => fd[c] # NULL /\ disk[fd[c][1]][fd[c][2]].kind # "empty"
          /\ disk' = IF fd[c] = NULL THEN disk
                     ELSE [disk EXCEPT ![fd[c][1]][fd[c][2]] = [kind |-> kind, holds |-> got[c][Stem(c)]]]
    /\ IF job[c].do \in {"archive", "duplicate"} THEN Believe(c) ELSE UNCHANGED believed
    /\ fd' = [fd EXCEPT ![c] = NULL]
    /\ GoOn(c)
    /\ UNCHANGED <<folder, runs, clock, job, got, left, report, jobs, causes>>

\* tmp.replace(path)
Replace(c) ==
    LET p == Target(c)
        tmp == TmpOf(Stem(c))
        path == YamlOf[Stem(c)]
    IN /\ At(c, "replace")
       /\ IF tmp \notin There(p) THEN Stop(c)
          ELSE /\ disk' = [disk EXCEPT ![p] = [[@ EXCEPT ![tmp] = Absent] EXCEPT ![path] = disk[p][tmp]]]
               /\ fd' = Moved(p, tmp, path)
               /\ IF Stem(c) = "config" THEN Believe(c) ELSE UNCHANGED believed
               /\ causes' = [causes EXCEPT ![p] = @ \cup
                       (IF Stem(c) = "tests" /\ There(p) \cap OtherTests # {} THEN {"beside"} ELSE {})]
               /\ GoOn(c)
               /\ UNCHANGED <<folder, runs, clock, job, got, left, report, jobs>>

\* if other.exists(): other.unlink()
Unlink(c) ==
    LET other == JsonOf[Stem(c)]
    IN /\ At(c, "unlink")
       /\ disk' = [disk EXCEPT ![Target(c)][other] = Absent]
       /\ fd' = Closed(Target(c), {other})
       /\ GoOn(c)
       /\ UNCHANGED <<folder, runs, clock, job, got, left, report, jobs, history>>

-----------------------------------------------------------------------------
(* Copying and removing *)

\* Mutant: a results folder of another name is copied.
CopiedAnyOutput(p) == There(p) \ {"results"}

\* _NEVER_COPY, and databases wherever they are.
Copied(p) == There(p) \ Places

\* shutil.copytree: what is in the source now will be copied, file by file.
CopyTree(c) ==
    /\ At(c, "copytree")
    /\ IF Target(c) \in folder \/ job[c].on \notin folder THEN Stop(c)
       ELSE /\ folder' = folder \cup {Target(c)}
            /\ left' = [left EXCEPT ![c] = Copied(job[c].on)]
            /\ causes' = [causes EXCEPT ![Target(c)] =
                    @ \cup (causes[job[c].on] \cap {"left", "beside", "copied"})
                      \cup (IF "overlap" \in causes[job[c].on] THEN {"copied"} ELSE {})]
            /\ GoOn(c)
            /\ UNCHANGED <<disk, runs, clock, job, got, fd, report, jobs, believed>>

\* A file that is gone by now is an error at the end, when the rest is copied.
Copy(c) ==
    LET from == job[c].on
        to == Target(c)
    IN /\ At(c, "copy")
       /\ IF left[c] = {}
          THEN IF got[c] = NULL
               THEN /\ GoOn(c)
                    /\ UNCHANGED <<folder, disk, runs, clock, job, got, fd, left, report, jobs, history>>
               ELSE Stop(c)
          ELSE \E path \in left[c] :
                  /\ left' = [left EXCEPT ![c] = @ \ {path}]
                  /\ IF disk[from][path].kind = "absent" \/ to \notin folder
                     THEN /\ got' = [got EXCEPT ![c] = "missed"]
                          /\ UNCHANGED <<disk, runs, believed>>
                     ELSE /\ disk' = [disk EXCEPT ![to][path] = disk[from][path]]
                          /\ runs' = [runs EXCEPT ![to] = @ \cup {r \in runs[from] : r.place = path}]
                          /\ believed' = IF path = ConfigFile(from)
                                         THEN [believed EXCEPT ![to] = disk[from][path].holds] ELSE believed
                          /\ UNCHANGED got
                  /\ UNCHANGED <<folder, clock, todo, job, fd, report, jobs, causes>>

\* cmd_rm shows a plan and asks; the browser has asked before.
Confirm(c) ==
    /\ At(c, "confirm")
    /\ IF Target(c) \in folder
       THEN /\ GoOn(c) \/ Leave(c)
            /\ UNCHANGED <<folder, disk, runs, clock, job, got, fd, left, report, jobs, history>>
       ELSE Stop(c)

\* Mutant: everything goes, whatever was asked to be kept.
DoomedAll(p, say) == There(p)

Doomed(p, say) == IF say = "keep" THEN There(p) \ {"results"} ELSE There(p)

\* delete_project: what goes is decided before anything goes.
List(c) ==
    /\ At(c, "list")
    /\ IF Target(c) \in folder
       THEN /\ left' = [left EXCEPT ![c] = Doomed(Target(c), job[c].say)]
            /\ GoOn(c)
            /\ UNCHANGED <<folder, disk, runs, clock, job, got, fd, report, jobs, history>>
       ELSE Stop(c)

\* path.unlink() and shutil.rmtree, one entry after the other.  One that is gone
\* by now is an error for the first, and may be for the second; an entry that
\* came since keeps rmtree from removing the folder.
Erase(c) ==
    LET p == Target(c)
    IN /\ At(c, "remove")
       /\ IF left[c] = {}
          THEN IF job[c].say = "all" /\ There(p) # {} THEN Stop(c)
               ELSE /\ folder' = IF job[c].say = "all" THEN folder \ {p} ELSE folder
                    /\ GoOn(c)
                    /\ UNCHANGED <<disk, runs, clock, job, got, fd, left, report, jobs, history>>
          ELSE \E path \in left[c] :
                  \/ /\ path \in There(p) \/ job[c].say = "all"
                     /\ left' = [left EXCEPT ![c] = @ \ {path}]
                     /\ disk' = [disk EXCEPT ![p][path] = Absent]
                     /\ runs' = [runs EXCEPT ![p] = {r \in @ : r.place # path}]
                     /\ fd' = Closed(p, {path})
                     /\ UNCHANGED <<folder, clock, todo, job, got, report, jobs, history>>
                  \/ path \notin There(p) /\ Stop(c)

-----------------------------------------------------------------------------
(* Runs and watch *)

\* ResultStore and start_run: the database and its folders are made if need be.
Start(c) ==
    LET p == Target(c)
        place == got[c].config.output
    IN /\ At(c, "start")
       /\ folder' = folder \cup {p}
       /\ disk' = [disk EXCEPT ![p][place] = Whole(NULL)]
       /\ runs' = [runs EXCEPT ![p] = @ \cup {[id |-> clock + 1, place |-> place, name |-> got[c].config.name,
                                               home |-> p, ranked |-> FALSE, live |-> TRUE]}]
       /\ clock' = clock + 1
       /\ fd' = [fd EXCEPT ![c] = <<p, place>>]
       /\ left' = [left EXCEPT ![c] = {clock + 1}]
       /\ GoOn(c)
       /\ UNCHANGED <<job, got, report, jobs, history>>

\* finish_run, into the database that was opened, wherever that is by now.
Finish(c) ==
    /\ At(c, "finish")
    /\ runs' = IF fd[c] = NULL THEN runs
               ELSE [runs EXCEPT ![Target(c)] =
                        {IF r.id \in left[c] THEN [r EXCEPT !.ranked = TRUE] ELSE r : r \in @}]
    /\ fd' = [fd EXCEPT ![c] = NULL]
    /\ GoOn(c)
    /\ UNCHANGED <<folder, disk, clock, job, got, left, report, jobs, history>>

\* delete_run: of a run, for now.
Drop(c) ==
    /\ At(c, "drop")
    /\ \/ \E r \in runs[Target(c)] :
             /\ r.live
             /\ runs' = [runs EXCEPT ![Target(c)] = (@ \ {r}) \cup {[r EXCEPT !.live = FALSE]}]
             /\ GoOn(c)
             /\ UNCHANGED <<folder, disk, clock, job, got, fd, left, report, jobs, history>>
       \/ (\A r \in runs[Target(c)] : ~r.live) /\ Stop(c)

\* The runs that model_history answers from.
RankedRuns(p, config) ==
    {r.id : r \in {r \in runs[p] : r.place = config.output /\ r.name = config.name /\ r.ranked /\ r.live}}

\* ORDER BY started_at DESC
NewestFirst(ids) ==
    CHOOSE rows \in [1..Cardinality(ids) -> ids] : \A i, j \in DOMAIN rows : i < j => rows[i] > rows[j]

\* model_history: the newest `limit` runs that were ranked and not deleted.
ModelHistory(p, config, limit) ==
    LET sorted == NewestFirst(RankedRuns(p, config))
    IN IF Len(sorted) <= limit THEN sorted ELSE SubSeq(sorted, 1, limit)

\* Mutant: the history is taken not to include this run.
PriorWithOwn(rows) == rows

\* compare_to_history: "history[0] is the run just recorded".
Prior(rows) == IF rows = <<>> THEN rows ELSE Tail(rows)

\* _watch_tick opens the database again, which makes it if it is gone.
Compare(c) ==
    LET p == Target(c)
    IN /\ At(c, "compare")
       /\ folder' = folder \cup {p}
       /\ disk' = [disk EXCEPT ![p][got[c].config.output] = Whole(NULL)]
       /\ report' = [report EXCEPT ![c] =
                        [own |-> left[c],
                         baseline |-> ToSet(Prior(ModelHistory(p, got[c].config, HistoryLimit + 1)))]]
       /\ GoOn(c)
       /\ UNCHANGED <<runs, clock, job, got, fd, left, jobs, history>>

Next ==
    \E c \in Clients :
        \/ Begin(c) \/ Die(c)
        \/ Free(c) \/ Source(c) \/ Load(c) \/ Read(c) \/ Discover(c)
        \/ Mkdir(c) \/ Build(c) \/ Open(c) \/ Truncate(c) \/ Write(c) \/ Replace(c) \/ Unlink(c)
        \/ CopyTree(c) \/ Copy(c) \/ Confirm(c) \/ List(c) \/ Erase(c)
        \/ Start(c) \/ Finish(c) \/ Drop(c) \/ Compare(c)

Spec == Init /\ [][Next]_vars

-----------------------------------------------------------------------------
(* What must hold *)

\* Nobody has the config of a folder open.
Settled(p) == \A c \in Clients : Busy(c) => p \notin Touched(job[c])

\* A config that does not parse was being rewritten in place, by archive or
\* duplicate, when that died, or was written by two at once: the editor's own
\* saves, which may die anywhere, replace a whole text by a whole text.
BrokenConfigsHaveACause ==
    \A p \in Names :
        Settled(p) /\ ConfigFile(p) # NULL /\ ~Parses(p) => causes[p] \cap {"half", "overlap"} # {}

\* As long as no two operations meet in a folder, and no copy or delete was left
\* half done, what was edited stays edited: an operation changes what it is about and
\* nothing that was saved before, wherever one of them died.
EditsAreNotUndone ==
    \A p \in Names :
        Settled(p) /\ Parses(p) => Config(p) = believed[p] \/ causes[p] \cap {"half", "overlap"} # {}

\* No two cases of a file that was written have one id, and the cases of a
\* project are in one file, or a save died before it removed the
\* old format, or the file was a .yml, .jsonl or .ndjson, which a save reads and
\* leaves beside its own, or two operations met in the folder or in the one that
\* it was copied from.
\* Of two files with the same cases the project can no longer be opened.
ExamplesAreNotDoubled ==
    \A p \in Names :
        /\ \A path \in TestFiles(p) : disk[p][path].kind = "whole" => IsInjective(disk[p][path].holds)
        /\ Settled(p) /\ Cardinality(TestFiles(p)) > 1 =>
              causes[p] \cap {"left", "beside", "overlap", "copied"} # {}

\* "an existing file of the other format is replaced so a project never ends up
\* with both" (_write_structured): of the cases, when no save was cut short and no
\* two operations met, in the folder or in the one that it was copied from.
SavesLeaveOneFormat ==
    \A p \in Names :
        Settled(p) /\ causes[p] \cap {"left", "overlap", "copied"} = {} => Cardinality(TestFiles(p)) <= 1

\* Runs are recorded where they ran and under the name of their folder, which
\* a copy has from the end of its copying on.
HistoryIsNotMisattributed ==
    \A p \in Names : \A r \in runs[p] :
        r.home = p /\ (r.name = p \/ causes[p] \cap {"half", "overlap"} # {})

\* A run that is recorded stays recorded until somebody deletes the project, and
\* also then if results are to be kept and are in the folder of that name.
KeptHistorySurvives ==
    [][\A p \in Names : \A r \in runs[p] :
          (\A s \in runs'[p] : s.id # r.id) =>
              \E c \in Clients :
                 /\ At(c, "remove") /\ Target(c) = p
                 /\ job[c].say = "keep" => r.place # "results"]_vars

\* A tick of watch compares with the newest runs that started before its own,
\* unless a run that started later was ranked first or its own was deleted.
WatchComparesWithThePast ==
    [][\A c \in Clients : report[c] = NULL /\ report'[c] # NULL =>
          LET ranked == RankedRuns(Target(c), got[c].config)
              earlier == {n \in ranked : \A own \in left[c] : n < own}
          IN \/ \E n \in ranked : \A own \in left[c] : n > own
             \/ ~(left[c] \subseteq ranked)
             \/ report'[c].baseline =
                    {n \in earlier : Cardinality({m \in earlier : m > n}) < HistoryLimit}]_vars
=============================================================================
