--------------------------- MODULE ProjectsProofs ---------------------------
(***************************************************************************)
(* What becomes of configs and of recorded runs, for any names, clients    *)
(* and number of operations, each of which may die anywhere: as long as    *)
(* no two of them meet in a folder, a folder belongs to the one operation  *)
(* that is about it, and what that one has done so far is known from the   *)
(* stage it has come to.                                                   *)
(***************************************************************************)
EXTENDS Projects, FoldFacts, SequenceTheorems, TLAPS

-----------------------------------------------------------------------------
(* Where an operation is, without the sequence of its stages *)

Done == <<"done", "-">>
Place(c) == IF Busy(c) THEN Head(todo[c]) ELSE Done

Plain(stage) == <<stage, "-">>
OnConfig(stage) == <<stage, "config">>
OnTests(stage) == <<stage, "tests">>

SaveConfig == {OnConfig("open"), OnConfig("write"), OnConfig("replace"), OnConfig("unlink")}
SaveTests == {OnTests("open"), OnTests("write"), OnTests("replace"), OnTests("unlink")}

Does == {"create", "update", "save_tests", "archive", "duplicate", "delete", "run", "watch", "drop"}

\* The stages of each operation.
StagesOf(do) ==
    CASE do = "create" -> {Plain("free"), Plain("mkdir"), Plain("build")} \cup SaveConfig \cup SaveTests
      [] do = "update" -> {Plain("load"), Plain("read")} \cup SaveConfig
      [] do = "save_tests" -> {Plain("load"), Plain("discover")} \cup SaveTests
      [] do = "archive" -> {Plain("read"), OnConfig("truncate"), OnConfig("write")}
      [] do = "duplicate" -> {Plain("source"), Plain("copytree"), Plain("copy"), Plain("read"),
                              OnConfig("truncate"), OnConfig("write")}
      [] do = "delete" -> {Plain("confirm"), Plain("list"), Plain("remove")}
      [] do = "run" -> {Plain("load"), Plain("start"), Plain("finish")}
      [] do = "watch" -> {Plain("load"), Plain("start"), Plain("finish"), Plain("compare")}
      [] do = "drop" -> {Plain("drop")}
Steps == UNION {StagesOf(do) : do \in Does}

First(do) ==
    CASE do = "create" -> Plain("free")
      [] do \in {"update", "save_tests", "run", "watch"} -> Plain("load")
      [] do = "archive" -> Plain("read")
      [] do = "duplicate" -> Plain("source")
      [] do = "delete" -> Plain("confirm")
      [] do = "drop" -> Plain("drop")

\* The stage that follows another in an operation.
After(do, at) ==
    CASE at = Plain("free") -> Plain("mkdir")
      [] at = Plain("mkdir") -> Plain("build")
      [] at = Plain("build") -> OnConfig("open")
      [] at = OnConfig("open") -> OnConfig("write")
      [] at = OnTests("open") -> OnTests("write")
      [] at = OnConfig("truncate") -> OnConfig("write")
      [] at = OnConfig("write") -> IF do \in {"create", "update"} THEN OnConfig("replace") ELSE Done
      [] at = OnTests("write") -> OnTests("replace")
      [] at = OnConfig("replace") -> OnConfig("unlink")
      [] at = OnTests("replace") -> OnTests("unlink")
      [] at = OnConfig("unlink") -> IF do = "create" THEN OnTests("open") ELSE Done
      [] at = Plain("load") -> CASE do = "update" -> Plain("read")
                                 [] do = "save_tests" -> Plain("discover")
                                 [] OTHER -> Plain("start")
      [] at = Plain("read") -> IF do = "update" THEN OnConfig("open") ELSE OnConfig("truncate")
      [] at = Plain("discover") -> OnTests("open")
      [] at = Plain("source") -> Plain("copytree")
      [] at = Plain("copytree") -> Plain("copy")
      [] at = Plain("copy") -> Plain("read")
      [] at = Plain("confirm") -> Plain("list")
      [] at = Plain("list") -> Plain("remove")
      [] at = Plain("start") -> Plain("finish")
      [] at = Plain("finish") -> IF do = "watch" THEN Plain("compare") ELSE Done
      [] OTHER -> Done

\* Every stage of the list is followed by the one that comes after it.
Chain(do, list, next) ==
    \A i \in 1..Len(list) : After(do, list[i]) = IF i = Len(list) THEN next ELSE list[i + 1]

-----------------------------------------------------------------------------
(* The inductive invariant *)

AllJobs == [do : Does, on : Names, to : Names, say : {"-", "values", "models", "hide", "show", "all", "keep"},
            nth : Nat]

Shape ==
    /\ jobs \in Nat
    /\ todo \in [Clients -> Seq(Steps)]
    /\ DOMAIN job = Clients /\ DOMAIN got = Clients /\ DOMAIN left = Clients
    /\ fd \in [Clients -> (Names \X Paths) \cup {NULL}]
    /\ DOMAIN disk = Names /\ \A p \in Names : DOMAIN disk[p] = Paths
    /\ DOMAIN runs = Names /\ DOMAIN believed = Names /\ DOMAIN causes = Names

TodoOK ==
    \A c \in Clients : Busy(c) =>
        /\ job[c] \in AllJobs
        /\ job[c].do = "update" => job[c].say \in {"values", "models"}
        /\ job[c].do = "duplicate" <=> job[c].on # job[c].to
        /\ Place(c) \in StagesOf(job[c].do)
        /\ Chain(job[c].do, todo[c], Done)

Clean(p) == causes[p] \cap {"half", "overlap"} = {}

\* Who meets another leaves no folder of either clean.
MeetingsAreKnown ==
    \A c, d \in Clients :
        c # d /\ Busy(c) /\ Busy(d) /\ Touched(job[c]) \cap Touched(job[d]) # {} =>
            \A p \in Touched(job[c]) \cup Touched(job[d]) : ~Clean(p)

\* The files that a text of a kind may be in.
FilesOf(stem) == IF stem = "config" THEN ConfigPaths \cup {"config.tmp"} ELSE TestPaths \cup {"tests.tmp"}

\* Nothing is in a folder that is not there, and what is open is there.
FilesOK ==
    /\ \A p \in Names \ folder : There(p) = {}
    /\ \A p \in Names : \A path \in FilesOf("config") :
          disk[p][path].kind = "whole" => disk[p][path].holds \in Configs
    /\ \A c \in Clients : fd[c] # NULL =>
          /\ Place(c)[1] \in {"write", "finish"}
          /\ fd[c][1] = Target(c)
          /\ fd[c][2] \in There(Target(c))
          /\ Place(c)[1] = "write" => fd[c][2] \in FilesOf(Place(c)[2])

\* The stages in which a client has a config in its hands.
HasConfig == {OnConfig("open"), OnConfig("truncate"), OnConfig("write"), OnConfig("replace"),
              Plain("start"), Plain("finish"), Plain("compare")}

\* What a client holds, whoever else is about.
HoldsOK(c) ==
    /\ Place(c) \in HasConfig => got[c].config \in Configs
    /\ Place(c) = OnConfig("truncate") \/ (Place(c) = Plain("read") /\ job[c].do = "update") =>
          \E path \in ConfigPaths : left[c] = {path}
    /\ Place(c) = Plain("copy") => left[c] \subseteq Paths \ Places
    /\ Place(c) = Plain("remove") =>
          left[c] \subseteq Paths /\ (job[c].say = "keep" => "results" \notin left[c])

\* The config that there is parses, is what was believed, and has the folder's name.
ConfigGood(p) ==
    ConfigFile(p) # NULL =>
        /\ disk[p][ConfigFile(p)].kind = "whole"
        /\ disk[p][ConfigFile(p)].holds = believed[p]
        /\ believed[p].name = p

\* What a client will write is what was believed, with its edit.
WritesAnEdit(c) ==
    /\ believed[Target(c)] \in Configs
    /\ got[c].config = Edit(believed[Target(c)], job[c], got[c].config.loads)
    /\ job[c].do # "duplicate" => believed[Target(c)].name = Target(c)

\* What a client of a clean folder has done so far, by the stage it has come to.
SavesInPlace(c) ==
    LET p == Target(c)
    IN /\ Place(c) \in {OnConfig("open"), OnConfig("write"), OnConfig("replace")} =>
              /\ job[c].do = "update" => WritesAnEdit(c)
              /\ job[c].do = "create" => got[c].config.name = p
       /\ Place(c) = OnConfig("write") /\ job[c].do \in {"create", "update"} =>
              fd[c] = <<p, "config.tmp">> /\ disk[p]["config.tmp"].kind = "empty"
       /\ Place(c) = OnConfig("replace") =>
              disk[p]["config.tmp"].kind = "whole" /\ disk[p]["config.tmp"].holds = got[c].config

RewritesInPlace(c) ==
    LET p == Target(c)
    IN /\ \/ Place(c) = OnConfig("truncate")
          \/ Place(c) = Plain("read") /\ job[c].do = "update"
          => ConfigFile(p) # NULL /\ left[c] = {ConfigFile(p)}
       /\ Place(c) \in {OnConfig("truncate"), OnConfig("write")} /\ job[c].do \in {"archive", "duplicate"}
          => WritesAnEdit(c)
       /\ Place(c) = OnConfig("write") /\ job[c].do \in {"archive", "duplicate"} =>
              /\ ConfigFile(p) # NULL /\ fd[c] = <<p, ConfigFile(p)>>
              /\ disk[p][ConfigFile(p)].kind = "empty"

Copies(c) ==
    LET p == Target(c)
        from == job[c].on
    IN /\ Place(c) = Plain("copy") /\ got[c] = NULL =>
              /\ \A path \in ConfigPaths :
                    IF path \in There(from) \ left[c] THEN disk[p][path] = disk[from][path]
                    ELSE path \notin There(p)
              /\ (ConfigFile(from) # NULL /\ ConfigFile(from) \notin left[c]) =>
                    believed[p] = disk[from][ConfigFile(from)].holds
       /\ Place(c) = Plain("read") /\ job[c].do = "duplicate" /\ ConfigFile(p) # NULL =>
              disk[p][ConfigFile(p)].holds = believed[p]

Removes(c) == Place(c) = Plain("remove") => ConfigPaths \cap There(Target(c)) \subseteq left[c]

Records(c) == Place(c) = Plain("start") => got[c].config.name = Target(c)

Undisturbed(c) ==
    SavesInPlace(c) /\ RewritesInPlace(c) /\ Copies(c) /\ Removes(c) /\ Records(c)

\* The stages between which the config of a folder is not what it was or will be.
Disturbs(c) ==
    \/ Place(c) \in {Plain("copy"), Plain("remove")}
    \/ job[c].do = "duplicate" /\ Place(c) \in {Plain("read"), OnConfig("truncate")}
    \/ job[c].do \in {"archive", "duplicate"} /\ Place(c) = OnConfig("write")

FolderOK(p) ==
    Clean(p) => ConfigGood(p) \/ \E c \in Clients : Busy(c) /\ Target(c) = p /\ Disturbs(c)

HistoryOK(p) ==
    \A r \in runs[p] :
        /\ {"id", "home", "place", "name"} \subseteq DOMAIN r
        /\ r.home = p /\ r.place \in Places /\ (r.name = p \/ ~Clean(p))

IInv ==
    /\ Shape
    /\ TodoOK
    /\ MeetingsAreKnown
    /\ FilesOK
    /\ \A c \in Clients : HoldsOK(c)
    /\ \A c \in Clients : Busy(c) /\ Clean(Target(c)) => Undisturbed(c)
    /\ \A p \in Names : FolderOK(p) /\ HistoryOK(p)
-----------------------------------------------------------------------------
(* How an operation moves through its stages *)

LEMMA FollowingStages ==
  ASSUME NEW do \in Does, NEW at \in StagesOf(do)
  PROVE  /\ After(do, at) \in StagesOf(do) \cup {Done}
         /\ First(do) \in StagesOf(do)
         /\ at # Done
  BY DEF Does, StagesOf, After, First, Done, Plain, OnConfig, OnTests, SaveConfig, SaveTests

\* One list after the other.
LEMMA ChainOfTwo ==
  ASSUME NEW do, NEW one \in Seq(Steps), NEW two \in Seq(Steps), two # <<>>, NEW next,
         Chain(do, one, two[1]), Chain(do, two, next)
  PROVE  Chain(do, one \o two, next) /\ one \o two \in Seq(Steps) /\ one \o two # <<>>
<1>1. /\ Len(one) \in Nat /\ Len(two) \in Nat \ {0} /\ one \o two \in Seq(Steps)
      /\ Len(one \o two) = Len(one) + Len(two)
      /\ \A i \in 1..(Len(one) + Len(two)) :
            (one \o two)[i] = IF i <= Len(one) THEN one[i] ELSE two[i - Len(one)]
  BY EmptySeq, ConcatProperties
<1>2. one \o two # <<>>
  BY <1>1, EmptySeq
<1> DEFINE both == one \o two
<1> HIDE DEF both
<1>3. ASSUME NEW i \in 1..Len(both) PROVE After(do, both[i]) = IF i = Len(both) THEN next ELSE both[i + 1]
  <2>1. CASE i < Len(one)
    BY <1>1, <2>1 DEF both, Chain
  <2>2. CASE i = Len(one)
    <3>1. /\ i \in 1..(Len(one) + Len(two)) /\ i <= Len(one) /\ i \in 1..Len(one)
          /\ i + 1 \in 1..(Len(one) + Len(two)) /\ ~(i + 1 <= Len(one))
          /\ (i + 1) - Len(one) = 1 /\ i # Len(both)
      BY <1>1, <2>2 DEF both
    <3>2. both[i] = one[i] /\ both[i + 1] = two[1]
      BY <1>1, <3>1 DEF both
    <3>3. After(do, one[i]) = two[1]
      BY <2>2, <3>1 DEF Chain
    <3> QED
      BY <3>1, <3>2, <3>3
  <2>3. CASE i > Len(one)
    <3>1. PICK k : k = i - Len(one) /\ k \in 1..Len(two)
      <4>1. i - Len(one) \in 1..Len(two)
        BY <1>1, <2>3 DEF both
      <4> QED
        BY <4>1
    <3>2. Len(both) = Len(one) + Len(two) /\ i \in Int /\ k \in Int /\ Len(one) \in Int /\ Len(two) \in Int
      BY <1>1, <3>1 DEF both
    <3>3. /\ i \in 1..(Len(one) + Len(two)) /\ ~(i <= Len(one))
          /\ (i = Len(one) + Len(two) <=> k = Len(two))
      BY <2>3, <3>1, <3>2
    <3>4. i # Len(both) => /\ i + 1 \in 1..(Len(one) + Len(two)) /\ ~(i + 1 <= Len(one))
                           /\ (i + 1) - Len(one) = k + 1
      BY <2>3, <3>1, <3>2
    <3>5. both[i] = two[k]
      BY <1>1, <3>1, <3>3 DEF both
    <3>6. ASSUME i # Len(both) PROVE both[i + 1] = two[k + 1]
      <4>1. both[i + 1] = two[(i + 1) - Len(one)]
        BY <1>1, <3>4, <3>6 DEF both
      <4> QED
        BY <3>4, <3>6, <4>1
    <3>7. After(do, two[k]) = IF k = Len(two) THEN next ELSE two[k + 1]
      BY <3>1 DEF Chain
    <3> QED
      BY <3>2, <3>3, <3>5, <3>6, <3>7
  <2>4. i \in Int /\ Len(one) \in Int
    BY <1>1
  <2> QED
    BY <2>1, <2>2, <2>3, <2>4
<1> QED
  BY <1>1, <1>2, <1>3 DEF Chain, both

\* Save(stem) and Rewrite are such lists.
LEMMA SaveChain ==
  ASSUME NEW do \in {"create", "update", "save_tests"}, NEW stem \in {"config", "tests"},
         do = "save_tests" => stem = "tests"
  PROVE  /\ Save(stem) \in Seq(Steps) /\ Save(stem) # <<>> /\ Save(stem)[1] = <<"open", stem>>
         /\ Chain(do, Save(stem), After(do, <<"unlink", stem>>))
<1>1. /\ Len(Save(stem)) = 4 /\ Save(stem)[1] = <<"open", stem>> /\ Save(stem)[2] = <<"write", stem>>
      /\ Save(stem)[3] = <<"replace", stem>> /\ Save(stem)[4] = <<"unlink", stem>> /\ Save(stem) # <<>>
  BY DEF Save
<1>2. Save(stem) \in Seq(Steps)
  <2>1. /\ <<"open", stem>> \in StagesOf("create") /\ <<"write", stem>> \in StagesOf("create")
        /\ <<"replace", stem>> \in StagesOf("create") /\ <<"unlink", stem>> \in StagesOf("create")
    BY DEF StagesOf, SaveConfig, SaveTests, OnConfig, OnTests
  <2>2. StagesOf("create") \subseteq Steps
    BY DEF Steps, Does
  <2> QED
    BY <2>1, <2>2 DEF Save
<1>3. /\ After(do, <<"open", stem>>) = <<"write", stem>>
      /\ After(do, <<"write", stem>>) = <<"replace", stem>>
      /\ After(do, <<"replace", stem>>) = <<"unlink", stem>>
  BY DEF After, OnConfig, OnTests, Plain
<1>4. ASSUME NEW i \in 1..4
      PROVE  After(do, Save(stem)[i]) = IF i = 4 THEN After(do, <<"unlink", stem>>) ELSE Save(stem)[i + 1]
  <2>1. i = 1 \/ i = 2 \/ i = 3 \/ i = 4
    OBVIOUS
  <2> QED
    BY <1>1, <1>3, <2>1
<1> QED
  BY <1>1, <1>2, <1>4 DEF Chain

LEMMA RewriteChain ==
  ASSUME NEW do \in {"archive", "duplicate"}
  PROVE  /\ Rewrite \in Seq(Steps) /\ Rewrite # <<>> /\ Rewrite[1] = <<"truncate", "config">>
         /\ Chain(do, Rewrite, Done)
<1>1. /\ Len(Rewrite) = 2 /\ Rewrite[1] = <<"truncate", "config">> /\ Rewrite[2] = <<"write", "config">>
      /\ Rewrite # <<>>
  BY DEF Rewrite
<1>2. Rewrite \in Seq(Steps)
  <2>1. /\ <<"truncate", "config">> \in StagesOf("archive") /\ <<"write", "config">> \in StagesOf("archive")
        /\ StagesOf("archive") \subseteq Steps
    BY DEF StagesOf, OnConfig, Steps, Does
  <2> QED
    BY <2>1 DEF Rewrite
<1>3. /\ After(do, <<"truncate", "config">>) = <<"write", "config">>
      /\ After(do, <<"write", "config">>) = Done
  BY DEF After, OnConfig, OnTests, Plain, Done
<1>4. ASSUME NEW i \in 1..2
      PROVE  After(do, Rewrite[i]) = IF i = 2 THEN Done ELSE Rewrite[i + 1]
  <2>1. i = 1 \/ i = 2
    OBVIOUS
  <2> QED
    BY <1>1, <1>3, <2>1
<1> QED
  BY <1>1, <1>2, <1>4 DEF Chain

LEMMA HeadOfTwo ==
  ASSUME NEW one \in Seq(Steps), one # <<>>, NEW two \in Seq(Steps)
  PROVE  (one \o two)[1] = one[1]
<1>1. Len(one) \in Nat \ {0} /\ Len(two) \in Nat
  BY EmptySeq
<1> QED
  BY <1>1, ConcatProperties

\* The stages of an operation are among its steps.
LEMMA StepsOf == ASSUME NEW do \in Does PROVE StagesOf(do) \subseteq Steps
  BY DEF Steps

\* An operation's stages are those that follow one another from its first on.
LEMMA StagesChain ==
  ASSUME NEW do \in Does
  PROVE  /\ Stages(do) \in Seq(Steps) /\ Stages(do) # <<>>
         /\ Stages(do)[1] = First(do)
         /\ Chain(do, Stages(do), Done)
<1> DEFINE list == Stages(do)
<1>1. CASE do = "delete"
  <2>1. list = <<<<"confirm", "-">>, <<"list", "-">>, <<"remove", "-">>>>
    BY <1>1 DEF Stages
  <2>2. /\ Len(list) = 3 /\ list # <<>>
        /\ list[1] = <<"confirm", "-">>
        /\ list[2] = <<"list", "-">>
        /\ list[3] = <<"remove", "-">>
    BY <2>1
  <2>3. list \in Seq(Steps)
    <3>1. <<"confirm", "-">> \in StagesOf(do) /\ <<"list", "-">> \in StagesOf(do) /\ <<"remove", "-">> \in StagesOf(do)
      BY <1>1 DEF StagesOf, Plain, OnConfig
    <3> QED
      BY <2>1, <3>1, StepsOf
  <2> HIDE DEF list
  <2>4. /\ After(do, <<"confirm", "-">>) = <<"list", "-">>
        /\ After(do, <<"list", "-">>) = <<"remove", "-">>
        /\ After(do, <<"remove", "-">>) = Done
    BY <1>1 DEF After, Plain, OnConfig, OnTests, Done
  <2>5. ASSUME NEW i \in 1..3
        PROVE  After(do, list[i]) = IF i = 3 THEN Done ELSE list[i + 1]
    <3>1. i = 1 \/ i = 2 \/ i = 3
      OBVIOUS
    <3>2. CASE i = 1
      BY <2>2, <2>4, <3>2
    <3>3. CASE i = 2
      BY <2>2, <2>4, <3>3
    <3>4. CASE i = 3
      BY <2>2, <2>4, <3>4
    <3> QED
      BY <3>1, <3>2, <3>3, <3>4
  <2>6. list[1] = First(do)
    BY <1>1, <2>2 DEF First, Plain
  <2> QED
    BY <2>2, <2>3, <2>5, <2>6 DEF Chain, list
<1>2. CASE do = "run"
  <2>1. list = <<<<"load", "-">>, <<"start", "-">>, <<"finish", "-">>>>
    BY <1>2 DEF Stages
  <2>2. /\ Len(list) = 3 /\ list # <<>>
        /\ list[1] = <<"load", "-">>
        /\ list[2] = <<"start", "-">>
        /\ list[3] = <<"finish", "-">>
    BY <2>1
  <2>3. list \in Seq(Steps)
    <3>1. <<"load", "-">> \in StagesOf(do) /\ <<"start", "-">> \in StagesOf(do) /\ <<"finish", "-">> \in StagesOf(do)
      BY <1>2 DEF StagesOf, Plain, OnConfig
    <3> QED
      BY <2>1, <3>1, StepsOf
  <2> HIDE DEF list
  <2>4. /\ After(do, <<"load", "-">>) = <<"start", "-">>
        /\ After(do, <<"start", "-">>) = <<"finish", "-">>
        /\ After(do, <<"finish", "-">>) = Done
    BY <1>2 DEF After, Plain, OnConfig, OnTests, Done
  <2>5. ASSUME NEW i \in 1..3
        PROVE  After(do, list[i]) = IF i = 3 THEN Done ELSE list[i + 1]
    <3>1. i = 1 \/ i = 2 \/ i = 3
      OBVIOUS
    <3>2. CASE i = 1
      BY <2>2, <2>4, <3>2
    <3>3. CASE i = 2
      BY <2>2, <2>4, <3>3
    <3>4. CASE i = 3
      BY <2>2, <2>4, <3>4
    <3> QED
      BY <3>1, <3>2, <3>3, <3>4
  <2>6. list[1] = First(do)
    BY <1>2, <2>2 DEF First, Plain
  <2> QED
    BY <2>2, <2>3, <2>5, <2>6 DEF Chain, list
<1>3. CASE do = "watch"
  <2>1. list = <<<<"load", "-">>, <<"start", "-">>, <<"finish", "-">>, <<"compare", "-">>>>
    BY <1>3 DEF Stages
  <2>2. /\ Len(list) = 4 /\ list # <<>>
        /\ list[1] = <<"load", "-">>
        /\ list[2] = <<"start", "-">>
        /\ list[3] = <<"finish", "-">>
        /\ list[4] = <<"compare", "-">>
    BY <2>1
  <2>3. list \in Seq(Steps)
    <3>1. <<"load", "-">> \in StagesOf(do) /\ <<"start", "-">> \in StagesOf(do) /\ <<"finish", "-">> \in StagesOf(do) /\ <<"compare", "-">> \in StagesOf(do)
      BY <1>3 DEF StagesOf, Plain, OnConfig
    <3> QED
      BY <2>1, <3>1, StepsOf
  <2> HIDE DEF list
  <2>4. /\ After(do, <<"load", "-">>) = <<"start", "-">>
        /\ After(do, <<"start", "-">>) = <<"finish", "-">>
        /\ After(do, <<"finish", "-">>) = <<"compare", "-">>
        /\ After(do, <<"compare", "-">>) = Done
    BY <1>3 DEF After, Plain, OnConfig, OnTests, Done
  <2>5. ASSUME NEW i \in 1..4
        PROVE  After(do, list[i]) = IF i = 4 THEN Done ELSE list[i + 1]
    <3>1. i = 1 \/ i = 2 \/ i = 3 \/ i = 4
      OBVIOUS
    <3>2. CASE i = 1
      BY <2>2, <2>4, <3>2
    <3>3. CASE i = 2
      BY <2>2, <2>4, <3>3
    <3>4. CASE i = 3
      BY <2>2, <2>4, <3>4
    <3>5. CASE i = 4
      BY <2>2, <2>4, <3>5
    <3> QED
      BY <3>1, <3>2, <3>3, <3>4, <3>5
  <2>6. list[1] = First(do)
    BY <1>3, <2>2 DEF First, Plain
  <2> QED
    BY <2>2, <2>3, <2>5, <2>6 DEF Chain, list
<1>4. CASE do = "drop"
  <2>1. list = <<<<"drop", "-">>>>
    BY <1>4 DEF Stages
  <2>2. /\ Len(list) = 1 /\ list # <<>>
        /\ list[1] = <<"drop", "-">>
    BY <2>1
  <2>3. list \in Seq(Steps)
    <3>1. <<"drop", "-">> \in StagesOf(do)
      BY <1>4 DEF StagesOf, Plain, OnConfig
    <3> QED
      BY <2>1, <3>1, StepsOf
  <2> HIDE DEF list
  <2>4. /\ After(do, <<"drop", "-">>) = Done
    BY <1>4 DEF After, Plain, OnConfig, OnTests, Done
  <2>5. ASSUME NEW i \in 1..1
        PROVE  After(do, list[i]) = IF i = 1 THEN Done ELSE list[i + 1]
    <3>1. i = 1
      OBVIOUS
    <3>2. CASE i = 1
      BY <2>2, <2>4, <3>2
    <3> QED
      BY <3>1, <3>2
  <2>6. list[1] = First(do)
    BY <1>4, <2>2 DEF First, Plain
  <2> QED
    BY <2>2, <2>3, <2>5, <2>6 DEF Chain, list
<1>5. CASE do = "create"
  <2> DEFINE front == <<<<"free", "-">>, <<"mkdir", "-">>, <<"build", "-">>>>
  <2>1. /\ Len(front) = 3 /\ front # <<>>
        /\ front[1] = <<"free", "-">>
        /\ front[2] = <<"mkdir", "-">>
        /\ front[3] = <<"build", "-">>
    OBVIOUS
  <2>2. front \in Seq(Steps)
    <3>1. <<"free", "-">> \in StagesOf(do) /\ <<"mkdir", "-">> \in StagesOf(do) /\ <<"build", "-">> \in StagesOf(do)
      BY <1>5 DEF StagesOf, Plain, OnConfig
    <3> QED
      BY <3>1, StepsOf
  <2> HIDE DEF front
  <2>3. Chain(do, front, <<"open", "config">>)
    <3>1. /\ After(do, <<"free", "-">>) = <<"mkdir", "-">>
          /\ After(do, <<"mkdir", "-">>) = <<"build", "-">>
          /\ After(do, <<"build", "-">>) = <<"open", "config">>
      BY <1>5 DEF After, Plain, OnConfig, OnTests
    <3>2. ASSUME NEW i \in 1..3
          PROVE  After(do, front[i]) = IF i = 3 THEN <<"open", "config">> ELSE front[i + 1]
      <4>1. i = 1 \/ i = 2 \/ i = 3
        OBVIOUS
      <4>2. CASE i = 1
        BY <2>1, <3>1, <4>2
      <4>3. CASE i = 2
        <5>1. i + 1 = 3 /\ i # 3 /\ front[i] = <<"mkdir", "-">>
          BY <2>1, <4>3
        <5> QED
          BY <2>1, <3>1, <5>1
      <4>4. CASE i = 3
        BY <2>1, <3>1, <4>4
      <4> QED
        BY <4>1, <4>2, <4>3, <4>4
    <3> QED
      BY <2>1, <3>2 DEF Chain
  <2>4. front[1] = First(do)
    BY <1>5, <2>1 DEF First, Plain
  <2>5. /\ Chain(do, Save("config"), <<"open", "tests">>) /\ Save("config") \in Seq(Steps) /\ Save("config") # <<>>
        /\ Save("config")[1] = <<"open", "config">>
        /\ Chain(do, Save("tests"), Done) /\ Save("tests") \in Seq(Steps) /\ Save("tests") # <<>>
        /\ Save("tests")[1] = <<"open", "tests">>
    <3>1. After(do, <<"unlink", "tests">>) = Done /\ After(do, <<"unlink", "config">>) = <<"open", "tests">>
      BY <1>5 DEF After, Plain, OnConfig, OnTests
    <3> QED
      BY <1>5, <3>1, SaveChain
  <2> DEFINE most == front \o Save("config")
  <2>6. /\ Chain(do, most, <<"open", "tests">>) /\ most \in Seq(Steps) /\ most # <<>>
        /\ most[1] = First(do)
    <3>1. Chain(do, front, Save("config")[1])
      BY <2>3, <2>5
    <3>2. Chain(do, most, <<"open", "tests">>) /\ most \in Seq(Steps) /\ most # <<>>
      BY <2>2, <2>5, <3>1, ChainOfTwo
    <3>3. most[1] = First(do)
      BY <2>1, <2>2, <2>4, <2>5, HeadOfTwo
    <3> QED
      BY <3>2, <3>3
  <2>7. list = most \o Save("tests")
    BY <1>5 DEF Stages, front
  <2> HIDE DEF most
  <2> DEFINE save == Save("tests")
  <2>8. Chain(do, most, save[1])
    BY <2>5, <2>6
  <2>9. Chain(do, most \o save, Done) /\ most \o save \in Seq(Steps) /\ most \o save # <<>>
    BY <2>5, <2>6, <2>8, ChainOfTwo
  <2>10. (most \o save)[1] = First(do)
    BY <2>5, <2>6, HeadOfTwo
  <2> QED
    BY <2>7, <2>9, <2>10
<1>6. CASE do = "update"
  <2> DEFINE front == <<<<"load", "-">>, <<"read", "-">>>>
  <2>1. /\ Len(front) = 2 /\ front # <<>>
        /\ front[1] = <<"load", "-">>
        /\ front[2] = <<"read", "-">>
    OBVIOUS
  <2>2. front \in Seq(Steps)
    <3>1. <<"load", "-">> \in StagesOf(do) /\ <<"read", "-">> \in StagesOf(do)
      BY <1>6 DEF StagesOf, Plain, OnConfig
    <3> QED
      BY <3>1, StepsOf
  <2> HIDE DEF front
  <2>3. Chain(do, front, <<"open", "config">>)
    <3>1. /\ After(do, <<"load", "-">>) = <<"read", "-">>
          /\ After(do, <<"read", "-">>) = <<"open", "config">>
      BY <1>6 DEF After, Plain, OnConfig, OnTests
    <3>2. ASSUME NEW i \in 1..2
          PROVE  After(do, front[i]) = IF i = 2 THEN <<"open", "config">> ELSE front[i + 1]
      <4>1. i = 1 \/ i = 2
        OBVIOUS
      <4>2. CASE i = 1
        BY <2>1, <3>1, <4>2
      <4>3. CASE i = 2
        BY <2>1, <3>1, <4>3
      <4> QED
        BY <4>1, <4>2, <4>3
    <3> QED
      BY <2>1, <3>2 DEF Chain
  <2>4. front[1] = First(do)
    BY <1>6, <2>1 DEF First, Plain
  <2>5. /\ Chain(do, Save("config"), Done) /\ Save("config") \in Seq(Steps) /\ Save("config") # <<>>
        /\ Save("config")[1] = <<"open", "config">>
    <3>1. After(do, <<"unlink", "config">>) = Done
      BY <1>6 DEF After, Plain, OnConfig, OnTests
    <3> QED
      BY <1>6, <3>1, SaveChain
  <2>6. list = front \o Save("config")
    BY <1>6 DEF Stages, front
  <2> DEFINE save == Save("config")
  <2>7. Chain(do, front, save[1])
    BY <2>3, <2>5
  <2>8. Chain(do, front \o save, Done) /\ front \o save \in Seq(Steps) /\ front \o save # <<>>
    BY <2>2, <2>5, <2>7, ChainOfTwo
  <2>9. (front \o save)[1] = First(do)
    BY <2>1, <2>2, <2>4, <2>5, HeadOfTwo
  <2> QED
    BY <2>6, <2>8, <2>9
<1>7. CASE do = "save_tests"
  <2> DEFINE front == <<<<"load", "-">>, <<"discover", "-">>>>
  <2>1. /\ Len(front) = 2 /\ front # <<>>
        /\ front[1] = <<"load", "-">>
        /\ front[2] = <<"discover", "-">>
    OBVIOUS
  <2>2. front \in Seq(Steps)
    <3>1. <<"load", "-">> \in StagesOf(do) /\ <<"discover", "-">> \in StagesOf(do)
      BY <1>7 DEF StagesOf, Plain, OnConfig
    <3> QED
      BY <3>1, StepsOf
  <2> HIDE DEF front
  <2>3. Chain(do, front, <<"open", "tests">>)
    <3>1. /\ After(do, <<"load", "-">>) = <<"discover", "-">>
          /\ After(do, <<"discover", "-">>) = <<"open", "tests">>
      BY <1>7 DEF After, Plain, OnConfig, OnTests
    <3>2. ASSUME NEW i \in 1..2
          PROVE  After(do, front[i]) = IF i = 2 THEN <<"open", "tests">> ELSE front[i + 1]
      <4>1. i = 1 \/ i = 2
        OBVIOUS
      <4>2. CASE i = 1
        BY <2>1, <3>1, <4>2
      <4>3. CASE i = 2
        BY <2>1, <3>1, <4>3
      <4> QED
        BY <4>1, <4>2, <4>3
    <3> QED
      BY <2>1, <3>2 DEF Chain
  <2>4. front[1] = First(do)
    BY <1>7, <2>1 DEF First, Plain
  <2>5. /\ Chain(do, Save("tests"), Done) /\ Save("tests") \in Seq(Steps) /\ Save("tests") # <<>>
        /\ Save("tests")[1] = <<"open", "tests">>
    <3>1. After(do, <<"unlink", "tests">>) = Done
      BY <1>7 DEF After, Plain, OnConfig, OnTests
    <3> QED
      BY <1>7, <3>1, SaveChain
  <2>6. list = front \o Save("tests")
    BY <1>7 DEF Stages, front
  <2> DEFINE save == Save("tests")
  <2>7. Chain(do, front, save[1])
    BY <2>3, <2>5
  <2>8. Chain(do, front \o save, Done) /\ front \o save \in Seq(Steps) /\ front \o save # <<>>
    BY <2>2, <2>5, <2>7, ChainOfTwo
  <2>9. (front \o save)[1] = First(do)
    BY <2>1, <2>2, <2>4, <2>5, HeadOfTwo
  <2> QED
    BY <2>6, <2>8, <2>9
<1>8. CASE do = "archive"
  <2> DEFINE front == <<<<"read", "-">>>>
  <2>1. /\ Len(front) = 1 /\ front # <<>>
        /\ front[1] = <<"read", "-">>
    OBVIOUS
  <2>2. front \in Seq(Steps)
    <3>1. <<"read", "-">> \in StagesOf(do)
      BY <1>8 DEF StagesOf, Plain, OnConfig
    <3> QED
      BY <3>1, StepsOf
  <2> HIDE DEF front
  <2>3. Chain(do, front, <<"truncate", "config">>)
    <3>1. /\ After(do, <<"read", "-">>) = <<"truncate", "config">>
      BY <1>8 DEF After, Plain, OnConfig, OnTests
    <3>2. ASSUME NEW i \in 1..1
          PROVE  After(do, front[i]) = IF i = 1 THEN <<"truncate", "config">> ELSE front[i + 1]
      <4>1. i = 1
        OBVIOUS
      <4>2. CASE i = 1
        BY <2>1, <3>1, <4>2
      <4> QED
        BY <4>1, <4>2
    <3> QED
      BY <2>1, <3>2 DEF Chain
  <2>4. front[1] = First(do)
    BY <1>8, <2>1 DEF First, Plain
  <2>5. Chain(do, Rewrite, Done) /\ Rewrite \in Seq(Steps) /\ Rewrite # <<>> /\ Rewrite[1] = <<"truncate", "config">>
    BY <1>8, RewriteChain
  <2>6. list = front \o Rewrite
    BY <1>8 DEF Stages, front
  <2>7. Chain(do, front, Rewrite[1])
    BY <2>3, <2>5
  <2>8. Chain(do, front \o Rewrite, Done) /\ front \o Rewrite \in Seq(Steps) /\ front \o Rewrite # <<>>
    BY <2>2, <2>5, <2>7, ChainOfTwo
  <2>9. (front \o Rewrite)[1] = First(do)
    BY <2>1, <2>2, <2>4, <2>5, HeadOfTwo
  <2> QED
    BY <2>6, <2>8, <2>9
<1>9. CASE do = "duplicate"
  <2> DEFINE front == <<<<"source", "-">>, <<"copytree", "-">>, <<"copy", "-">>, <<"read", "-">>>>
  <2>1. /\ Len(front) = 4 /\ front # <<>>
        /\ front[1] = <<"source", "-">>
        /\ front[2] = <<"copytree", "-">>
        /\ front[3] = <<"copy", "-">>
        /\ front[4] = <<"read", "-">>
    OBVIOUS
  <2>2. front \in Seq(Steps)
    <3>1. <<"source", "-">> \in StagesOf(do) /\ <<"copytree", "-">> \in StagesOf(do) /\ <<"copy", "-">> \in StagesOf(do) /\ <<"read", "-">> \in StagesOf(do)
      BY <1>9 DEF StagesOf, Plain, OnConfig
    <3> QED
      BY <3>1, StepsOf
  <2> HIDE DEF front
  <2>3. Chain(do, front, <<"truncate", "config">>)
    <3>1. /\ After(do, <<"source", "-">>) = <<"copytree", "-">>
          /\ After(do, <<"copytree", "-">>) = <<"copy", "-">>
          /\ After(do, <<"copy", "-">>) = <<"read", "-">>
          /\ After(do, <<"read", "-">>) = <<"truncate", "config">>
      BY <1>9 DEF After, Plain, OnConfig, OnTests
    <3>2. ASSUME NEW i \in 1..4
          PROVE  After(do, front[i]) = IF i = 4 THEN <<"truncate", "config">> ELSE front[i + 1]
      <4>1. i = 1 \/ i = 2 \/ i = 3 \/ i = 4
        OBVIOUS
      <4>2. CASE i = 1
        BY <2>1, <3>1, <4>2
      <4>3. CASE i = 2
        BY <2>1, <3>1, <4>3
      <4>4. CASE i = 3
        BY <2>1, <3>1, <4>4
      <4>5. CASE i = 4
        BY <2>1, <3>1, <4>5
      <4> QED
        BY <4>1, <4>2, <4>3, <4>4, <4>5
    <3> QED
      BY <2>1, <3>2 DEF Chain
  <2>4. front[1] = First(do)
    BY <1>9, <2>1 DEF First, Plain
  <2>5. Chain(do, Rewrite, Done) /\ Rewrite \in Seq(Steps) /\ Rewrite # <<>> /\ Rewrite[1] = <<"truncate", "config">>
    BY <1>9, RewriteChain
  <2>6. list = front \o Rewrite
    BY <1>9 DEF Stages, front
  <2>7. Chain(do, front, Rewrite[1])
    BY <2>3, <2>5
  <2>8. Chain(do, front \o Rewrite, Done) /\ front \o Rewrite \in Seq(Steps) /\ front \o Rewrite # <<>>
    BY <2>2, <2>5, <2>7, ChainOfTwo
  <2>9. (front \o Rewrite)[1] = First(do)
    BY <2>1, <2>2, <2>4, <2>5, HeadOfTwo
  <2> QED
    BY <2>6, <2>8, <2>9
<1> QED
  BY <1>1, <1>2, <1>3, <1>4, <1>5, <1>6, <1>7, <1>8, <1>9 DEF Does

\* What an action's effect on todo means: client c is at `to`, the others are where they were.
Advances(c, to) ==
    /\ todo' \in [Clients -> Seq(Steps)]
    /\ TodoOK'
    /\ \A d \in Clients : Place(d)' = IF d = c THEN to ELSE Place(d)
    /\ \A d \in Clients : Busy(d)' <=> Place(d)' # Done

\* "done" is no stage, so a client is busy exactly if it is at some stage.
LEMMA DoneIsNoStage ==
  ASSUME NEW list \in Seq(Steps)
  PROVE  list # <<>> <=> (IF list # <<>> THEN Head(list) ELSE Done) # Done
<1>1. Done \notin Steps
  <2>1. \A do \in Does : Done \notin StagesOf(do)
    BY FollowingStages
  <2> QED
    BY <2>1 DEF Steps
<1>2. list # <<>> => Head(list) \in Steps
  BY EmptySeq, HeadTailProperties
<1> QED
  BY <1>1, <1>2

LEMMA PlaceIsStage ==
  ASSUME todo \in [Clients -> Seq(Steps)], NEW c \in Clients
  PROVE  Busy(c) <=> Place(c) # Done
<1>1. todo[c] \in Seq(Steps)
  OBVIOUS
<1> QED
  BY <1>1, DoneIsNoStage DEF Place, Busy

LEMMA PlaceIsStageNext ==
  ASSUME todo' \in [Clients -> Seq(Steps)], NEW c \in Clients
  PROVE  Busy(c)' <=> Place(c)' # Done
<1>1. todo'[c] \in Seq(Steps)
  OBVIOUS
<1> QED
  BY <1>1, DoneIsNoStage DEF Place, Busy

\* The tail of a list is chained as the list was.
LEMMA TailChain ==
  ASSUME NEW do, NEW list \in Seq(Steps), list # <<>>, Chain(do, list, Done)
  PROVE  /\ Tail(list) \in Seq(Steps)
         /\ Chain(do, Tail(list), Done)
         /\ (IF Tail(list) = <<>> THEN Done ELSE Head(Tail(list))) = After(do, Head(list))
<1>1. /\ Tail(list) \in Seq(Steps) /\ Len(Tail(list)) = Len(list) - 1
      /\ \A i \in 1..Len(Tail(list)) : Tail(list)[i] = list[i + 1]
      /\ Len(list) \in Nat /\ Len(list) >= 1 /\ Head(list) = list[1]
  OBVIOUS
<1>2. Chain(do, Tail(list), Done)
  <2> SUFFICES ASSUME NEW i \in 1..Len(Tail(list))
               PROVE  After(do, Tail(list)[i]) =
                        IF i = Len(Tail(list)) THEN Done ELSE Tail(list)[i + 1]
    BY DEF Chain
  <2>1. i + 1 \in 1..Len(list) /\ (i + 1 = Len(list) <=> i = Len(Tail(list)))
    BY <1>1
  <2>2. After(do, list[i + 1]) = IF i + 1 = Len(list) THEN Done ELSE list[i + 1 + 1]
    BY <2>1 DEF Chain
  <2>3. i # Len(Tail(list)) => Tail(list)[i + 1] = list[i + 1 + 1]
    <3>1. i # Len(Tail(list)) => i + 1 \in 1..Len(Tail(list))
      <4>1. Len(Tail(list)) \in Int
        BY <1>1
      <4> QED
        BY <4>1
    <3>2. ASSUME i + 1 \in 1..Len(Tail(list)) PROVE Tail(list)[i + 1] = list[(i + 1) + 1]
      BY <1>1, <3>2
    <3> QED
      BY <3>1, <3>2
  <2> QED
    BY <1>1, <2>1, <2>2, <2>3
<1>3. After(do, list[1]) = IF Len(list) = 1 THEN Done ELSE list[2]
  <2>1. 1 \in 1..Len(list) /\ 1 + 1 = 2
    BY <1>1
  <2> QED
    BY <2>1 DEF Chain
<1>4. Tail(list) = <<>> <=> Len(list) = 1
  <2>1. Tail(list) = <<>> <=> Len(Tail(list)) = 0
    BY <1>1, EmptySeq
  <2> QED
    BY <1>1, <2>1
<1>5. Len(list) # 1 => Head(Tail(list)) = list[2]
  <2>1. Len(list) # 1 => 1 \in 1..Len(Tail(list)) /\ Head(Tail(list)) = Tail(list)[1] /\ 1 + 1 = 2
    BY <1>1, <1>4
  <2> QED
    BY <1>1, <2>1
<1> QED
  BY <1>1, <1>2, <1>3, <1>4, <1>5

LEMMA GoOnAdvances ==
  ASSUME Shape, TodoOK, NEW c \in Clients, Busy(c), GoOn(c), job' = job
  PROVE  Advances(c, After(job[c].do, Place(c)))
<1> DEFINE list == todo[c]
<1>1. list \in Seq(Steps) /\ list # <<>> /\ todo \in [Clients -> Seq(Steps)]
  BY DEF Shape, Busy
<1>2. job[c].do \in Does /\ Place(c) \in StagesOf(job[c].do) /\ Chain(job[c].do, list, Done)
  BY DEF TodoOK, AllJobs
<1>3. /\ Tail(list) \in Seq(Steps) /\ Chain(job[c].do, Tail(list), Done)
      /\ (IF Tail(list) = <<>> THEN Done ELSE Head(Tail(list))) = After(job[c].do, Head(list))
  BY <1>1, <1>2, TailChain
<1>4. \A d \in Clients : todo'[d] = IF d = c THEN Tail(list) ELSE todo[d]
  BY <1>1 DEF GoOn
<1>5. todo' \in [Clients -> Seq(Steps)]
  BY <1>1, <1>3 DEF GoOn
<1> HIDE DEF list
<1>6. Place(c) = Head(list)
  BY DEF Place, list
<1>7. \A d \in Clients : Place(d)' = IF d = c THEN After(job[c].do, Place(c)) ELSE Place(d)
  BY <1>1, <1>3, <1>4, <1>6 DEF Place, Busy, list
<1>8. \A d \in Clients : Busy(d)' <=> Place(d)' # Done
  BY <1>5, PlaceIsStageNext
<1>9. Busy(c)' => Place(c)' \in StagesOf(job[c].do)
  BY <1>2, <1>7, <1>8, FollowingStages
<1>10. TodoOK'
  BY <1>2, <1>3, <1>4, <1>7, <1>9 DEF TodoOK, Busy
<1> QED
  BY <1>5, <1>7, <1>8, <1>10 DEF Advances

LEMMA LeaveAdvances ==
  ASSUME Shape, TodoOK, NEW c \in Clients, Leave(c), job' = job
  PROVE  Advances(c, Done)
<1>1. todo' \in [Clients -> Seq(Steps)] /\ \A d \in Clients : todo'[d] = IF d = c THEN <<>> ELSE todo[d]
  BY DEF Shape, Leave
<1>2. \A d \in Clients : Place(d)' = IF d = c THEN Done ELSE Place(d)
  BY <1>1 DEF Place, Busy
<1>3. \A d \in Clients : Busy(d)' <=> Place(d)' # Done
  BY <1>1, PlaceIsStageNext
<1>4. TodoOK'
  BY <1>1, <1>2 DEF TodoOK, Busy
<1> QED
  BY <1>1, <1>2, <1>3, <1>4 DEF Advances

LEMMA StayAdvances ==
  ASSUME Shape, TodoOK, NEW c \in Clients, todo' = todo, job' = job
  PROVE  Advances(c, Place(c))
  BY PlaceIsStage DEF Advances, Shape, TodoOK, Place, Busy

-----------------------------------------------------------------------------
(* Who works alone in a clean folder is not disturbed by the others *)

\* What a step of c leaves to the others.
OthersKeep(c) ==
    /\ job' = job
    /\ \A d \in Clients : d # c =>
          /\ got'[d] = got[d] /\ left'[d] = left[d]
          /\ fd'[d] = fd[d] \/ (fd[d] # NULL /\ fd[d][1] = Target(c))
    /\ \A p \in Names : p # Target(c) =>
          disk'[p] = disk[p] /\ believed'[p] = believed[p] /\ runs'[p] = runs[p]
    /\ \A p \in Names : causes[p] \subseteq causes'[p]

LEMMA Alone ==
  ASSUME IInv, NEW c \in Clients, Busy(c), NEW d \in Clients, Busy(d), d # c, Clean(Target(d))
  PROVE  Target(c) # Target(d) /\ Target(c) # job[d].on
  BY DEF IInv, MeetingsAreKnown, Touched, Target

LEMMA TargetIsName ==
  ASSUME TodoOK, NEW c \in Clients, Busy(c)
  PROVE  Target(c) \in Names /\ job[c].on \in Names /\ job[c] \in AllJobs
  BY DEF TodoOK, AllJobs, Target

LEMMA SameFiles ==
  ASSUME NEW p \in Names, disk'[p] = disk[p]
  PROVE  There(p)' = There(p) /\ ConfigFile(p)' = ConfigFile(p)
  BY DEF There, ConfigFile

LEMMA StillUndisturbed ==
  ASSUME NEW d \in Clients, Undisturbed(d), Place(d)' = Place(d), job'[d] = job[d], got'[d] = got[d],
         left'[d] = left[d], fd'[d] = fd[d], Target(d) \in Names, job[d].on \in Names,
         disk'[Target(d)] = disk[Target(d)], believed'[Target(d)] = believed[Target(d)],
         disk'[job[d].on] = disk[job[d].on]
  PROVE  Undisturbed(d)'
<1>1. /\ Target(d)' = Target(d) /\ There(Target(d))' = There(Target(d))
      /\ ConfigFile(Target(d))' = ConfigFile(Target(d)) /\ ConfigFile(job[d].on)' = ConfigFile(job[d].on)
      /\ There(job[d].on)' = There(job[d].on)
  BY SameFiles DEF Target
<1>2. SavesInPlace(d)'
  BY <1>1 DEF Undisturbed, SavesInPlace, WritesAnEdit
<1>3. RewritesInPlace(d)'
  BY <1>1 DEF Undisturbed, RewritesInPlace, WritesAnEdit
<1>4. Copies(d)'
  BY <1>1 DEF Undisturbed, Copies
<1>5. Removes(d)' /\ Records(d)'
  BY <1>1 DEF Undisturbed, Removes, Records
<1> QED
  BY <1>2, <1>3, <1>4, <1>5 DEF Undisturbed

LEMMA OthersAreKept ==
  ASSUME IInv, NEW c \in Clients, Busy(c), NEW to, Advances(c, to), OthersKeep(c)
  PROVE  /\ MeetingsAreKnown'
         /\ \A d \in Clients : d # c => HoldsOK(d)'
         /\ \A d \in Clients : d # c /\ Busy(d)' /\ Clean(Target(d))' => Undisturbed(d)'
         /\ \A p \in Names : p # Target(c) => FolderOK(p)' /\ HistoryOK(p)'
<1>1. \A d \in Clients : Busy(d)' => Busy(d)
  BY PlaceIsStage DEF Advances, IInv, Shape
<1>2. \A p \in Names : Clean(p)' => Clean(p)
  BY DEF OthersKeep, Clean
<1>3. MeetingsAreKnown'
  <2> SUFFICES ASSUME NEW a \in Clients, NEW b \in Clients, a # b, Busy(a)', Busy(b)',
                      (Touched(job[a]) \cap Touched(job[b]) # {})', NEW p \in (Touched(job[a]) \cup Touched(job[b]))'
               PROVE  ~Clean(p)'
    BY DEF MeetingsAreKnown
  <2>1. job' = job /\ Busy(a) /\ Busy(b)
    BY <1>1 DEF OthersKeep
  <2>2. Touched(job[a]) \cap Touched(job[b]) # {} /\ p \in Touched(job[a]) \cup Touched(job[b])
    BY <2>1 DEF Touched
  <2>3. ~Clean(p) /\ p \in Names
    BY <2>1, <2>2, TargetIsName DEF IInv, MeetingsAreKnown, Touched, Target
  <2> QED
    BY <1>2, <2>3
<1>4. ASSUME NEW d \in Clients, d # c PROVE HoldsOK(d)'
  <2>1. job' = job /\ got'[d] = got[d] /\ left'[d] = left[d] /\ Place(d)' = Place(d)
    BY <1>4 DEF OthersKeep, Advances
  <2>2. HoldsOK(d)
    BY DEF IInv
  <2> QED
    BY <2>1, <2>2 DEF HoldsOK
<1>5. ASSUME NEW d \in Clients, d # c, Busy(d)', Clean(Target(d))' PROVE Undisturbed(d)'
  <2>1. Busy(d) /\ job' = job /\ Place(d)' = Place(d)
    BY <1>1, <1>5 DEF OthersKeep, Advances
  <2>2. Target(d) \in Names /\ job[d].on \in Names /\ Target(d)' = Target(d)
    BY <2>1, TargetIsName DEF IInv, Target
  <2>3. Clean(Target(d))
    BY <1>2, <1>5, <2>2
  <2>4. Target(c) # Target(d) /\ Target(c) # job[d].on
    BY <1>5, <2>1, <2>3, Alone
  <2>5. fd'[d] = fd[d]
    BY <1>5, <2>4 DEF OthersKeep, IInv, FilesOK
  <2>6. Undisturbed(d)
    BY <2>1, <2>3 DEF IInv
  <2> QED
    BY <1>5, <2>1, <2>2, <2>4, <2>5, <2>6, StillUndisturbed DEF OthersKeep
<1>6. ASSUME NEW p \in Names, p # Target(c) PROVE FolderOK(p)' /\ HistoryOK(p)'
  <2>1. disk'[p] = disk[p] /\ believed'[p] = believed[p] /\ runs'[p] = runs[p] /\ job' = job
    BY <1>6 DEF OthersKeep
  <2>2. ConfigGood(p)' <=> ConfigGood(p)
    BY <2>1, SameFiles DEF ConfigGood
  <2>3. \A d \in Clients : Busy(d) /\ Target(d) = p /\ Disturbs(d) => (Busy(d) /\ Target(d) = p /\ Disturbs(d))'
    <3> SUFFICES ASSUME NEW d \in Clients, Busy(d), Target(d) = p, Disturbs(d)
                 PROVE  Busy(d)' /\ (Target(d) = p)' /\ Disturbs(d)'
      OBVIOUS
    <3>1. d # c /\ Place(d)' = Place(d)
      BY <1>6 DEF Advances
    <3>2. Busy(d)'
      BY <3>1, PlaceIsStage DEF Advances, IInv, Shape
    <3> QED
      BY <2>1, <3>1, <3>2 DEF Target, Disturbs
  <2>4. FolderOK(p)'
    BY <1>2, <2>2, <2>3 DEF IInv, FolderOK
  <2>5. HistoryOK(p)'
    BY <1>2, <2>1 DEF IInv, HistoryOK
  <2> QED
    BY <2>4, <2>5
<1> QED
  BY <1>3, <1>4, <1>5, <1>6

LEMMA Suffices ==
  ASSUME IInv, NEW c \in Clients, Busy(c), NEW p, p = Target(c), NEW to, Advances(c, to), OthersKeep(c),
         Shape', FilesOK', HoldsOK(c)', to # Done /\ Clean(p)' => Undisturbed(c)',
         FolderOK(p)', HistoryOK(p)'
  PROVE  IInv'
<1>1. Place(c)' = to /\ Target(c)' = Target(c)
  BY DEF Advances, OthersKeep, Target
<1>2. \A d \in Clients : HoldsOK(d)'
  BY OthersAreKept
<1>3. \A d \in Clients : Busy(d)' /\ Clean(Target(d))' => Undisturbed(d)'
  <2>1. Busy(c)' => to # Done
    BY <1>1 DEF Advances
  <2>2. Clean(Target(c))' <=> Clean(p)'
    BY <1>1 DEF Clean
  <2> QED
    BY <1>1, <2>1, <2>2, OthersAreKept
<1>4. \A q \in Names : FolderOK(q)' /\ HistoryOK(q)'
  <2> SUFFICES ASSUME NEW q \in Names PROVE FolderOK(q)' /\ HistoryOK(q)'
    OBVIOUS
  <2>1. CASE q = p
    BY <2>1
  <2>2. CASE q # p
    BY <2>2, OthersAreKept
  <2> QED
    BY <2>1, <2>2
<1>5. MeetingsAreKnown' /\ TodoOK'
  BY OthersAreKept DEF Advances
<1> QED
  BY <1>2, <1>3, <1>4, <1>5 DEF IInv

\* Whatever disturbs a clean folder is the one client that is at work on it.
LEMMA DisturbedByOne ==
  ASSUME IInv, NEW c \in Clients, Busy(c), NEW p, p = Target(c), Clean(p), ~ConfigGood(p)
  PROVE  Disturbs(c)
<1>1. p \in Names /\ FolderOK(p)
  BY TargetIsName DEF IInv
<1>2. PICK d \in Clients : Busy(d) /\ Target(d) = p /\ Disturbs(d)
  BY <1>1 DEF FolderOK
<1> QED
  BY <1>2, Alone

LEMMA StopKeeps ==
  ASSUME IInv, NEW c \in Clients, Busy(c), Stop(c)
  PROVE  IInv'
<1> DEFINE more == (IF job[c].do \in {"duplicate", "delete"} \/ (job[c].do = "archive" /\ At(c, "write"))
                    THEN {"half"} ELSE {})
                   \cup (IF At(c, "unlink") /\ Stem(c) = "tests" THEN {"left"} ELSE {})
<1>1. PICK p \in Names : p = Target(c)
  BY TargetIsName DEF IInv
<1>2. UNCHANGED <<folder, disk, runs, clock, job, report, jobs, believed>>
  BY DEF Stop
<1>3. /\ fd' = [fd EXCEPT ![c] = NULL] /\ got' = [got EXCEPT ![c] = NULL]
      /\ left' = [left EXCEPT ![c] = {}] /\ causes' = [causes EXCEPT ![p] = causes[p] \cup more]
  BY <1>1 DEF Stop
<1> HIDE DEF more
<1>4. Advances(c, Done)
  BY <1>2, LeaveAdvances DEF Stop, IInv
<1>5. OthersKeep(c)
  BY <1>2, <1>3 DEF OthersKeep, IInv, Shape
<1>6. Shape'
  BY <1>2, <1>3, <1>4 DEF IInv, Shape, Advances
<1>7. FilesOK'
  <2>1. There(p)' = There(p) /\ \A q \in Names : There(q)' = There(q)
    BY <1>2 DEF There
  <2>2. \A d \in Clients : fd'[d] # NULL => d # c /\ fd'[d] = fd[d] /\ Place(d)' = Place(d)
    BY <1>3, <1>4 DEF IInv, Shape, Advances
  <2>3. \A d \in Clients : Target(d)' = Target(d)
    BY <1>2 DEF Target
  <2>4. \A d \in Clients : fd'[d] # NULL => There(Target(d))' = There(Target(d))
    BY <1>2 DEF There, Target
  <2> QED
    BY <1>2, <2>1, <2>2, <2>3, <2>4 DEF IInv, FilesOK
<1>8. HoldsOK(c)'
  BY <1>4 DEF HoldsOK, Advances, Done, HasConfig, Plain, OnConfig
<1>9. FolderOK(p)'
  <2> SUFFICES ASSUME Clean(p)' PROVE ConfigGood(p)'
    BY DEF FolderOK
  <2>1. Clean(p) /\ "half" \notin more
    BY <1>3 DEF Clean, IInv, Shape
  <2>2. ~Disturbs(c)
    <3>1. job[c].do \notin {"duplicate", "delete"} /\ ~(job[c].do = "archive" /\ At(c, "write"))
      BY <2>1 DEF more
    <3>2. Place(c) \in StagesOf(job[c].do) /\ job[c].do \in Does
      BY DEF IInv, TodoOK, AllJobs
    <3>3. Place(c) \notin {Plain("copy"), Plain("remove")}
      BY <3>1, <3>2 DEF StagesOf, Does, Plain, OnConfig, OnTests, SaveConfig, SaveTests
    <3>4. Place(c) = OnConfig("write") => At(c, "write")
      BY DEF Place, At, OnConfig
    <3> QED
      BY <3>1, <3>3, <3>4 DEF Disturbs
  <2>3. ConfigGood(p)
    BY <1>1, <2>1, <2>2, DisturbedByOne
  <2> QED
    BY <1>2, <2>3, SameFiles DEF ConfigGood
<1>10. HistoryOK(p)'
  <2>1. Clean(p)' => Clean(p)
    BY <1>3 DEF Clean, IInv, Shape
  <2> QED
    BY <1>2, <2>1 DEF IInv, HistoryOK
<1> QED
  BY <1>1, <1>4, <1>5, <1>6, <1>7, <1>8, <1>9, <1>10, Suffices

\* A step that leaves the files as they are.
LEMMA QuietKeeps ==
  ASSUME IInv, NEW c \in Clients, Busy(c), NEW p, p = Target(c), NEW to, Advances(c, to),
         Place(c)[1] \notin {"write", "finish"},
         UNCHANGED <<disk, runs, believed, fd, job, jobs>>, folder \subseteq folder',
         DOMAIN causes' = Names, \A q \in Names : causes[q] \subseteq causes'[q],
         DOMAIN got' = Clients, DOMAIN left' = Clients,
         \A d \in Clients : d # c => got'[d] = got[d] /\ left'[d] = left[d],
         HoldsOK(c)', to # Done /\ Clean(p)' => Undisturbed(c)',
         Disturbs(c) => Disturbs(c)' /\ to # Done
  PROVE  IInv'
<1>1. p \in Names
  BY TargetIsName DEF IInv
<1>2. OthersKeep(c)
  BY DEF OthersKeep, IInv, Shape
<1>3. Shape'
  BY DEF IInv, Shape, Advances
<1>4. FilesOK'
  <2>1. \A q \in Names : There(q)' = There(q)
    BY DEF There
  <2>2. \A d \in Clients : fd[d] # NULL => d # c /\ Place(d)' = Place(d)
    BY DEF IInv, FilesOK, Advances
  <2>3. \A d \in Clients : Target(d)' = Target(d) /\ There(Target(d))' = There(Target(d))
    BY DEF Target, There
  <2> QED
    BY <2>1, <2>2, <2>3 DEF IInv, FilesOK
<1>5. Clean(p)' => Clean(p)
  BY <1>1 DEF Clean
<1>6. FolderOK(p)'
  <2> SUFFICES ASSUME Clean(p)', ~ConfigGood(p)' PROVE Busy(c)' /\ (Target(c) = p)' /\ Disturbs(c)'
    BY DEF FolderOK
  <2>1. Disturbs(c)
    BY <1>1, <1>5, SameFiles, DisturbedByOne DEF ConfigGood
  <2> QED
    BY <2>1 DEF Advances, Target
<1>7. HistoryOK(p)'
  BY <1>1, <1>5 DEF IInv, HistoryOK
<1> QED
  BY <1>2, <1>3, <1>4, <1>6, <1>7, Suffices

\* Where a client is, by the first of its stages.
LEMMA StageTells ==
  ASSUME TodoOK, NEW c \in Clients, Busy(c)
  PROVE  /\ job[c].do \in Does /\ Place(c) \in StagesOf(job[c].do)
         /\ \A stage : At(c, stage) <=> Place(c)[1] = stage
         /\ Stem(c) = Place(c)[2]
  BY DEF TodoOK, AllJobs, At, Place, Stem

-----------------------------------------------------------------------------
(* Where an operation is when it takes a step, and where it goes *)

\* What comes after each stage.
LEMMA AfterEach ==
  ASSUME NEW do \in Does
  PROVE  /\ After(do, Plain("free")) = Plain("mkdir")
         /\ After(do, Plain("mkdir")) = Plain("build")
         /\ After(do, Plain("build")) = OnConfig("open")
         /\ do = "update" => After(do, Plain("load")) = Plain("read")
         /\ do = "save_tests" => After(do, Plain("load")) = Plain("discover")
         /\ do \in {"run", "watch"} => After(do, Plain("load")) = Plain("start")
         /\ do = "update" => After(do, Plain("read")) = OnConfig("open")
         /\ do # "update" => After(do, Plain("read")) = OnConfig("truncate")
         /\ After(do, Plain("discover")) = OnTests("open")
         /\ After(do, OnConfig("open")) = OnConfig("write")
         /\ After(do, OnTests("open")) = OnTests("write")
         /\ After(do, OnConfig("truncate")) = OnConfig("write")
         /\ do \in {"create", "update"} => After(do, OnConfig("write")) = OnConfig("replace")
         /\ do \notin {"create", "update"} => After(do, OnConfig("write")) = Done
         /\ After(do, OnTests("write")) = OnTests("replace")
         /\ After(do, OnConfig("replace")) = OnConfig("unlink")
         /\ After(do, OnTests("replace")) = OnTests("unlink")
         /\ After(do, OnConfig("unlink")) \in {OnTests("open"), Done}
         /\ After(do, OnTests("unlink")) = Done
         /\ After(do, Plain("source")) = Plain("copytree")
         /\ After(do, Plain("copytree")) = Plain("copy")
         /\ After(do, Plain("copy")) = Plain("read")
         /\ After(do, Plain("confirm")) = Plain("list")
         /\ After(do, Plain("list")) = Plain("remove")
         /\ After(do, Plain("remove")) = Done
         /\ After(do, Plain("start")) = Plain("finish")
         /\ After(do, Plain("finish")) \in {Plain("compare"), Done}
         /\ After(do, Plain("compare")) = Done
         /\ After(do, Plain("drop")) = Done
  BY DEF After, Done, Plain, OnConfig, OnTests

\* Which stage it is and in which operations, from its name.
LEMMA WhoIsAt ==
  ASSUME NEW do \in Does, NEW at \in StagesOf(do)
  PROVE  /\ at[1] = "free" => at = Plain("free") /\ do = "create"
         /\ at[1] = "mkdir" => at = Plain("mkdir") /\ do = "create"
         /\ at[1] = "build" => at = Plain("build") /\ do = "create"
         /\ at[1] = "load" => at = Plain("load") /\ do \in {"update", "save_tests", "run", "watch"}
         /\ at[1] = "read" => at = Plain("read") /\ do \in {"update", "archive", "duplicate"}
         /\ at[1] = "discover" => at = Plain("discover") /\ do = "save_tests"
         /\ at[1] = "truncate" => at = OnConfig("truncate") /\ do \in {"archive", "duplicate"}
         /\ at[1] = "open" => \/ at = OnConfig("open") /\ do \in {"create", "update"}
                              \/ at = OnTests("open") /\ do \in {"create", "save_tests"}
         /\ at[1] = "write" => \/ at = OnConfig("write") /\ do \in {"create", "update", "archive", "duplicate"}
                               \/ at = OnTests("write") /\ do \in {"create", "save_tests"}
         /\ at[1] = "replace" => \/ at = OnConfig("replace") /\ do \in {"create", "update"}
                                 \/ at = OnTests("replace") /\ do \in {"create", "save_tests"}
         /\ at[1] = "unlink" => \/ at = OnConfig("unlink") /\ do \in {"create", "update"}
                                \/ at = OnTests("unlink") /\ do \in {"create", "save_tests"}
         /\ at[1] = "source" => at = Plain("source") /\ do = "duplicate"
         /\ at[1] = "copytree" => at = Plain("copytree") /\ do = "duplicate"
         /\ at[1] = "copy" => at = Plain("copy") /\ do = "duplicate"
         /\ at[1] = "confirm" => at = Plain("confirm") /\ do = "delete"
         /\ at[1] = "list" => at = Plain("list") /\ do = "delete"
         /\ at[1] = "remove" => at = Plain("remove") /\ do = "delete"
         /\ at[1] = "start" => at = Plain("start") /\ do \in {"run", "watch"}
         /\ at[1] = "finish" => at = Plain("finish") /\ do \in {"run", "watch"}
         /\ at[1] = "compare" => at = Plain("compare") /\ do = "watch"
         /\ at[1] = "drop" => at = Plain("drop") /\ do = "drop"
  BY DEF Does, StagesOf, Plain, OnConfig, OnTests, SaveConfig, SaveTests

\* A client at these stages holds nothing that matters later.
LEMMA NothingHeld ==
  ASSUME NEW c \in Clients, Place(c)' \notin HasConfig \cup {Plain("read"), Plain("copy"), Plain("remove")}
  PROVE  HoldsOK(c)' /\ Undisturbed(c)'
  BY DEF HoldsOK, Undisturbed, SavesInPlace, RewritesInPlace, Copies, Removes, Records, HasConfig

\* A step of an operation that reads, and goes on to a stage that needs nothing of it.
LEMMA ReadingKeeps ==
  ASSUME IInv, NEW c \in Clients, Busy(c), NEW to, Advances(c, to),
         Place(c)[1] \in {"free", "source", "load", "discover", "mkdir", "confirm"},
         to \in {Plain("mkdir"), Plain("copytree"), Plain("discover"), OnTests("open"), Plain("build"),
                 Plain("list"), Done},
         UNCHANGED <<disk, runs, believed, fd, job, jobs, causes>>, folder \subseteq folder',
         DOMAIN got' = Clients, DOMAIN left' = Clients,
         \A d \in Clients : d # c => got'[d] = got[d] /\ left'[d] = left[d]
  PROVE  IInv'
<1>1. Place(c)' = to
  BY DEF Advances
<1>2. HoldsOK(c)' /\ Undisturbed(c)'
  <2>1. to \notin HasConfig \cup {Plain("read"), Plain("copy"), Plain("remove")}
    BY DEF HasConfig, Plain, OnConfig, OnTests, Done
  <2> QED
    BY <1>1, <2>1, NothingHeld
<1>3. ~Disturbs(c)
  BY DEF Disturbs, Plain, OnConfig
<1>4. PICK p : p = Target(c)
  OBVIOUS
<1>5. DOMAIN causes' = Names
  BY DEF IInv, Shape
<1> QED
  BY <1>2, <1>3, <1>4, <1>5, QuietKeeps

LEMMA FreeKeeps == ASSUME IInv, NEW c \in Clients, Free(c) PROVE IInv'
<1>1. Busy(c) /\ Place(c)[1] = "free"
  BY StageTells DEF Free, At, IInv
<1>2. CASE Stop(c)
  BY <1>1, <1>2, StopKeeps
<1>3. CASE ~Stop(c)
  <2>1. Advances(c, Plain("mkdir"))
    BY <1>1, <1>3, StageTells, WhoIsAt, AfterEach, GoOnAdvances DEF Free, IInv
  <2> QED
    BY <1>1, <1>3, <2>1, ReadingKeeps DEF Free, IInv, Shape, history
<1> QED
  BY <1>2, <1>3

LEMMA SourceKeeps == ASSUME IInv, NEW c \in Clients, Source(c) PROVE IInv'
<1>1. Busy(c) /\ Place(c)[1] = "source"
  BY StageTells DEF Source, At, IInv
<1>2. CASE Stop(c)
  BY <1>1, <1>2, StopKeeps
<1>3. CASE ~Stop(c)
  <2>1. Advances(c, Plain("copytree"))
    BY <1>1, <1>3, StageTells, WhoIsAt, AfterEach, GoOnAdvances DEF Source, IInv
  <2> QED
    BY <1>1, <1>3, <2>1, ReadingKeeps DEF Source, IInv, Shape, history
<1> QED
  BY <1>2, <1>3

LEMMA DiscoverKeeps == ASSUME IInv, NEW c \in Clients, Discover(c) PROVE IInv'
<1>1. Busy(c) /\ Place(c)[1] = "discover"
  BY StageTells DEF Discover, At, IInv
<1>2. CASE Stop(c)
  BY <1>1, <1>2, StopKeeps
<1>3. CASE ~Stop(c)
  <2>1. Advances(c, OnTests("open"))
    BY <1>1, <1>3, StageTells, WhoIsAt, AfterEach, GoOnAdvances DEF Discover, IInv
  <2> QED
    BY <1>1, <1>3, <2>1, ReadingKeeps DEF Discover, IInv, Shape, history
<1> QED
  BY <1>2, <1>3

LEMMA MkdirKeeps == ASSUME IInv, NEW c \in Clients, Mkdir(c) PROVE IInv'
<1>1. Busy(c) /\ Place(c)[1] = "mkdir"
  BY StageTells DEF Mkdir, At, IInv
<1>2. CASE Stop(c)
  BY <1>1, <1>2, StopKeeps
<1>3. CASE ~Stop(c)
  <2>1. Advances(c, Plain("build"))
    BY <1>1, <1>3, StageTells, WhoIsAt, AfterEach, GoOnAdvances DEF Mkdir, IInv
  <2> QED
    BY <1>1, <1>3, <2>1, ReadingKeeps DEF Mkdir, IInv, Shape, history
<1> QED
  BY <1>2, <1>3

LEMMA ConfirmKeeps == ASSUME IInv, NEW c \in Clients, Confirm(c) PROVE IInv'
<1>1. Busy(c) /\ Place(c)[1] = "confirm"
  BY StageTells DEF Confirm, At, IInv
<1>2. CASE Stop(c)
  BY <1>1, <1>2, StopKeeps
<1>3. CASE ~Stop(c)
  <2>1. UNCHANGED <<folder, disk, runs, clock, job, got, fd, left, report, jobs, history>>
    BY <1>3 DEF Confirm
  <2>2. Advances(c, Plain("list")) \/ Advances(c, Done)
    BY <1>1, <1>3, <2>1, StageTells, WhoIsAt, AfterEach, GoOnAdvances, LeaveAdvances DEF Confirm, IInv
  <2> QED
    BY <1>1, <2>1, <2>2, ReadingKeeps DEF IInv, Shape, history
<1> QED
  BY <1>2, <1>3

-----------------------------------------------------------------------------
(* What is read *)

LEMMA EditOfConfig ==
  ASSUME NEW config \in Configs, NEW j \in AllJobs, j.do \in {"update", "archive", "duplicate"},
         j.do = "update" => j.say \in {"values", "models"}, NEW loads \in BOOLEAN
  PROVE  LET edited == Edit(config, j, loads)
         IN /\ edited \in Configs
            /\ edited = Edit(config, j, edited.loads)
            /\ edited.name = IF j.do = "duplicate" THEN j.to ELSE config.name
<1>1. CASE j.do = "update" /\ j.say = "values"
  BY <1>1 DEF Edit, Configs, AllJobs
<1>2. CASE j.do = "update" /\ j.say = "models"
  BY <1>2 DEF Edit, Configs, AllJobs
<1>3. CASE j.do = "archive"
  BY <1>3 DEF Edit, Configs, AllJobs
<1>4. CASE j.do = "duplicate"
  BY <1>4 DEF Edit, Configs, AllJobs
<1> QED
  BY <1>1, <1>2, <1>3, <1>4

LEMMA ConfigFileIsThere ==
  ASSUME NEW p \in Names, ConfigFile(p) # NULL
  PROVE  ConfigFile(p) \in ConfigPaths /\ ConfigFile(p) \in There(p)
  BY DEF ConfigFile, ConfigPaths

\* In a clean folder that nothing disturbs, what is read is what was believed.
LEMMA WhatIsRead ==
  ASSUME IInv, NEW c \in Clients, Busy(c), NEW p \in Names, p = Target(c),
         ConfigFile(p) # NULL, disk[p][ConfigFile(p)].kind = "whole"
  PROVE  /\ disk[p][ConfigFile(p)].holds \in Configs
         /\ Clean(p) /\ ~Disturbs(c) => /\ disk[p][ConfigFile(p)].holds = believed[p]
                                       /\ believed[p].name = p
<1>1. ConfigFile(p) \in FilesOf("config")
  BY ConfigFileIsThere DEF FilesOf
<1> QED
  BY <1>1, DisturbedByOne DEF IInv, FilesOK, ConfigGood

LEMMA LoadKeeps == ASSUME IInv, NEW c \in Clients, Load(c) PROVE IInv'
<1>1. Busy(c) /\ Place(c)[1] = "load"
  BY StageTells DEF Load, At, IInv
<1>2. CASE Stop(c)
  BY <1>1, <1>2, StopKeeps
<1>3. CASE ~Stop(c)
  <2>1. PICK p \in Names : p = Target(c)
    BY <1>1, TargetIsName DEF IInv
  <2>2. /\ Loads(p) /\ GoOn(c)
        /\ got' = [got EXCEPT ![c] = [config |-> Config(p)]]
        /\ left' = [left EXCEPT ![c] = {ConfigFile(p)}]
        /\ UNCHANGED <<folder, disk, runs, clock, job, fd, report, jobs, history>>
    BY <1>3, <2>1 DEF Load
  <2>3. Place(c) = Plain("load") /\ job[c].do \in {"update", "save_tests", "run", "watch"} /\ ~Disturbs(c)
    <3>1. Place(c) = Plain("load") /\ job[c].do \in {"update", "save_tests", "run", "watch"}
      BY <1>1, StageTells, WhoIsAt DEF IInv
    <3> QED
      BY <3>1 DEF Disturbs, Plain, OnConfig
  <2>4. /\ ConfigFile(p) # NULL /\ Config(p) \in Configs /\ ConfigFile(p) \in ConfigPaths
        /\ Clean(p) => Config(p).name = p
    BY <1>1, <2>1, <2>2, <2>3, WhatIsRead, ConfigFileIsThere DEF Loads, Parses, Config
  <2>5. /\ got'[c].config = Config(p) /\ left'[c] = {ConfigFile(p)}
        /\ DOMAIN got' = Clients /\ DOMAIN left' = Clients
        /\ \A d \in Clients : d # c => got'[d] = got[d] /\ left'[d] = left[d]
        /\ DOMAIN causes' = Names /\ (Clean(p)' <=> Clean(p)) /\ ConfigFile(p)' = ConfigFile(p)
    BY <2>2, SameFiles DEF IInv, Shape, Clean, history
  <2>6. CASE job[c].do = "save_tests"
    <3>1. Advances(c, Plain("discover"))
      BY <1>1, <2>2, <2>3, <2>6, GoOnAdvances, AfterEach, StageTells DEF IInv
    <3> QED
      BY <1>1, <2>2, <2>5, <3>1, ReadingKeeps DEF history
  <2>7. CASE job[c].do = "update"
    <3>1. Advances(c, Plain("read"))
      BY <1>1, <2>2, <2>3, <2>7, GoOnAdvances, AfterEach, StageTells DEF IInv
    <3>2. Place(c)' = Plain("read") /\ job' = job /\ Target(c)' = p
      BY <2>1, <2>2, <3>1 DEF Advances, Target
    <3>3. HoldsOK(c)'
      BY <2>4, <2>5, <3>2 DEF HoldsOK, HasConfig, Plain, OnConfig
    <3>4. Undisturbed(c)'
      <4>1. SavesInPlace(c)' /\ Removes(c)' /\ Records(c)'
        BY <3>2 DEF SavesInPlace, Removes, Records, Plain, OnConfig
      <4>2. RewritesInPlace(c)'
        BY <2>4, <2>5, <3>2 DEF RewritesInPlace, Plain, OnConfig
      <4>3. Copies(c)'
        BY <2>7, <3>2 DEF Copies, Plain
      <4> QED
        BY <4>1, <4>2, <4>3 DEF Undisturbed
    <3> QED
      BY <1>1, <2>1, <2>2, <2>3, <2>5, <3>1, <3>3, <3>4, QuietKeeps DEF history
  <2>8. CASE job[c].do \in {"run", "watch"}
    <3>1. Advances(c, Plain("start"))
      BY <1>1, <2>2, <2>3, <2>8, GoOnAdvances, AfterEach, StageTells DEF IInv
    <3>2. Place(c)' = Plain("start") /\ job' = job /\ Target(c)' = p
      BY <2>1, <2>2, <3>1 DEF Advances, Target
    <3>3. HoldsOK(c)'
      BY <2>4, <2>5, <3>2 DEF HoldsOK, Plain, OnConfig
    <3>4. Clean(p)' => Undisturbed(c)'
      <4>1. SavesInPlace(c)' /\ Removes(c)' /\ RewritesInPlace(c)' /\ Copies(c)'
        BY <3>2 DEF SavesInPlace, Removes, RewritesInPlace, Copies, Plain, OnConfig
      <4>2. Clean(p)' => Records(c)'
        BY <2>4, <2>5, <3>2 DEF Records
      <4> QED
        BY <4>1, <4>2 DEF Undisturbed
    <3> QED
      BY <1>1, <2>1, <2>2, <2>3, <2>5, <3>1, <3>3, <3>4, QuietKeeps DEF history
  <2> QED
    BY <2>3, <2>6, <2>7, <2>8
<1> QED
  BY <1>2, <1>3

LEMMA ReadKeeps == ASSUME IInv, NEW c \in Clients, Read(c) PROVE IInv'
<1>1. Busy(c) /\ Place(c)[1] = "read"
  BY StageTells DEF Read, At, IInv
<1>2. CASE Stop(c)
  BY <1>1, <1>2, StopKeeps
<1>3. CASE ~Stop(c)
  <2>1. PICK p \in Names : p = Target(c)
    BY <1>1, TargetIsName DEF IInv
  <2> DEFINE path == IF job[c].do = "update" THEN TheOne(left[c]) ELSE ConfigFile(p)
  <2>2. PICK payload \in IF job[c].do = "update" THEN Payloads ELSE {NULL} :
          /\ path # NULL /\ disk[p][path].kind = "whole"
          /\ GoOn(c)
          /\ got' = [got EXCEPT ![c] = [config |-> Edit(disk[p][path].holds, job[c],
                                             payload # NULL => LoadsWith(CleanModels(payload.models)))]]
          /\ left' = [left EXCEPT ![c] = {path}]
          /\ UNCHANGED <<folder, disk, runs, clock, job, fd, report, jobs, history>>
    BY <1>3, <2>1 DEF Read
  <2> HIDE DEF path
  <2>3. /\ Place(c) = Plain("read") /\ job[c].do \in {"update", "archive", "duplicate"}
        /\ job[c] \in AllJobs /\ (job[c].do = "update" => job[c].say \in {"values", "models"})
    BY <1>1, StageTells, WhoIsAt DEF IInv, TodoOK
  <2>4. path \in ConfigPaths /\ (job[c].do # "update" => path = ConfigFile(p))
    <3>1. CASE job[c].do = "update"
      <4>1. PICK one \in ConfigPaths : left[c] = {one}
        BY <2>3, <3>1 DEF IInv, HoldsOK
      <4>2. path = one
        BY <3>1, <4>1 DEF path, TheOne
      <4> QED
        BY <3>1, <4>2
    <3>2. CASE job[c].do # "update"
      BY <2>2, <3>2, ConfigFileIsThere DEF path
    <3> QED
      BY <3>1, <3>2
  <2>5. Clean(p) => path = ConfigFile(p) /\ ConfigFile(p) # NULL
    <3>1. CASE job[c].do = "update" /\ Clean(p)
      <4>1. Undisturbed(c)
        BY <1>1, <2>1, <3>1 DEF IInv
      <4>2. ConfigFile(p) # NULL /\ left[c] = {ConfigFile(p)}
        BY <2>1, <2>3, <3>1, <4>1 DEF Undisturbed, RewritesInPlace
      <4> QED
        BY <3>1, <4>2 DEF path, TheOne
    <3> QED
      BY <2>2, <2>4, <3>1
  <2> DEFINE old == disk[p][path].holds
             loads == payload # NULL => LoadsWith(CleanModels(payload.models))
             new == Edit(old, job[c], loads)
  <2>6. old \in Configs
    BY <2>2, <2>4 DEF IInv, FilesOK, FilesOf
  <2>7. /\ new \in Configs /\ new = Edit(old, job[c], new.loads)
        /\ new.name = IF job[c].do = "duplicate" THEN job[c].to ELSE old.name
    <3>1. loads \in BOOLEAN
      OBVIOUS
    <3> HIDE DEF loads
    <3> QED
      BY <2>3, <2>6, <3>1, EditOfConfig
  <2>8. Clean(p) => old = believed[p] /\ (job[c].do # "duplicate" => old.name = p)
    <3> SUFFICES ASSUME Clean(p) PROVE old = believed[p] /\ (job[c].do # "duplicate" => old.name = p)
      OBVIOUS
    <3>1. CASE job[c].do = "duplicate"
      <4>1. Copies(c)
        BY <1>1, <2>1 DEF IInv, Undisturbed
      <4> QED
        BY <2>1, <2>3, <2>5, <3>1, <4>1 DEF Copies
    <3>2. CASE job[c].do # "duplicate"
      <4>1. ~Disturbs(c)
        BY <2>3, <3>2 DEF Disturbs, Plain, OnConfig
      <4> QED
        BY <1>1, <2>1, <2>2, <2>5, <4>1, WhatIsRead
    <3> QED
      BY <3>1, <3>2
  <2>9. /\ got'[c].config = new /\ left'[c] = {path}
        /\ DOMAIN got' = Clients /\ DOMAIN left' = Clients
        /\ \A d \in Clients : d # c => got'[d] = got[d] /\ left'[d] = left[d]
        /\ DOMAIN causes' = Names /\ (Clean(p)' <=> Clean(p)) /\ ConfigFile(p)' = ConfigFile(p)
        /\ job' = job /\ Target(c)' = p /\ believed' = believed
    BY <2>1, <2>2, SameFiles DEF IInv, Shape, Clean, history, Target
  <2> HIDE DEF old, new
  <2>10. Clean(p)' => WritesAnEdit(c)'
    BY <2>6, <2>7, <2>8, <2>9 DEF WritesAnEdit
  <2>11. CASE job[c].do = "update"
    <3>1. Advances(c, OnConfig("open"))
      BY <1>1, <2>2, <2>3, <2>11, GoOnAdvances, AfterEach, StageTells DEF IInv
    <3>2. Place(c)' = OnConfig("open")
      BY <3>1 DEF Advances
    <3>3. HoldsOK(c)'
      BY <2>7, <2>9, <3>2 DEF HoldsOK, Plain, OnConfig
    <3>4. Clean(p)' => Undisturbed(c)'
      <4>1. Removes(c)' /\ Records(c)' /\ RewritesInPlace(c)' /\ Copies(c)'
        BY <3>2 DEF Removes, Records, RewritesInPlace, Copies, Plain, OnConfig
      <4>2. Clean(p)' => SavesInPlace(c)'
        BY <2>9, <2>10, <2>11, <3>2 DEF SavesInPlace, OnConfig
      <4> QED
        BY <4>1, <4>2 DEF Undisturbed
    <3>5. ~Disturbs(c)
      BY <2>3, <2>11 DEF Disturbs, Plain, OnConfig
    <3> QED
      BY <1>1, <2>1, <2>2, <2>9, <3>1, <3>3, <3>4, <3>5, QuietKeeps DEF history
  <2>12. CASE job[c].do # "update"
    <3>1. Advances(c, OnConfig("truncate"))
      BY <1>1, <2>2, <2>3, <2>12, GoOnAdvances, AfterEach, StageTells DEF IInv
    <3>2. Place(c)' = OnConfig("truncate")
      BY <3>1 DEF Advances
    <3>3. HoldsOK(c)'
      BY <2>4, <2>7, <2>9, <3>2 DEF HoldsOK, Plain, OnConfig
    <3>4. Clean(p)' => Undisturbed(c)'
      <4>1. SavesInPlace(c)' /\ Removes(c)' /\ Records(c)' /\ Copies(c)'
        BY <3>2 DEF SavesInPlace, Removes, Records, Copies, Plain, OnConfig
      <4>2. Clean(p)' => RewritesInPlace(c)'
        BY <2>5, <2>9, <2>10, <3>2 DEF RewritesInPlace, OnConfig
      <4> QED
        BY <4>1, <4>2 DEF Undisturbed
    <3>5. Disturbs(c) => Disturbs(c)' /\ OnConfig("truncate") # Done
      BY <2>3, <2>9, <2>12, <3>2 DEF Disturbs, Plain, OnConfig, Done
    <3> QED
      BY <1>1, <2>1, <2>2, <2>9, <3>1, <3>3, <3>4, <3>5, QuietKeeps DEF history
  <2> QED
    BY <2>11, <2>12
<1> QED
  BY <1>2, <1>3

LEMMA BuildKeeps == ASSUME IInv, NEW c \in Clients, Build(c) PROVE IInv'
<1>1. Busy(c) /\ Place(c)[1] = "build"
  BY StageTells DEF Build, At, IInv
<1>2. CASE Stop(c)
  BY <1>1, <1>2, StopKeeps
<1>3. CASE ~Stop(c)
  <2>1. PICK p \in Names : p = Target(c)
    BY <1>1, TargetIsName DEF IInv
  <2> DEFINE config == BuildConfig(p, got[c], job[c].nth)
  <2>2. /\ config # NULL /\ GoOn(c)
        /\ got' = [got EXCEPT ![c] = [config |-> config, tests |-> CleanTests(@.tests)]]
        /\ UNCHANGED <<folder, disk, runs, clock, job, fd, left, report, jobs, history>>
    BY <1>3, <2>1 DEF Build
  <2>3. Place(c) = Plain("build") /\ job[c].do = "create" /\ job[c].nth \in Nat
    BY <1>1, StageTells, WhoIsAt, TargetIsName DEF IInv, AllJobs
  <2>4. config \in Configs /\ config.name = p
    <3>1. config = [values |-> job[c].nth, models |-> job[c].nth, archived |-> FALSE, name |-> p,
                    output |-> "results", loads |-> LoadsWith(CleanModels(got[c].models))]
      BY <2>2 DEF BuildConfig
    <3>2. LoadsWith(CleanModels(got[c].models)) \in BOOLEAN
      BY DEF LoadsWith, IsInjective
    <3>3. "results" \in Places
      BY DEF Places
    <3> HIDE DEF config
    <3> QED
      BY <2>3, <3>1, <3>2, <3>3 DEF Configs
  <2> HIDE DEF config
  <2>5. /\ got'[c].config = config /\ DOMAIN got' = Clients /\ DOMAIN left' = Clients
        /\ \A d \in Clients : d # c => got'[d] = got[d] /\ left'[d] = left[d]
        /\ DOMAIN causes' = Names /\ job' = job /\ Target(c)' = p
    BY <2>1, <2>2 DEF IInv, Shape, history, Target
  <2>6. Advances(c, OnConfig("open"))
    BY <1>1, <2>2, <2>3, GoOnAdvances, AfterEach, StageTells DEF IInv
  <2>7. Place(c)' = OnConfig("open")
    BY <2>6 DEF Advances
  <2>8. HoldsOK(c)'
    BY <2>4, <2>5, <2>7 DEF HoldsOK, Plain, OnConfig
  <2>9. Undisturbed(c)'
    <3>1. Removes(c)' /\ Records(c)' /\ RewritesInPlace(c)' /\ Copies(c)'
      BY <2>7 DEF Removes, Records, RewritesInPlace, Copies, Plain, OnConfig
    <3>2. SavesInPlace(c)'
      BY <2>3, <2>4, <2>5, <2>7 DEF SavesInPlace, OnConfig
    <3> QED
      BY <3>1, <3>2 DEF Undisturbed
  <2>10. ~Disturbs(c)
    BY <2>3 DEF Disturbs, Plain, OnConfig
  <2> QED
    BY <1>1, <2>1, <2>2, <2>5, <2>6, <2>8, <2>9, <2>10, QuietKeeps DEF history
<1> QED
  BY <1>2, <1>3

LEMMA CopyTreeKeeps == ASSUME IInv, NEW c \in Clients, CopyTree(c) PROVE IInv'
<1>1. Busy(c) /\ Place(c)[1] = "copytree"
  BY StageTells DEF CopyTree, At, IInv
<1>2. CASE Stop(c)
  BY <1>1, <1>2, StopKeeps
<1>3. CASE ~Stop(c)
  <2>1. PICK p \in Names : p = Target(c)
    BY <1>1, TargetIsName DEF IInv
  <2>2. PICK from \in Names : from = job[c].on
    BY <1>1, TargetIsName DEF IInv
  <2>3. /\ p \notin folder /\ folder' = folder \cup {p} /\ GoOn(c)
        /\ left' = [left EXCEPT ![c] = Copied(from)]
        /\ \E more : causes' = [causes EXCEPT ![p] = @ \cup more]
        /\ UNCHANGED <<disk, runs, clock, job, got, fd, report, jobs, believed>>
    BY <1>3, <2>1, <2>2 DEF CopyTree
  <2>4. Place(c) = Plain("copytree") /\ job[c].do = "duplicate" /\ ~Disturbs(c)
    <3>1. Place(c) = Plain("copytree") /\ job[c].do = "duplicate"
      BY <1>1, StageTells, WhoIsAt DEF IInv
    <3> QED
      BY <3>1 DEF Disturbs, Plain, OnConfig
  <2>5. /\ left'[c] = Copied(from) /\ DOMAIN got' = Clients /\ DOMAIN left' = Clients
        /\ \A d \in Clients : d # c => got'[d] = got[d] /\ left'[d] = left[d]
        /\ DOMAIN causes' = Names /\ \A q \in Names : causes[q] \subseteq causes'[q]
        /\ job' = job /\ Target(c)' = p /\ disk' = disk
    BY <2>1, <2>3 DEF IInv, Shape, Target
  <2>6. Advances(c, Plain("copy"))
    BY <1>1, <2>3, <2>4, GoOnAdvances, AfterEach, StageTells DEF IInv
  <2>7. Place(c)' = Plain("copy")
    BY <2>6 DEF Advances
  <2>8. HoldsOK(c)'
    <3>1. Copied(from) \subseteq Paths \ Places
      BY DEF Copied, There
    <3> QED
      BY <2>5, <2>7, <3>1 DEF HoldsOK, HasConfig, Plain, OnConfig
  <2>9. Undisturbed(c)'
    <3>1. SavesInPlace(c)' /\ Removes(c)' /\ Records(c)' /\ RewritesInPlace(c)'
      BY <2>7 DEF SavesInPlace, Removes, Records, RewritesInPlace, Plain, OnConfig
    <3>2. There(p) = {} /\ There(p)' = There(p) /\ There(from)' = There(from)
          /\ ConfigFile(from)' = ConfigFile(from)
      BY <2>3, SameFiles DEF IInv, FilesOK
    <3>3. ConfigPaths \cap There(from) \subseteq Copied(from)
      BY DEF Copied, ConfigPaths, Places
    <3>4. Copies(c)'
      BY <2>2, <2>5, <2>7, <3>2, <3>3, ConfigFileIsThere DEF Copies, Plain
    <3> QED
      BY <3>1, <3>4 DEF Undisturbed
  <2> QED
    BY <1>1, <2>1, <2>3, <2>4, <2>5, <2>6, <2>8, <2>9, QuietKeeps
<1> QED
  BY <1>2, <1>3

LEMMA ListKeeps == ASSUME IInv, NEW c \in Clients, List(c) PROVE IInv'
<1>1. Busy(c) /\ Place(c)[1] = "list"
  BY StageTells DEF List, At, IInv
<1>2. CASE Stop(c)
  BY <1>1, <1>2, StopKeeps
<1>3. CASE ~Stop(c)
  <2>1. PICK p \in Names : p = Target(c)
    BY <1>1, TargetIsName DEF IInv
  <2>2. /\ left' = [left EXCEPT ![c] = Doomed(p, job[c].say)] /\ GoOn(c)
        /\ UNCHANGED <<folder, disk, runs, clock, job, got, fd, report, jobs, history>>
    BY <1>3, <2>1 DEF List
  <2>3. Place(c) = Plain("list") /\ job[c].do = "delete" /\ ~Disturbs(c)
    <3>1. Place(c) = Plain("list") /\ job[c].do = "delete"
      BY <1>1, StageTells, WhoIsAt DEF IInv
    <3> QED
      BY <3>1 DEF Disturbs, Plain, OnConfig
  <2>4. /\ left'[c] = Doomed(p, job[c].say) /\ DOMAIN got' = Clients /\ DOMAIN left' = Clients
        /\ \A d \in Clients : d # c => got'[d] = got[d] /\ left'[d] = left[d]
        /\ DOMAIN causes' = Names /\ job' = job /\ Target(c)' = p /\ There(p)' = There(p)
    BY <2>1, <2>2, SameFiles DEF IInv, Shape, Target, history
  <2>5. Advances(c, Plain("remove"))
    BY <1>1, <2>2, <2>3, GoOnAdvances, AfterEach, StageTells DEF IInv
  <2>6. Place(c)' = Plain("remove")
    BY <2>5 DEF Advances
  <2>7. HoldsOK(c)'
    <3>1. Doomed(p, job[c].say) \subseteq Paths
          /\ (job[c].say = "keep" => "results" \notin Doomed(p, job[c].say))
      BY DEF Doomed, There
    <3> QED
      BY <2>4, <2>6, <3>1 DEF HoldsOK, HasConfig, Plain, OnConfig
  <2>8. Undisturbed(c)'
    <3>1. SavesInPlace(c)' /\ Copies(c)' /\ Records(c)' /\ RewritesInPlace(c)'
      BY <2>6 DEF SavesInPlace, Copies, Records, RewritesInPlace, Plain, OnConfig
    <3>2. ConfigPaths \cap There(p) \subseteq Doomed(p, job[c].say)
      BY DEF Doomed, ConfigPaths
    <3>3. Removes(c)'
      BY <2>4, <3>2 DEF Removes
    <3> QED
      BY <3>1, <3>3 DEF Undisturbed
  <2> QED
    BY <1>1, <2>1, <2>2, <2>3, <2>4, <2>5, <2>7, <2>8, QuietKeeps DEF history
<1> QED
  BY <1>2, <1>3

-----------------------------------------------------------------------------
(* What is copied and removed *)

LEMMA SameConfigs ==
  ASSUME NEW p \in Names, \A path \in ConfigPaths : disk'[p][path] = disk[p][path],
         believed'[p] = believed[p]
  PROVE  /\ ConfigFile(p)' = ConfigFile(p) /\ (ConfigGood(p)' <=> ConfigGood(p))
         /\ ConfigPaths \cap There(p)' = ConfigPaths \cap There(p)
<1>1. ConfigPaths \cap There(p)' = ConfigPaths \cap There(p)
  BY DEF There, ConfigPaths, Paths
<1>2. ConfigFile(p)' = ConfigFile(p)
  BY <1>1 DEF ConfigFile, ConfigPaths
<1> QED
  BY <1>1, <1>2, ConfigFileIsThere DEF ConfigGood

LEMMA CopyOneKeeps ==
  ASSUME IInv, NEW c \in Clients, Busy(c), Place(c) = Plain("copy"), job[c].do = "duplicate",
         NEW p \in Names, p = Target(c), NEW from \in Names, from = job[c].on,
         NEW path \in left[c], left' = [left EXCEPT ![c] = @ \ {path}],
         disk[from][path].kind # "absent", p \in folder,
         disk' = [disk EXCEPT ![p][path] = disk[from][path]],
         runs' = [runs EXCEPT ![p] = @ \cup {r \in runs[from] : r.place = path}],
         believed' = IF path = ConfigFile(from)
                     THEN [believed EXCEPT ![p] = disk[from][path].holds] ELSE believed,
         UNCHANGED <<got, folder, clock, todo, job, fd, report, jobs, causes>>
  PROVE  IInv'
<1>1. /\ path \in Paths \ Places /\ left[c] \subseteq Paths \ Places /\ from # p
      /\ DOMAIN disk[p] = Paths
  BY DEF IInv, HoldsOK, TodoOK, Shape, Target
<1>2. Advances(c, Plain("copy"))
  BY StayAdvances DEF IInv
<1>3. Place(c)' = Plain("copy") /\ Target(c)' = p /\ job' = job /\ Busy(c)'
  BY <1>2 DEF Advances, Target, Plain, Done
<1>4. runs' = [runs EXCEPT ![p] = runs[p]]
  <2>1. {r \in runs[from] : r.place = path} = {}
    BY <1>1 DEF IInv, HistoryOK
  <2> QED
    BY <2>1
<1>5. /\ \A q \in Names : q # p => disk'[q] = disk[q] /\ believed'[q] = believed[q] /\ runs'[q] = runs[q]
      /\ runs'[p] = runs[p] /\ DOMAIN runs' = Names
      /\ \A other \in Paths : disk'[p][other] = IF other = path THEN disk[from][path] ELSE disk[p][other]
      /\ DOMAIN disk' = Names /\ \A q \in Names : DOMAIN disk'[q] = Paths
      /\ DOMAIN believed' = Names
      /\ believed'[p] = IF path = ConfigFile(from) THEN disk[from][path].holds ELSE believed[p]
      /\ \A d \in Clients : left'[d] = IF d = c THEN left[c] \ {path} ELSE left[d]
      /\ DOMAIN left' = Clients
  BY <1>1, <1>4 DEF IInv, Shape
<1>6. OthersKeep(c)
  BY <1>5 DEF OthersKeep
<1>7. Shape'
  BY <1>2, <1>5 DEF IInv, Shape, Advances
<1>8. /\ There(p)' = There(p) \cup {path} /\ \A q \in Names : q # p => There(q)' = There(q)
      /\ \A q \in Names : There(q) \subseteq There(q)'
  <2>1. There(p)' = There(p) \cup {path}
    BY <1>1, <1>5 DEF There
  <2>2. \A q \in Names : q # p => There(q)' = There(q)
    BY <1>5 DEF There
  <2> QED
    BY <2>1, <2>2
<1>9. FilesOK'
  <2>1. \A q \in Names \ folder' : There(q)' = {}
    BY <1>8 DEF IInv, FilesOK
  <2>2. ASSUME NEW q \in Names, NEW other \in FilesOf("config"), disk'[q][other].kind = "whole"
        PROVE  disk'[q][other].holds \in Configs
    <3>1. other \in Paths
      BY DEF FilesOf, Paths
    <3>2. disk'[q][other] = disk[q][other] \/ disk'[q][other] = disk[from][other]
      BY <1>5, <3>1
    <3> QED
      BY <2>2, <3>2 DEF IInv, FilesOK
  <2>3. \A d \in Clients : /\ fd'[d] = fd[d] /\ Place(d)' = Place(d) /\ Target(d)' = Target(d)
                           /\ Target(d) \in Names => There(Target(d)) \subseteq There(Target(d))'
    <3>1. \A d \in Clients : fd'[d] = fd[d] /\ Place(d)' = Place(d) /\ Target(d)' = Target(d)
      BY <1>2 DEF Advances, Target
    <3>2. ASSUME NEW d \in Clients, Target(d) \in Names PROVE There(Target(d)) \subseteq There(Target(d))'
      <4>1. PICK q \in Names : q = Target(d)
        BY <3>2
      <4>2. There(Target(d))' = There(q)'
        BY <3>1, <4>1 DEF There
      <4> QED
        BY <1>8, <4>1, <4>2
    <3> QED
      BY <3>1, <3>2
  <2>4. \A d \in Clients : fd[d] # NULL => Target(d) \in Names
    BY DEF IInv, FilesOK, Shape
  <2> QED
    BY <2>1, <2>2, <2>3, <2>4 DEF IInv, FilesOK
<1>10. HoldsOK(c)'
  BY <1>1, <1>3, <1>5 DEF HoldsOK, HasConfig, Plain, OnConfig
<1>11. Clean(p)' => Undisturbed(c)'
  <2> SUFFICES ASSUME Clean(p)' PROVE Undisturbed(c)'
    OBVIOUS
  <2>1. SavesInPlace(c)' /\ Removes(c)' /\ Records(c)' /\ RewritesInPlace(c)'
    BY <1>3 DEF SavesInPlace, Removes, Records, RewritesInPlace, Plain, OnConfig
  <2>2. Copies(c)
    BY DEF IInv, Undisturbed, Clean
  <2>3. There(from)' = There(from) /\ ConfigFile(from)' = ConfigFile(from) /\ disk'[from] = disk[from]
    BY <1>1, <1>5, SameFiles
  <2>4. ASSUME got[c] = NULL
        PROVE  /\ \A other \in ConfigPaths :
                     IF other \in There(from)' \ left'[c] THEN disk'[p][other] = disk'[from][other]
                     ELSE other \notin There(p)'
               /\ ConfigFile(from)' # NULL /\ ConfigFile(from)' \notin left'[c]
                     => believed'[p] = disk'[from][ConfigFile(from)'].holds
    <3>1. \A other \in ConfigPaths :
            IF other \in There(from) \ left[c] THEN disk[p][other] = disk[from][other]
            ELSE other \notin There(p)
      BY <2>2, <2>4 DEF Copies
    <3>2. ConfigFile(from) # NULL /\ ConfigFile(from) \notin left[c] =>
             believed[p] = disk[from][ConfigFile(from)].holds
      BY <2>2, <2>4 DEF Copies
    <3>3. path \in There(from)
      BY <1>1 DEF There
    <3>4. ConfigPaths \subseteq Paths
      BY DEF Paths
    <3>5. \A other \in ConfigPaths :
            IF other \in There(from) \ left'[c] THEN disk'[p][other] = disk[from][other]
            ELSE other \notin There(p)'
      BY <1>5, <1>8, <3>1, <3>3, <3>4
    <3>6. ConfigFile(from) # NULL /\ ConfigFile(from) \notin left'[c]
             => believed'[p] = disk[from][ConfigFile(from)].holds
      BY <1>5, <3>2
    <3> QED
      BY <2>3, <3>5, <3>6
  <2>5. Copies(c)'
    BY <1>3, <2>4 DEF Copies, Plain
  <2> QED
    BY <2>1, <2>5 DEF Undisturbed
<1>12. FolderOK(p)'
  BY <1>3 DEF FolderOK, Disturbs
<1>13. HistoryOK(p)'
  BY <1>5 DEF IInv, HistoryOK, Clean
<1> QED
  BY <1>2, <1>6, <1>7, <1>9, <1>10, <1>11, <1>12, <1>13, Suffices

LEMMA CopyKeeps == ASSUME IInv, NEW c \in Clients, Copy(c) PROVE IInv'
<1>1. Busy(c) /\ Place(c)[1] = "copy"
  BY StageTells DEF Copy, At, IInv
<1>2. CASE Stop(c)
  BY <1>1, <1>2, StopKeeps
<1>3. PICK p \in Names : p = Target(c)
  BY <1>1, TargetIsName DEF IInv
<1>4. PICK from \in Names : from = job[c].on
  BY <1>1, TargetIsName DEF IInv
<1>5. Place(c) = Plain("copy") /\ job[c].do = "duplicate"
  BY <1>1, StageTells, WhoIsAt DEF IInv
<1>6. CASE left[c] = {} /\ got[c] = NULL
  <2>1. GoOn(c) /\ UNCHANGED <<folder, disk, runs, clock, job, got, fd, left, report, jobs, history>>
    BY <1>6 DEF Copy
  <2>2. Advances(c, Plain("read"))
    BY <1>1, <1>5, <2>1, GoOnAdvances, AfterEach, StageTells DEF IInv
  <2>3. Place(c)' = Plain("read") /\ job' = job /\ Target(c)' = p /\ Busy(c)'
    BY <1>3, <2>1, <2>2 DEF Advances, Target, Plain, Done
  <2>4. HoldsOK(c)'
    BY <1>5, <2>3 DEF HoldsOK, HasConfig, Plain, OnConfig
  <2>5. Clean(p)' => Undisturbed(c)'
    <3> SUFFICES ASSUME Clean(p)' PROVE Undisturbed(c)'
      OBVIOUS
    <3>1. SavesInPlace(c)' /\ Removes(c)' /\ Records(c)' /\ RewritesInPlace(c)'
      BY <1>5, <2>3 DEF SavesInPlace, Removes, Records, RewritesInPlace, Plain, OnConfig
    <3>2. Copies(c)
      BY <1>1, <1>3, <2>1 DEF IInv, Undisturbed, Clean, history
    <3>3. /\ \A path \in ConfigPaths :
               IF path \in There(from) THEN disk[p][path] = disk[from][path] ELSE path \notin There(p)
          /\ ConfigFile(from) # NULL => believed[p] = disk[from][ConfigFile(from)].holds
      BY <1>3, <1>4, <1>5, <1>6, <3>2 DEF Copies
    <3>4. ConfigFile(p) # NULL => disk[p][ConfigFile(p)].holds = believed[p]
      <4>1. ConfigPaths \cap There(p) = ConfigPaths \cap There(from)
        BY <3>3 DEF There
      <4>2. ConfigFile(p) = ConfigFile(from)
        BY <4>1 DEF ConfigFile, ConfigPaths
      <4> QED
        BY <3>3, <4>2, ConfigFileIsThere
    <3>5. Copies(c)'
      BY <2>1, <2>3, <3>4, SameFiles DEF Copies, Plain, history
    <3> QED
      BY <3>1, <3>5 DEF Undisturbed
  <2>6. Disturbs(c) => Disturbs(c)' /\ Plain("read") # Done
    BY <1>5, <2>3 DEF Disturbs, Plain, Done
  <2> QED
    BY <1>1, <1>3, <1>5, <2>1, <2>2, <2>4, <2>5, <2>6, QuietKeeps DEF history, IInv, Shape, Plain
<1>7. CASE left[c] # {}
  <2>1. PICK path \in left[c] :
          /\ left' = [left EXCEPT ![c] = @ \ {path}]
          /\ IF disk[from][path].kind = "absent" \/ p \notin folder
             THEN /\ got' = [got EXCEPT ![c] = "missed"]
                  /\ UNCHANGED <<disk, runs, believed>>
             ELSE /\ disk' = [disk EXCEPT ![p][path] = disk[from][path]]
                  /\ runs' = [runs EXCEPT ![p] = @ \cup {r \in runs[from] : r.place = path}]
                  /\ believed' = IF path = ConfigFile(from)
                                 THEN [believed EXCEPT ![p] = disk[from][path].holds] ELSE believed
                  /\ UNCHANGED got
          /\ UNCHANGED <<folder, clock, todo, job, fd, report, jobs, causes>>
    BY <1>3, <1>4, <1>7 DEF Copy
  <2>2. CASE disk[from][path].kind = "absent" \/ p \notin folder
    <3>1. Advances(c, Plain("copy"))
      BY <1>5, <2>1, StayAdvances DEF IInv
    <3>2. Place(c)' = Plain("copy") /\ job' = job
      BY <2>1, <3>1 DEF Advances
    <3>3. /\ got'[c] # NULL /\ left'[c] \subseteq left[c] /\ DOMAIN got' = Clients /\ DOMAIN left' = Clients
          /\ \A d \in Clients : d # c => got'[d] = got[d] /\ left'[d] = left[d]
          /\ DOMAIN causes' = Names
      BY <2>1, <2>2, FilesAssumption DEF IInv, Shape
    <3>4. HoldsOK(c)'
      BY <1>5, <3>2, <3>3 DEF IInv, HoldsOK, HasConfig, Plain, OnConfig
    <3>5. Undisturbed(c)'
      BY <3>2, <3>3 DEF Undisturbed, SavesInPlace, Removes, Records, RewritesInPlace, Copies, Plain, OnConfig
    <3>6. Disturbs(c)' /\ Plain("copy") # Done
      BY <3>2 DEF Disturbs, Plain, Done
    <3> QED
      BY <1>1, <1>3, <1>5, <2>1, <2>2, <3>1, <3>3, <3>4, <3>5, <3>6, QuietKeeps DEF Plain
  <2>3. CASE ~(disk[from][path].kind = "absent" \/ p \notin folder)
    <3>1. /\ disk' = [disk EXCEPT ![p][path] = disk[from][path]]
          /\ runs' = [runs EXCEPT ![p] = @ \cup {r \in runs[from] : r.place = path}]
          /\ believed' = IF path = ConfigFile(from)
                         THEN [believed EXCEPT ![p] = disk[from][path].holds] ELSE believed
          /\ left' = [left EXCEPT ![c] = @ \ {path}]
          /\ UNCHANGED <<got, folder, clock, todo, job, fd, report, jobs, causes>>
          /\ disk[from][path].kind # "absent" /\ p \in folder
      BY <2>1, <2>3
    <3> QED
      BY <1>1, <1>3, <1>4, <1>5, <3>1, CopyOneKeeps
  <2> QED
    BY <2>2, <2>3
<1> QED
  BY <1>2, <1>6, <1>7 DEF Copy

\* A step that writes into the folder of its client only, of which it may have a file open next.
WritesHere(c, p, to) ==
    /\ \A q \in Names : q # p => disk'[q] = disk[q]
    /\ folder \ {p} \subseteq folder'
    /\ p \notin folder' => There(p)' = {}
    /\ \A path \in FilesOf("config") :
          disk'[p][path].kind = "whole" => disk'[p][path].holds \in Configs
    /\ fd' \in [Clients -> (Names \X Paths) \cup {NULL}]
    /\ \A d \in Clients : d # c /\ fd'[d] # NULL =>
          /\ fd[d] # NULL /\ fd'[d][1] = fd[d][1]
          /\ fd[d][1] # p => fd'[d] = fd[d]
          /\ fd[d][1] = p => fd'[d][2] \in There(p)'
          /\ \A stem : fd[d][2] \in FilesOf(stem) => fd'[d][2] \in FilesOf(stem)
    /\ fd'[c] # NULL =>
          /\ to[1] \in {"write", "finish"} /\ fd'[c][1] = p /\ fd'[c][2] \in There(p)'
          /\ to[1] = "write" => fd'[c][2] \in FilesOf(to[2])

LEMMA FilesSuffice ==
  ASSUME IInv, NEW c \in Clients, NEW p \in Names, p = Target(c), NEW to, Advances(c, to), job' = job,
         WritesHere(c, p, to)
  PROVE  FilesOK'
<1>1. \A q \in Names : q # p => There(q)' = There(q)
  BY DEF There, WritesHere
<1>2. \A q \in Names \ folder' : There(q)' = {}
  BY <1>1 DEF IInv, FilesOK, WritesHere
<1>3. \A q \in Names : \A path \in FilesOf("config") :
        disk'[q][path].kind = "whole" => disk'[q][path].holds \in Configs
  BY DEF IInv, FilesOK, WritesHere
<1>4. ASSUME NEW d \in Clients, fd'[d] # NULL
      PROVE  /\ Place(d)'[1] \in {"write", "finish"}
             /\ fd'[d][1] = Target(d)'
             /\ fd'[d][2] \in There(Target(d))'
             /\ Place(d)'[1] = "write" => fd'[d][2] \in FilesOf(Place(d)'[2])
  <2>1. Target(d)' = Target(d)
    BY DEF Target
  <2>2. CASE d = c
    <3>1. Place(d)' = to /\ Target(d) = p
      BY <2>2 DEF Advances
    <3>2. There(Target(d))' = There(p)'
      BY <2>1, <3>1 DEF There
    <3> QED
      BY <1>4, <2>1, <2>2, <3>1, <3>2 DEF WritesHere
  <2>3. CASE d # c
    <3>1. Place(d)' = Place(d)
      BY <2>3 DEF Advances
    <3>2. /\ fd[d] # NULL /\ fd[d][1] = Target(d) /\ fd[d][2] \in There(Target(d))
          /\ Place(d)[1] \in {"write", "finish"}
          /\ Place(d)[1] = "write" => fd[d][2] \in FilesOf(Place(d)[2])
      BY <1>4, <2>3 DEF IInv, FilesOK, WritesHere
    <3>3. PICK q \in Names : q = Target(d)
      BY <3>2 DEF IInv, Shape
    <3>4. There(Target(d))' = There(q)'
      BY <2>1, <3>3 DEF There
    <3>5. fd'[d][2] \in There(q)'
      BY <1>1, <1>4, <2>3, <3>2, <3>3 DEF WritesHere
    <3> QED
      BY <1>4, <2>1, <2>3, <3>1, <3>2, <3>4, <3>5 DEF WritesHere
  <2> QED
    BY <2>2, <2>3
<1> QED
  BY <1>2, <1>3, <1>4 DEF FilesOK

\* What a client of a folder has open while it writes.
LEMMA OpenHere ==
  ASSUME IInv, NEW d \in Clients, fd[d] # NULL
  PROVE  /\ fd[d] = <<fd[d][1], fd[d][2]>> /\ fd[d][1] \in Names /\ fd[d][2] \in Paths
         /\ fd[d][1] = Target(d) /\ fd[d][2] \in There(Target(d))
         /\ Place(d)[1] \in {"write", "finish"}
         /\ Place(d)[1] = "write" => fd[d][2] \in FilesOf(Place(d)[2])
  BY DEF IInv, Shape, FilesOK

\* A step that touches no folder but p, and nothing that is open in another.
FilesHere(p) ==
    /\ DOMAIN disk' = Names /\ \A q \in Names : DOMAIN disk'[q] = Paths
    /\ \A q \in Names : q # p => disk'[q] = disk[q]
    /\ fd' \in [Clients -> (Names \X Paths) \cup {NULL}]
    /\ \A d \in Clients : fd'[d] = fd[d] \/ (fd[d] # NULL /\ fd[d][1] = p)

\* One file less, and nobody has it open.
LEMMA ClosedFile ==
  ASSUME IInv, NEW c \in Clients, fd[c] = NULL, NEW p \in Names, p = Target(c), NEW to, Advances(c, to), job' = job,
         NEW path \in Paths, disk' = [disk EXCEPT ![p][path] = Absent],
         fd' = Closed(p, {path}), folder' = folder
  PROVE  /\ FilesOK' /\ There(p)' = There(p) \ {path} /\ FilesHere(p)
         /\ \A other \in Paths : disk'[p][other] = IF other = path THEN Absent ELSE disk[p][other]
<1>1. /\ DOMAIN disk' = Names /\ \A q \in Names : DOMAIN disk'[q] = Paths
      /\ \A q \in Names : q # p => disk'[q] = disk[q]
      /\ \A other \in Paths : disk'[p][other] = IF other = path THEN Absent ELSE disk[p][other]
  BY DEF IInv, Shape
<1>2. There(p)' = There(p) \ {path}
  BY <1>1 DEF There, Absent
<1>3. /\ fd' \in [Clients -> (Names \X Paths) \cup {NULL}]
      /\ \A d \in Clients : fd'[d] = IF fd[d] = <<p, path>> THEN NULL ELSE fd[d]
  BY DEF Closed, IInv, Shape
<1>4. ASSUME NEW d \in Clients PROVE fd'[d] = fd[d] \/ (fd[d] # NULL /\ fd[d][1] = p)
  <2>1. <<p, path>> # NULL
    BY FilesAssumption
  <2>2. CASE fd[d] = <<p, path>>
    BY <2>1, <2>2
  <2>3. CASE fd[d] # <<p, path>>
    BY <1>3, <2>3
  <2> QED
    BY <2>2, <2>3
<1>5. \A d \in Clients : d # c /\ fd'[d] # NULL =>
            /\ fd[d] # NULL /\ fd'[d][1] = fd[d][1]
            /\ fd[d][1] # p => fd'[d] = fd[d]
            /\ fd[d][1] = p => fd'[d][2] \in There(p)'
            /\ \A any : fd[d][2] \in FilesOf(any) => fd'[d][2] \in FilesOf(any)
  <2> SUFFICES ASSUME NEW d \in Clients, d # c, fd'[d] # NULL
               PROVE  fd[d] # NULL /\ fd'[d] = fd[d] /\ (fd[d][1] = p => fd[d][2] \in There(p)')
    OBVIOUS
  <2>1. fd'[d] = fd[d] /\ fd[d] # <<p, path>> /\ fd[d] # NULL
    BY <1>3
  <2>2. fd[d] = <<fd[d][1], fd[d][2]>> /\ fd[d][1] = Target(d) /\ fd[d][2] \in There(Target(d))
    BY <2>1, OpenHere
  <2>3. fd[d][1] = p => fd[d][2] # path /\ fd[d][2] \in There(p)
    BY <2>1, <2>2
  <2> QED
    BY <1>2, <2>1, <2>3
<1>6. \A other \in FilesOf("config") : disk'[p][other].kind = "whole" => disk'[p][other].holds \in Configs
  <2>1. FilesOf("config") \subseteq Paths
    BY DEF FilesOf, Paths
  <2> QED
    BY <1>1, <2>1 DEF IInv, FilesOK, Absent
<1>7. folder \ {p} \subseteq folder' /\ (p \notin folder' => There(p)' = {}) /\ fd'[c] = NULL
  BY <1>2, <1>3 DEF IInv, FilesOK
<1>8. WritesHere(c, p, to)
  BY <1>1, <1>3, <1>5, <1>6, <1>7, Zenon DEF WritesHere
<1>9. FilesOK'
  BY <1>8, FilesSuffice
<1> QED
  BY <1>1, <1>2, <1>3, <1>4, <1>9 DEF FilesHere

LEMMA EraseOneKeeps ==
  ASSUME IInv, NEW c \in Clients, Busy(c), Place(c) = Plain("remove"), job[c].do = "delete",
         NEW p \in Names, p = Target(c), NEW path \in left[c], left' = [left EXCEPT ![c] = @ \ {path}],
         disk' = [disk EXCEPT ![p][path] = Absent],
         runs' = [runs EXCEPT ![p] = {r \in @ : r.place # path}],
         fd' = Closed(p, {path}),
         UNCHANGED <<folder, clock, todo, job, got, report, jobs, history>>
  PROVE  IInv'
<1>1. path \in Paths /\ left[c] \subseteq Paths /\ DOMAIN disk[p] = Paths
      /\ (job[c].say = "keep" => "results" \notin left[c])
  BY DEF IInv, HoldsOK, Shape
<1>2. Advances(c, Plain("remove"))
  BY StayAdvances DEF IInv
<1>3. Place(c)' = Plain("remove") /\ Target(c)' = p /\ job' = job /\ Busy(c)'
  BY <1>2 DEF Advances, Target, Plain, Done
<1>4. /\ \A q \in Names : q # p => disk'[q] = disk[q] /\ believed'[q] = believed[q] /\ runs'[q] = runs[q]
      /\ runs'[p] = {r \in runs[p] : r.place # path} /\ DOMAIN runs' = Names
      /\ \A other \in Paths : disk'[p][other] = IF other = path THEN Absent ELSE disk[p][other]
      /\ DOMAIN disk' = Names /\ \A q \in Names : DOMAIN disk'[q] = Paths
      /\ \A d \in Clients : left'[d] = IF d = c THEN left[c] \ {path} ELSE left[d]
      /\ DOMAIN left' = Clients /\ UNCHANGED <<believed, causes>>
  BY <1>1 DEF IInv, Shape, history
<1>5. fd[c] = NULL
  BY DEF IInv, FilesOK, Plain
<1>6. /\ FilesOK' /\ There(p)' = There(p) \ {path} /\ FilesHere(p)
  <2>1. job' = job /\ folder' = folder
    BY <1>3
  <2> QED
    BY <1>1, <1>2, <1>5, <2>1, ClosedFile
<1>7. OthersKeep(c)
  BY <1>3, <1>4, <1>6 DEF OthersKeep, FilesHere
<1>8. Shape'
  BY <1>2, <1>3, <1>4, <1>6 DEF IInv, Shape, Advances, FilesHere
<1>9. HoldsOK(c)'
  BY <1>1, <1>3, <1>4 DEF HoldsOK, HasConfig, Plain, OnConfig
<1>10. Clean(p)' => Undisturbed(c)'
  <2> SUFFICES ASSUME Clean(p)' PROVE Undisturbed(c)'
    OBVIOUS
  <2>1. SavesInPlace(c)' /\ Copies(c)' /\ Records(c)' /\ RewritesInPlace(c)'
    BY <1>3 DEF SavesInPlace, Copies, Records, RewritesInPlace, Plain, OnConfig
  <2>2. Removes(c)
    BY <1>4 DEF IInv, Undisturbed, Clean
  <2>3. There(Target(c))' = There(p)'
    BY <1>3 DEF There
  <2>4. Removes(c)'
    BY <1>4, <1>6, <2>2, <2>3 DEF Removes
  <2> QED
    BY <2>1, <2>4 DEF Undisturbed
<1>11. FolderOK(p)'
  BY <1>3 DEF FolderOK, Disturbs
<1>12. HistoryOK(p)'
  BY <1>4 DEF IInv, HistoryOK, Clean
<1> QED
  BY <1>2, <1>6, <1>7, <1>8, <1>9, <1>10, <1>11, <1>12, Suffices

LEMMA EraseKeeps == ASSUME IInv, NEW c \in Clients, Erase(c) PROVE IInv'
<1>1. Busy(c) /\ Place(c)[1] = "remove"
  BY StageTells DEF Erase, At, IInv
<1>2. CASE Stop(c)
  BY <1>1, <1>2, StopKeeps
<1>3. PICK p \in Names : p = Target(c)
  BY <1>1, TargetIsName DEF IInv
<1>4. Place(c) = Plain("remove") /\ job[c].do = "delete"
  BY <1>1, StageTells, WhoIsAt DEF IInv
<1>5. CASE ~Stop(c) /\ left[c] = {}
  <2>1. /\ job[c].say = "all" => There(p) = {}
        /\ folder' = IF job[c].say = "all" THEN folder \ {p} ELSE folder
        /\ GoOn(c) /\ UNCHANGED <<disk, runs, clock, job, got, fd, left, report, jobs, history>>
    BY <1>3, <1>5 DEF Erase
  <2>2. Advances(c, Done)
    BY <1>1, <1>4, <2>1, GoOnAdvances, AfterEach, StageTells DEF IInv
  <2>3. OthersKeep(c) /\ UNCHANGED <<believed, causes>>
    BY <2>1 DEF OthersKeep, history
  <2>4. Shape'
    BY <2>1, <2>2 DEF IInv, Shape, Advances, history
  <2>5. FilesOK'
    <3>1. fd[c] = NULL
      BY <1>4 DEF IInv, FilesOK, Plain
    <3>2. There(p)' = There(p)
      BY <2>1 DEF There
    <3>3. \A d \in Clients : fd[d] # NULL => fd[d][1] = Target(d) /\ fd[d][2] \in There(Target(d))
      BY DEF IInv, FilesOK
    <3>4. fd' \in [Clients -> (Names \X Paths) \cup {NULL}]
      BY <2>1 DEF IInv, Shape
    <3>5. \A d \in Clients : d # c /\ fd'[d] # NULL =>
            /\ fd[d] # NULL /\ fd'[d][1] = fd[d][1]
            /\ fd[d][1] # p => fd'[d] = fd[d]
            /\ fd[d][1] = p => fd'[d][2] \in There(p)'
            /\ \A stem : fd[d][2] \in FilesOf(stem) => fd'[d][2] \in FilesOf(stem)
      BY <2>1, <3>2, <3>3
    <3>6. folder \ {p} \subseteq folder' /\ (p \notin folder' => There(p)' = {})
      BY <2>1, <3>2 DEF IInv, FilesOK
    <3>7. \A path \in FilesOf("config") :
            disk'[p][path].kind = "whole" => disk'[p][path].holds \in Configs
      BY <2>1 DEF IInv, FilesOK
    <3>8. fd'[c] = NULL /\ job' = job /\ \A q \in Names : q # p => disk'[q] = disk[q]
      BY <2>1, <3>1
    <3>9. WritesHere(c, p, Done)
      BY <3>4, <3>5, <3>6, <3>7, <3>8, Zenon DEF WritesHere
    <3> QED
      BY <1>3, <2>2, <3>8, <3>9, FilesSuffice
  <2>6. HoldsOK(c)'
    BY <2>2, NothingHeld DEF Advances, HasConfig, Plain, OnConfig, Done
  <2>7. FolderOK(p)'
    <3> SUFFICES ASSUME Clean(p)' PROVE ConfigGood(p)'
      BY DEF FolderOK
    <3>1. Removes(c)
      BY <1>1, <1>3, <2>3 DEF IInv, Undisturbed, Clean
    <3>2. ConfigPaths \cap There(p) = {}
      BY <1>3, <1>4, <1>5, <3>1 DEF Removes
    <3>3. ConfigFile(p) = NULL
      BY <3>2, ConfigFileIsThere
    <3> QED
      BY <2>1, <3>3, SameFiles DEF ConfigGood
  <2>8. HistoryOK(p)'
    BY <2>1, <2>3 DEF IInv, HistoryOK, Clean
  <2> QED
    BY <1>1, <1>3, <2>2, <2>3, <2>4, <2>5, <2>6, <2>7, <2>8, Suffices
<1>6. CASE ~Stop(c) /\ left[c] # {}
  <2>1. PICK path \in left[c] :
          /\ left' = [left EXCEPT ![c] = @ \ {path}]
          /\ disk' = [disk EXCEPT ![p][path] = Absent]
          /\ runs' = [runs EXCEPT ![p] = {r \in @ : r.place # path}]
          /\ fd' = Closed(p, {path})
          /\ UNCHANGED <<folder, clock, todo, job, got, report, jobs, history>>
    BY <1>3, <1>6 DEF Erase
  <2> QED
    BY <1>1, <1>3, <1>4, <2>1, EraseOneKeeps
<1> QED
  BY <1>2, <1>5, <1>6

-----------------------------------------------------------------------------
(* What is written *)

\* A step that changes one folder's files, and has what its client has open there.
LEMMA NewFileKeeps ==
  ASSUME IInv, NEW c \in Clients, Busy(c), NEW p \in Names, p = Target(c), NEW to, Advances(c, to), job' = job,
         NEW path \in Paths, NEW text, text.kind # "absent",
         path \in FilesOf("config") /\ text.kind = "whole" => text.holds \in Configs,
         disk' = [disk EXCEPT ![p][path] = text], folder \subseteq folder', p \in folder',
         \/ fd' = fd /\ fd[c] = NULL
         \/ /\ fd' = [fd EXCEPT ![c] = <<p, path>>]
            /\ to[1] \in {"write", "finish"}
            /\ to[1] = "write" => path \in FilesOf(to[2])
  PROVE  FilesOK' /\ There(p)' = There(p) \cup {path}
<1>1. /\ \A q \in Names : q # p => disk'[q] = disk[q]
      /\ \A other \in Paths : disk'[p][other] = IF other = path THEN text ELSE disk[p][other]
  BY DEF IInv, Shape
<1>2. There(p)' = There(p) \cup {path}
  BY <1>1 DEF There
<1>3. /\ fd' \in [Clients -> (Names \X Paths) \cup {NULL}]
      /\ \A d \in Clients : d # c => fd'[d] = fd[d]
      /\ fd'[c] = NULL \/ fd'[c] = <<p, path>>
  <2>1. fd \in [Clients -> (Names \X Paths) \cup {NULL}]
    BY DEF IInv, Shape
  <2>2. <<p, path>> \in (Names \X Paths) \cup {NULL}
    OBVIOUS
  <2>3. CASE fd' = fd /\ fd[c] = NULL
    BY <2>1, <2>3
  <2>4. CASE fd' = [fd EXCEPT ![c] = <<p, path>>]
    BY <2>1, <2>2, <2>4
  <2> QED
    BY <2>3, <2>4
<1>4. folder \ {p} \subseteq folder' /\ (p \notin folder' => There(p)' = {})
  OBVIOUS
<1>5. \A other \in FilesOf("config") :
          disk'[p][other].kind = "whole" => disk'[p][other].holds \in Configs
  <2>1. FilesOf("config") \subseteq Paths
    BY DEF FilesOf, Paths
  <2> QED
    BY <1>1, <2>1 DEF IInv, FilesOK
<1>6. \A d \in Clients : d # c /\ fd'[d] # NULL =>
            /\ fd[d] # NULL /\ fd'[d][1] = fd[d][1]
            /\ fd[d][1] # p => fd'[d] = fd[d]
            /\ fd[d][1] = p => fd'[d][2] \in There(p)'
            /\ \A stem : fd[d][2] \in FilesOf(stem) => fd'[d][2] \in FilesOf(stem)
  <2> SUFFICES ASSUME NEW d \in Clients, d # c, fd'[d] # NULL
               PROVE  fd[d] # NULL /\ fd'[d] = fd[d] /\ (fd[d][1] = p => fd[d][2] \in There(p)')
    OBVIOUS
  <2>1. fd'[d] = fd[d] /\ fd[d] # NULL
    BY <1>3
  <2> QED
    BY <1>2, <2>1, OpenHere
<1>7. fd'[c] # NULL =>
            /\ to[1] \in {"write", "finish"} /\ fd'[c][1] = p /\ fd'[c][2] \in There(p)'
            /\ to[1] = "write" => fd'[c][2] \in FilesOf(to[2])
  <2>1. fd' = fd /\ fd[c] = NULL => fd'[c] = NULL
    OBVIOUS
  <2>2. fd' = [fd EXCEPT ![c] = <<p, path>>] => fd'[c] = <<p, path>>
    BY DEF IInv, Shape
  <2> QED
    BY <1>2, <2>1, <2>2
<1>8. fd' \in [Clients -> (Names \X Paths) \cup {NULL}] /\ \A q \in Names : q # p => disk'[q] = disk[q]
  BY <1>1, <1>3
<1>9. FilesOK'
  <2>1. WritesHere(c, p, to)
    BY <1>4, <1>5, <1>6, <1>7, <1>8, Zenon DEF WritesHere
  <2> QED
    BY <2>1, FilesSuffice
<1> QED
  BY <1>2, <1>9

LEMMA OpenKeeps == ASSUME IInv, NEW c \in Clients, Open(c) PROVE IInv'
<1>1. Busy(c) /\ Place(c)[1] = "open"
  BY StageTells DEF Open, At, IInv
<1>2. CASE Stop(c)
  BY <1>1, <1>2, StopKeeps
<1>3. CASE ~Stop(c)
  <2>1. PICK p \in Names : p = Target(c)
    BY <1>1, TargetIsName DEF IInv
  <2>2. PICK stem \in {"config", "tests"} :
          /\ stem = Stem(c) /\ Place(c) = <<"open", stem>>
          /\ stem = "config" => job[c].do \in {"create", "update"}
          /\ stem = "tests" => job[c].do \in {"create", "save_tests"}
    BY <1>1, StageTells, WhoIsAt DEF IInv, OnConfig, OnTests
  <2> DEFINE tmp == TmpOf(stem)
             to == <<"write", stem>>
  <2>3. /\ p \in folder /\ disk' = [disk EXCEPT ![p][tmp] = Empty] /\ fd' = [fd EXCEPT ![c] = <<p, tmp>>]
        /\ GoOn(c) /\ UNCHANGED <<folder, runs, clock, job, got, left, report, jobs, history>>
    BY <1>3, <2>1, <2>2 DEF Open, Opens
  <2>4. /\ tmp \in Paths /\ tmp \notin ConfigPaths /\ tmp \in FilesOf(stem)
        /\ Empty.kind # "absent" /\ Empty.kind = "empty"
        /\ stem = "config" => tmp = "config.tmp"
    BY <2>2 DEF TmpOf, FilesOf, Paths, ConfigPaths, TestPaths, Places, Empty
  <2>5. Advances(c, to)
    BY <1>1, <2>2, <2>3, GoOnAdvances, AfterEach, StageTells DEF IInv, OnConfig, OnTests
  <2>6. Place(c)' = to /\ job' = job /\ Target(c)' = p /\ to # Done /\ got' = got /\ believed' = believed
    BY <2>1, <2>3, <2>5 DEF Advances, Target, Done, history
  <2> HIDE DEF tmp
  <2>7. FilesOK'
    <3>1. /\ tmp \in FilesOf("config") /\ Empty.kind = "whole" => Empty.holds \in Configs
          /\ folder \subseteq folder' /\ p \in folder' /\ job' = job
          /\ to[1] \in {"write", "finish"}
          /\ to[1] = "write" => tmp \in FilesOf(to[2])
      BY <2>3, <2>4
    <3> HIDE DEF to
    <3> QED
      BY <1>1, <2>1, <2>3, <2>4, <2>5, <3>1, NewFileKeeps, Zenon
  <2>8. /\ \A q \in Names : q # p => disk'[q] = disk[q]
        /\ \A other \in Paths : disk'[p][other] = IF other = tmp THEN Empty ELSE disk[p][other]
        /\ DOMAIN disk' = Names /\ \A q \in Names : DOMAIN disk'[q] = Paths
        /\ \A d \in Clients : fd'[d] = IF d = c THEN <<p, tmp>> ELSE fd[d]
        /\ fd' \in [Clients -> (Names \X Paths) \cup {NULL}]
        /\ UNCHANGED <<runs, believed, causes, left>>
    BY <2>3, <2>4 DEF IInv, Shape, history
  <2>9. OthersKeep(c)
    BY <2>1, <2>6, <2>8 DEF OthersKeep
  <2>10. Shape'
    BY <2>3, <2>5, <2>8 DEF IInv, Shape, Advances
  <2>11. HoldsOK(c)'
    BY <1>1, <2>2, <2>6, <2>8 DEF IInv, HoldsOK, HasConfig, Plain, OnConfig
  <2>12. Clean(p)' => Undisturbed(c)'
    <3> SUFFICES ASSUME Clean(p)' PROVE Undisturbed(c)'
      OBVIOUS
    <3>1. Copies(c)' /\ Removes(c)' /\ Records(c)'
      BY <2>6 DEF Copies, Removes, Records, Plain
    <3>2. RewritesInPlace(c)'
      BY <2>2, <2>6 DEF RewritesInPlace, Plain, OnConfig
    <3>3. SavesInPlace(c)
      BY <1>1, <2>1, <2>8 DEF IInv, Undisturbed, Clean
    <3>4. SavesInPlace(c)'
      BY <2>1, <2>2, <2>4, <2>6, <2>8, <3>3 DEF SavesInPlace, WritesAnEdit, OnConfig, Target
    <3> QED
      BY <3>1, <3>2, <3>4 DEF Undisturbed
  <2>13. FolderOK(p)'
    <3> SUFFICES ASSUME Clean(p)' PROVE ConfigGood(p)'
      BY DEF FolderOK
    <3>1. ~Disturbs(c)
      BY <2>2 DEF Disturbs, Plain, OnConfig
    <3>2. ConfigGood(p)
      BY <1>1, <2>1, <2>8, <3>1, DisturbedByOne DEF Clean
    <3>3. \A path \in ConfigPaths : disk'[p][path] = disk[p][path]
      BY <2>4, <2>8 DEF Paths
    <3> QED
      BY <2>8, <3>2, <3>3, SameConfigs
  <2>14. HistoryOK(p)'
    BY <2>8 DEF IInv, HistoryOK, Clean
  <2> QED
    BY <1>1, <2>1, <2>5, <2>6, <2>7, <2>9, <2>10, <2>11, <2>12, <2>13, <2>14, Suffices
<1> QED
  BY <1>2, <1>3

LEMMA TruncateKeeps == ASSUME IInv, NEW c \in Clients, Truncate(c) PROVE IInv'
<1>1. Busy(c) /\ Place(c)[1] = "truncate"
  BY StageTells DEF Truncate, At, IInv
<1>2. CASE Stop(c)
  BY <1>1, <1>2, StopKeeps
<1>3. CASE ~Stop(c)
  <2>1. PICK p \in Names : p = Target(c)
    BY <1>1, TargetIsName DEF IInv
  <2>2. Place(c) = OnConfig("truncate") /\ job[c].do \in {"archive", "duplicate"}
    BY <1>1, StageTells, WhoIsAt DEF IInv
  <2>3. PICK path \in ConfigPaths : left[c] = {path}
    BY <2>2 DEF IInv, HoldsOK
  <2>4. path \in Paths /\ path \in FilesOf("config") /\ Empty.kind = "empty" /\ TheOne(left[c]) = path
    BY <2>3 DEF Paths, FilesOf, Empty, TheOne
  <2>5. /\ p \in folder /\ disk' = [disk EXCEPT ![p][path] = Empty] /\ fd' = [fd EXCEPT ![c] = <<p, path>>]
        /\ GoOn(c) /\ UNCHANGED <<folder, runs, clock, job, got, left, report, jobs, history>>
    BY <1>3, <2>1, <2>4 DEF Truncate, Opens
  <2> DEFINE to == OnConfig("write")
  <2>6. Advances(c, to)
    BY <1>1, <2>2, <2>5, GoOnAdvances, AfterEach, StageTells DEF IInv
  <2>7. Place(c)' = to /\ job' = job /\ Target(c)' = p /\ to # Done /\ got' = got /\ Busy(c)'
    BY <2>1, <2>5, <2>6 DEF Advances, Target, Done, OnConfig
  <2>8. FilesOK'
    <3>1. /\ path \in FilesOf("config") /\ Empty.kind = "whole" => Empty.holds \in Configs
          /\ folder \subseteq folder' /\ p \in folder' /\ job' = job
          /\ to[1] \in {"write", "finish"}
          /\ to[1] = "write" => path \in FilesOf(to[2])
          /\ Empty.kind # "absent"
      BY <2>4, <2>5 DEF OnConfig
    <3> HIDE DEF to
    <3> QED
      BY <1>1, <2>1, <2>4, <2>5, <2>6, <3>1, NewFileKeeps, Zenon
  <2>9. /\ \A q \in Names : q # p => disk'[q] = disk[q]
        /\ \A other \in Paths : disk'[p][other] = IF other = path THEN Empty ELSE disk[p][other]
        /\ DOMAIN disk' = Names /\ \A q \in Names : DOMAIN disk'[q] = Paths
        /\ \A d \in Clients : fd'[d] = IF d = c THEN <<p, path>> ELSE fd[d]
        /\ fd' \in [Clients -> (Names \X Paths) \cup {NULL}]
        /\ UNCHANGED <<runs, believed, causes, left>>
    BY <2>4, <2>5 DEF IInv, Shape, history
  <2>10. OthersKeep(c)
    BY <2>1, <2>7, <2>9 DEF OthersKeep
  <2>11. Shape'
    BY <2>5, <2>6, <2>9 DEF IInv, Shape, Advances
  <2>12. HoldsOK(c)'
    BY <2>2, <2>7, <2>9 DEF IInv, HoldsOK, HasConfig, Plain, OnConfig
  <2>13. Clean(p)' => Undisturbed(c)'
    <3> SUFFICES ASSUME Clean(p)' PROVE Undisturbed(c)'
      OBVIOUS
    <3>1. Copies(c)' /\ Removes(c)' /\ Records(c)'
      BY <2>7 DEF Copies, Removes, Records, Plain, OnConfig
    <3>2. SavesInPlace(c)'
      BY <2>2, <2>7 DEF SavesInPlace, Plain, OnConfig
    <3>3. RewritesInPlace(c)
      BY <1>1, <2>1, <2>9 DEF IInv, Undisturbed, Clean
    <3>4. ConfigFile(p) # NULL /\ left[c] = {ConfigFile(p)} /\ WritesAnEdit(c)
      BY <2>1, <2>2, <3>3 DEF RewritesInPlace
    <3>5. path = ConfigFile(p) /\ path \in There(p)
      BY <2>3, <3>4, ConfigFileIsThere
    <3>6. ConfigFile(p)' = path
      <4>1. There(p)' = There(p)
        BY <2>4, <2>9, <3>5 DEF There
      <4> QED
        BY <3>5, <4>1 DEF ConfigFile
    <3>7. RewritesInPlace(c)'
      BY <2>1, <2>4, <2>7, <2>9, <3>4, <3>5, <3>6 DEF RewritesInPlace, WritesAnEdit, OnConfig, Plain, Target
    <3> QED
      BY <3>1, <3>2, <3>7 DEF Undisturbed
  <2>14. FolderOK(p)'
    BY <2>2, <2>7 DEF FolderOK, Disturbs
  <2>15. HistoryOK(p)'
    BY <2>9 DEF IInv, HistoryOK, Clean
  <2> QED
    BY <1>1, <2>1, <2>6, <2>7, <2>8, <2>10, <2>11, <2>12, <2>13, <2>14, <2>15, Suffices
<1> QED
  BY <1>2, <1>3

LEMMA WriteKeeps == ASSUME IInv, NEW c \in Clients, Write(c) PROVE IInv'
<1>1. Busy(c) /\ Place(c)[1] = "write"
  BY StageTells DEF Write, At, IInv
<1>2. PICK p \in Names : p = Target(c)
  BY <1>1, TargetIsName DEF IInv
<1>3. PICK stem \in {"config", "tests"} :
        /\ stem = Stem(c) /\ Place(c) = <<"write", stem>> /\ job[c].do \in Does /\ job[c] \in AllJobs
        /\ stem = "config" => job[c].do \in {"create", "update", "archive", "duplicate"}
        /\ stem = "tests" => job[c].do \in {"create", "save_tests"}
  BY <1>1, StageTells, WhoIsAt, TargetIsName DEF IInv, OnConfig, OnTests
<1>4. PICK kind \in {"whole", "mixed"} :
        /\ kind = "mixed" => fd[c] # NULL /\ disk[fd[c][1]][fd[c][2]].kind # "empty"
        /\ disk' = IF fd[c] = NULL THEN disk
                   ELSE [disk EXCEPT ![fd[c][1]][fd[c][2]] = [kind |-> kind, holds |-> got[c][stem]]]
  BY <1>3 DEF Write
<1>5. /\ IF job[c].do \in {"archive", "duplicate"} THEN Believe(c) ELSE UNCHANGED believed
      /\ fd' = [fd EXCEPT ![c] = NULL] /\ GoOn(c)
      /\ UNCHANGED <<folder, runs, clock, job, got, left, report, jobs, causes>>
  BY DEF Write
<1> DEFINE text == [kind |-> kind, holds |-> got[c][stem]]
<1>6. fd[c] # NULL => \E path \in There(p) : fd[c] = <<p, path>> /\ path \in FilesOf(stem)
  BY <1>1, <1>2, <1>3, OpenHere
<1>7. /\ \A q \in Names : q # p => disk'[q] = disk[q]
      /\ DOMAIN disk' = Names /\ \A q \in Names : DOMAIN disk'[q] = Paths
      /\ \A path \in Paths : disk'[p][path] = IF fd[c] = <<p, path>> THEN text ELSE disk[p][path]
  <2>1. CASE fd[c] = NULL
    <3>1. \A path \in Paths : fd[c] # <<p, path>>
      BY <2>1, FilesAssumption
    <3> QED
      BY <1>4, <2>1, <3>1 DEF IInv, Shape
  <2>2. CASE fd[c] # NULL
    <3>1. PICK path \in There(p) : fd[c] = <<p, path>>
      BY <1>6, <2>2
    <3>2. disk' = [disk EXCEPT ![p][path] = text] /\ path \in Paths
      BY <1>4, <2>2, <3>1 DEF There
    <3>3. \A other \in Paths : fd[c] = <<p, other>> <=> other = path
      BY <3>1
    <3> HIDE DEF text
    <3> QED
      BY <3>2, <3>3 DEF IInv, Shape
  <2> QED
    BY <2>1, <2>2
<1>8. There(p)' = There(p)
  <2>1. \A path \in Paths : fd[c] = <<p, path>> => path \in There(p)
    <3> SUFFICES ASSUME NEW path \in Paths, fd[c] = <<p, path>> PROVE path \in There(p)
      OBVIOUS
    <3>1. fd[c] # NULL
      BY FilesAssumption
    <3> QED
      BY <1>6, <3>1
  <2>2. text.kind # "absent"
    BY <1>4
  <2> HIDE DEF text
  <2> QED
    BY <1>7, <2>1, <2>2 DEF There
<1>9. /\ \A q \in Names : q # p => believed'[q] = believed[q]
      /\ DOMAIN believed' = Names
      /\ job[c].do \notin {"archive", "duplicate"} => believed' = believed
  BY <1>2, <1>5 DEF Believe, IInv, Shape
<1>10. /\ fd' \in [Clients -> (Names \X Paths) \cup {NULL}]
       /\ \A d \in Clients : fd'[d] = IF d = c THEN NULL ELSE fd[d]
  BY <1>5 DEF IInv, Shape
<1>11. OthersKeep(c)
  BY <1>2, <1>5, <1>7, <1>9, <1>10 DEF OthersKeep
<1>12. Place(c) = OnConfig("write") => got[c].config \in Configs
  BY DEF IInv, HoldsOK, HasConfig
<1>13. ASSUME NEW to, Advances(c, to) PROVE FilesOK' /\ Shape'
  <2>1. \A path \in FilesOf("config") :
          disk'[p][path].kind = "whole" => disk'[p][path].holds \in Configs
    <3> SUFFICES ASSUME NEW path \in FilesOf("config"), disk'[p][path].kind = "whole"
                 PROVE  disk'[p][path].holds \in Configs
      OBVIOUS
    <3>1. path \in Paths /\ path \notin FilesOf("tests")
      BY DEF FilesOf, Paths, ConfigPaths, TestPaths
    <3>2. CASE fd[c] # <<p, path>>
      BY <1>7, <3>1, <3>2 DEF IInv, FilesOK
    <3>3. CASE fd[c] = <<p, path>>
      <4>1. stem = "config"
        <5>1. <<p, path>> \in Names \X Paths
          BY <3>1
        <5>2. fd[c] # NULL
          BY <3>3, <5>1, FilesAssumption
        <5> QED
          BY <1>6, <3>1, <3>3, <5>2
      <4> QED
        BY <1>3, <1>7, <1>12, <3>1, <3>3, <4>1 DEF OnConfig
    <3> QED
      BY <3>2, <3>3
  <2>2. \A d \in Clients : d # c /\ fd'[d] # NULL =>
            /\ fd[d] # NULL /\ fd'[d][1] = fd[d][1]
            /\ fd[d][1] # p => fd'[d] = fd[d]
            /\ fd[d][1] = p => fd'[d][2] \in There(p)'
            /\ \A any : fd[d][2] \in FilesOf(any) => fd'[d][2] \in FilesOf(any)
    <3> SUFFICES ASSUME NEW d \in Clients, d # c, fd'[d] # NULL
                 PROVE  fd[d] # NULL /\ fd'[d] = fd[d] /\ (fd[d][1] = p => fd[d][2] \in There(p)')
      OBVIOUS
    <3> QED
      BY <1>8, <1>10, OpenHere
  <2>3. /\ folder \ {p} \subseteq folder' /\ (p \notin folder' => There(p)' = {})
        /\ fd'[c] = NULL /\ job' = job
    BY <1>5, <1>8, <1>10 DEF IInv, FilesOK
  <2>4. WritesHere(c, p, to)
    BY <1>7, <1>10, <2>1, <2>2, <2>3, Zenon DEF WritesHere
  <2>5. Shape'
    BY <1>5, <1>7, <1>9, <1>10, <1>13 DEF IInv, Shape, Advances
  <2> QED
    BY <1>2, <1>13, <2>3, <2>4, <2>5, FilesSuffice
<1>14. HistoryOK(p)'
  BY <1>5 DEF IInv, HistoryOK, Clean
<1>15. Clean(p)' <=> Clean(p)
  BY <1>5 DEF Clean
<1>16. CASE stem = "tests"
  <2>1. Advances(c, OnTests("replace"))
    BY <1>1, <1>3, <1>5, <1>16, GoOnAdvances, AfterEach DEF IInv, OnTests
  <2>2. HoldsOK(c)' /\ Undisturbed(c)'
    BY <2>1, NothingHeld DEF Advances, HasConfig, Plain, OnConfig, OnTests
  <2>3. FolderOK(p)'
    <3> SUFFICES ASSUME Clean(p)' PROVE ConfigGood(p)'
      BY DEF FolderOK
    <3>1. ~Disturbs(c)
      BY <1>3, <1>16 DEF Disturbs, Plain, OnConfig
    <3>2. ConfigGood(p)
      BY <1>1, <1>2, <1>15, <3>1, DisturbedByOne
    <3>3. \A path \in ConfigPaths : path \in Paths /\ fd[c] # <<p, path>>
      <4>1. \A path \in ConfigPaths : path \in Paths /\ path \notin FilesOf("tests")
        BY DEF Paths, ConfigPaths, FilesOf, TestPaths
      <4>2. \A path \in ConfigPaths : NULL # <<p, path>>
        BY <4>1, FilesAssumption
      <4> QED
        BY <1>6, <1>16, <4>1, <4>2
    <3> QED
      BY <1>3, <1>7, <1>9, <1>16, <3>2, <3>3, SameConfigs
  <2> QED
    BY <1>1, <1>2, <1>11, <1>13, <1>14, <2>1, <2>2, <2>3, Suffices
<1>17. CASE stem = "config" /\ job[c].do \in {"create", "update"}
  <2>1. Advances(c, OnConfig("replace"))
    BY <1>1, <1>3, <1>5, <1>17, GoOnAdvances, AfterEach DEF IInv, OnConfig
  <2>2. Place(c)' = OnConfig("replace") /\ Target(c)' = p /\ job' = job /\ believed' = believed /\ got' = got
    BY <1>2, <1>5, <1>9, <1>17, <2>1 DEF Advances, Target
  <2>3. HoldsOK(c)'
    BY <1>3, <1>12, <1>17, <2>2 DEF HoldsOK, Plain, OnConfig
  <2>4. Clean(p) => /\ SavesInPlace(c) /\ fd[c] = <<p, "config.tmp">>
                    /\ disk'[p]["config.tmp"] = text /\ kind = "whole"
    <3> SUFFICES ASSUME Clean(p) PROVE /\ SavesInPlace(c) /\ fd[c] = <<p, "config.tmp">>
                                       /\ disk'[p]["config.tmp"] = text /\ kind = "whole"
      OBVIOUS
    <3>1. SavesInPlace(c)
      BY <1>1, <1>2 DEF IInv, Undisturbed
    <3>2. fd[c] = <<p, "config.tmp">> /\ disk[p]["config.tmp"].kind = "empty"
      BY <1>2, <1>3, <1>17, <3>1 DEF SavesInPlace, OnConfig
    <3>3. "config.tmp" \in Paths
      BY DEF Paths
    <3> QED
      BY <1>4, <1>7, <3>1, <3>2, <3>3
  <2>5. Clean(p)' => Undisturbed(c)'
    <3> SUFFICES ASSUME Clean(p)' PROVE Undisturbed(c)'
      OBVIOUS
    <3>1. Copies(c)' /\ Removes(c)' /\ Records(c)' /\ RewritesInPlace(c)'
      BY <2>2 DEF Copies, Removes, Records, RewritesInPlace, Plain, OnConfig
    <3>2. SavesInPlace(c)'
      BY <1>2, <1>3, <1>15, <1>17, <2>2, <2>4 DEF SavesInPlace, WritesAnEdit, OnConfig, Target
    <3> QED
      BY <3>1, <3>2 DEF Undisturbed
  <2>6. FolderOK(p)'
    <3> SUFFICES ASSUME Clean(p)' PROVE ConfigGood(p)'
      BY DEF FolderOK
    <3>1. ~Disturbs(c)
      BY <1>3, <1>17 DEF Disturbs, Plain, OnConfig
    <3>2. ConfigGood(p)
      BY <1>1, <1>2, <1>15, <3>1, DisturbedByOne
    <3>3. \A path \in ConfigPaths : path \in Paths /\ fd[c] # <<p, path>>
      BY <1>15, <2>4 DEF Paths, ConfigPaths
    <3> QED
      BY <1>7, <2>2, <3>2, <3>3, SameConfigs
  <2> QED
    BY <1>1, <1>2, <1>11, <1>13, <1>14, <2>1, <2>3, <2>5, <2>6, Suffices
<1>18. CASE stem = "config" /\ job[c].do \in {"archive", "duplicate"}
  <2>1. Advances(c, Done)
    BY <1>1, <1>3, <1>5, <1>18, GoOnAdvances, AfterEach DEF IInv, OnConfig
  <2>2. HoldsOK(c)'
    BY <2>1, NothingHeld DEF Advances, HasConfig, Plain, OnConfig, Done
  <2>3. FolderOK(p)'
    <3> SUFFICES ASSUME Clean(p)' PROVE ConfigGood(p)'
      BY DEF FolderOK
    <3>1. RewritesInPlace(c)
      BY <1>1, <1>2, <1>15 DEF IInv, Undisturbed
    <3>2. /\ WritesAnEdit(c) /\ ConfigFile(p) # NULL /\ fd[c] = <<p, ConfigFile(p)>>
          /\ disk[p][ConfigFile(p)].kind = "empty"
      BY <1>2, <1>3, <1>18, <3>1 DEF RewritesInPlace, OnConfig
    <3>3. /\ believed[p] \in Configs /\ got[c].config \in Configs
          /\ got[c].config = Edit(believed[p], job[c], got[c].config.loads)
          /\ job[c].do = "archive" => believed[p].name = p
      BY <1>2, <1>3, <1>12, <1>18, <3>2 DEF WritesAnEdit, OnConfig
    <3>4. believed'[p] = got[c].config
      BY <1>2, <1>5, <1>18, <3>3, FilesAssumption DEF Believe, IInv, Shape
    <3>5. got[c].config.name = p
      <4>1. got[c].config.loads \in BOOLEAN
        BY <3>3 DEF Configs
      <4>2. Edit(believed[p], job[c], got[c].config.loads).name =
              IF job[c].do = "duplicate" THEN job[c].to ELSE believed[p].name
        BY <1>3, <1>18, <3>3, <4>1, EditOfConfig
      <4> QED
        BY <1>2, <1>18, <3>3, <4>2 DEF Target
    <3>6. ConfigFile(p)' = ConfigFile(p) /\ ConfigFile(p) \in Paths
      BY <1>8, <3>2, ConfigFileIsThere DEF ConfigFile, Paths
    <3>7. kind = "whole" /\ disk'[p][ConfigFile(p)] = text
      BY <1>4, <1>7, <3>2, <3>6
    <3> QED
      BY <1>18, <3>4, <3>5, <3>6, <3>7 DEF ConfigGood
  <2> QED
    BY <1>1, <1>2, <1>11, <1>13, <1>14, <2>1, <2>2, <2>3, Suffices
<1> QED
  BY <1>3, <1>16, <1>17, <1>18

\* Another name for a file, and none for what had that name.
LEMMA MovedFile ==
  ASSUME IInv, NEW c \in Clients, fd[c] = NULL, NEW p \in Names, p = Target(c), NEW to, Advances(c, to), job' = job,
         NEW tmp \in There(p), NEW path \in Paths, tmp # path,
         disk' = [disk EXCEPT ![p] = [[@ EXCEPT ![tmp] = Absent] EXCEPT ![path] = disk[p][tmp]]],
         fd' = Moved(p, tmp, path), folder' = folder,
         \A any : tmp \in FilesOf(any) => path \in FilesOf(any),
         path \in FilesOf("config") => tmp \in FilesOf("config")
  PROVE  /\ FilesOK' /\ There(p)' = (There(p) \ {tmp}) \cup {path} /\ FilesHere(p)
         /\ \A other \in Paths : disk'[p][other] = IF other = path THEN disk[p][tmp]
                                                  ELSE IF other = tmp THEN Absent ELSE disk[p][other]
<1>1. tmp \in Paths /\ p \in folder /\ <<p, tmp>> # NULL /\ <<p, path>> # NULL
  <2>1. tmp \in Paths /\ p \in folder
    BY DEF IInv, FilesOK, There
  <2> QED
    BY <2>1, FilesAssumption
<1>2. /\ DOMAIN disk' = Names /\ \A q \in Names : DOMAIN disk'[q] = Paths
      /\ \A q \in Names : q # p => disk'[q] = disk[q]
      /\ \A other \in Paths : disk'[p][other] = IF other = path THEN disk[p][tmp]
                                               ELSE IF other = tmp THEN Absent ELSE disk[p][other]
  BY <1>1 DEF IInv, Shape
<1>3. There(p)' = (There(p) \ {tmp}) \cup {path}
  <2>1. disk[p][tmp].kind # "absent" /\ Absent.kind = "absent"
    BY DEF There, Absent
  <2> QED
    BY <1>1, <1>2, <2>1 DEF There
<1>4. \A d \in Clients : fd'[d] = IF fd[d] = <<p, tmp>> THEN <<p, path>>
                                  ELSE IF fd[d] = <<p, path>> THEN NULL ELSE fd[d]
  BY DEF Moved
<1>5. fd' \in [Clients -> (Names \X Paths) \cup {NULL}]
  <2>1. DOMAIN fd' = Clients /\ fd' = [d \in Clients |-> fd'[d]]
    BY DEF Moved
  <2>2. <<p, path>> \in Names \X Paths /\ \A d \in Clients : fd[d] \in (Names \X Paths) \cup {NULL}
    BY DEF IInv, Shape
  <2>3. \A d \in Clients : fd'[d] \in (Names \X Paths) \cup {NULL}
    BY <1>4, <2>2
  <2> QED
    BY <2>1, <2>3
<1>6. ASSUME NEW d \in Clients PROVE fd'[d] = fd[d] \/ (fd[d] # NULL /\ fd[d][1] = p)
  BY <1>1, <1>4
<1>7. ASSUME NEW d \in Clients, d # c, fd'[d] # NULL
      PROVE  /\ fd[d] # NULL /\ fd'[d][1] = fd[d][1]
             /\ fd[d][1] # p => fd'[d] = fd[d]
             /\ fd[d][1] = p => fd'[d][2] \in There(p)'
             /\ \A any : fd[d][2] \in FilesOf(any) => fd'[d][2] \in FilesOf(any)
  <2>1. CASE fd[d] = <<p, tmp>>
    BY <1>1, <1>3, <1>4, <2>1
  <2>2. CASE fd[d] # <<p, tmp>>
    <3>1. fd'[d] = fd[d] /\ fd[d] # NULL
      BY <1>4, <1>7, <2>2
    <3>2. fd[d] = <<fd[d][1], fd[d][2]>> /\ fd[d][1] = Target(d) /\ fd[d][2] \in There(Target(d))
      BY <3>1, OpenHere
    <3>3. fd[d][1] = p => fd[d][2] # tmp /\ fd[d][2] \in There(p)
      BY <2>2, <3>2
    <3> QED
      BY <1>3, <3>1, <3>3
  <2> QED
    BY <2>1, <2>2
<1>8. ASSUME NEW other \in FilesOf("config"), disk'[p][other].kind = "whole"
      PROVE  disk'[p][other].holds \in Configs
  <2>1. other \in Paths
    BY DEF FilesOf, Paths
  <2>2. other = path => tmp \in FilesOf("config")
    OBVIOUS
  <2> QED
    BY <1>2, <1>8, <2>1, <2>2 DEF IInv, FilesOK, Absent
<1>9. /\ folder \ {p} \subseteq folder' /\ (p \notin folder' => There(p)' = {}) /\ fd'[c] = NULL
  BY <1>1, <1>4
<1>10. WritesHere(c, p, to)
  BY <1>2, <1>5, <1>7, <1>8, <1>9, Zenon DEF WritesHere
<1>11. FilesOK'
  BY <1>10, FilesSuffice
<1> QED
  BY <1>2, <1>3, <1>5, <1>6, <1>11 DEF FilesHere

LEMMA ReplaceKeeps == ASSUME IInv, NEW c \in Clients, Replace(c) PROVE IInv'
<1>1. Busy(c) /\ Place(c)[1] = "replace"
  BY StageTells DEF Replace, At, IInv
<1>2. CASE Stop(c)
  BY <1>1, <1>2, StopKeeps
<1>3. CASE ~Stop(c)
  <2>1. PICK p \in Names : p = Target(c)
    BY <1>1, TargetIsName DEF IInv
  <2>2. PICK stem \in {"config", "tests"} :
          /\ stem = Stem(c) /\ Place(c) = <<"replace", stem>> /\ job[c].do \in Does /\ job[c] \in AllJobs
          /\ stem = "config" => job[c].do \in {"create", "update"}
          /\ stem = "tests" => job[c].do \in {"create", "save_tests"}
    BY <1>1, StageTells, WhoIsAt, TargetIsName DEF IInv, OnConfig, OnTests
  <2> DEFINE tmp == TmpOf(stem)
             path == YamlOf[stem]
             to == <<"unlink", stem>>
  <2>3. /\ tmp \in There(p)
        /\ disk' = [disk EXCEPT ![p] = [[@ EXCEPT ![tmp] = Absent] EXCEPT ![path] = disk[p][tmp]]]
        /\ fd' = Moved(p, tmp, path)
        /\ IF stem = "config" THEN Believe(c) ELSE UNCHANGED believed
        /\ causes' = [causes EXCEPT ![p] = @ \cup
                (IF stem = "tests" /\ There(p) \cap OtherTests # {} THEN {"beside"} ELSE {})]
        /\ GoOn(c) /\ UNCHANGED <<folder, runs, clock, job, got, left, report, jobs>>
    BY <1>3, <2>1, <2>2 DEF Replace
  <2>4. /\ path \in Paths /\ tmp # path /\ \A any : tmp \in FilesOf(any) => path \in FilesOf(any)
        /\ path \in FilesOf("config") => tmp \in FilesOf("config")
        /\ stem = "config" => tmp = "config.tmp" /\ path = "config.yaml"
        /\ stem = "tests" => tmp = "tests.tmp" /\ path = "tests.yaml"
    BY <2>2 DEF TmpOf, YamlOf, FilesOf, Paths, ConfigPaths, TestPaths, Places
  <2>5. Advances(c, to) /\ fd[c] = NULL /\ job' = job /\ folder' = folder
    <3>1. Advances(c, to)
      BY <1>1, <2>2, <2>3, GoOnAdvances, AfterEach DEF IInv, OnConfig, OnTests
    <3> QED
      BY <1>1, <2>3, <3>1, OpenHere
  <2> HIDE DEF tmp, path, to
  <2>6. /\ FilesOK' /\ There(p)' = (There(p) \ {tmp}) \cup {path} /\ FilesHere(p)
        /\ \A other \in Paths : disk'[p][other] = IF other = path THEN disk[p][tmp]
                                                 ELSE IF other = tmp THEN Absent ELSE disk[p][other]
    <3>1. /\ disk' = [disk EXCEPT ![p] = [[@ EXCEPT ![tmp] = Absent] EXCEPT ![path] = disk[p][tmp]]]
          /\ fd' = Moved(p, tmp, path) /\ tmp \in There(p)
      BY <2>3
    <3> QED
      BY <2>1, <2>4, <2>5, <3>1, MovedFile, ZenonT(40)
  <2>7. /\ \A q \in Names : q # p => believed'[q] = believed[q]
        /\ DOMAIN believed' = Names /\ DOMAIN causes' = Names
        /\ \A q \in Names : causes[q] \subseteq causes'[q]
        /\ UNCHANGED <<runs, left, got>>
    <3>1. DOMAIN believed = Names /\ DOMAIN causes = Names
      BY DEF IInv, Shape
    <3>2. (\A q \in Names : q # p => believed'[q] = believed[q]) /\ DOMAIN believed' = Names
      BY <2>1, <2>3, <3>1 DEF Believe
    <3>3. (\A q \in Names : causes[q] \subseteq causes'[q]) /\ DOMAIN causes' = Names
      BY <2>3, <3>1
    <3> QED
      BY <2>3, <3>2, <3>3
  <2>8. OthersKeep(c)
    BY <2>1, <2>5, <2>6, <2>7 DEF OthersKeep, FilesHere
  <2>9. Shape'
    BY <2>3, <2>5, <2>6, <2>7 DEF IInv, Shape, Advances, FilesHere
  <2>10. HoldsOK(c)' /\ Undisturbed(c)'
    <3>1. to \notin HasConfig \cup {Plain("read"), Plain("copy"), Plain("remove")}
      BY DEF to, HasConfig, Plain, OnConfig
    <3> QED
      BY <2>5, <3>1, NothingHeld DEF Advances
  <2>11. Clean(p)' => Clean(p)
    BY <2>7 DEF Clean
  <2>12. FolderOK(p)'
    <3> SUFFICES ASSUME Clean(p)' PROVE ConfigGood(p)'
      BY DEF FolderOK
    <3>1. CASE stem = "tests"
      <4>1. ~Disturbs(c)
        BY <2>2, <3>1 DEF Disturbs, Plain, OnConfig
      <4>2. ConfigGood(p)
        BY <1>1, <2>1, <2>11, <4>1, DisturbedByOne
      <4>3. \A other \in ConfigPaths : disk'[p][other] = disk[p][other]
        BY <2>4, <2>6, <3>1 DEF ConfigPaths, Paths
      <4> QED
        BY <2>3, <3>1, <4>2, <4>3, SameConfigs
    <3>2. CASE stem = "config"
      <4>1. SavesInPlace(c)
        BY <1>1, <2>1, <2>11 DEF IInv, Undisturbed
      <4>2. /\ disk[p][tmp].kind = "whole" /\ disk[p][tmp].holds = got[c].config
            /\ job[c].do = "update" => WritesAnEdit(c)
            /\ job[c].do = "create" => got[c].config.name = p
        BY <2>1, <2>2, <2>4, <3>2, <4>1 DEF SavesInPlace, OnConfig
      <4>3. got[c].config \in Configs
        BY <2>2, <3>2 DEF IInv, HoldsOK, HasConfig, OnConfig
      <4>4. ConfigFile(p)' = path /\ disk'[p][path] = disk[p][tmp]
        BY <2>4, <2>6, <3>2 DEF ConfigFile
      <4>5. CASE job[c].do = "create"
        <5>1. believed'[p] = got[c].config
          BY <2>1, <2>3, <3>2, <4>5 DEF Believe, IInv, Shape
        <5> QED
          BY <4>2, <4>4, <4>5, <5>1 DEF ConfigGood
      <4>6. CASE job[c].do = "update"
        <5>1. /\ believed[p] \in Configs /\ believed[p].name = p
              /\ got[c].config = Edit(believed[p], job[c], got[c].config.loads)
          BY <2>1, <4>2, <4>6 DEF WritesAnEdit
        <5>2. believed'[p] = got[c].config
          BY <2>1, <2>3, <3>2, <4>6, <5>1, FilesAssumption DEF Believe, IInv, Shape
        <5>3. got[c].config.loads \in BOOLEAN /\ job[c].say \in {"values", "models"}
          BY <1>1, <4>3, <4>6 DEF Configs, IInv, TodoOK
        <5>4. got[c].config.name = p
          BY <2>2, <4>6, <5>1, <5>3, EditOfConfig
        <5> QED
          BY <4>2, <4>4, <5>2, <5>4 DEF ConfigGood
      <4> QED
        BY <2>2, <3>2, <4>5, <4>6
    <3> QED
      BY <3>1, <3>2
  <2>13. HistoryOK(p)'
    BY <2>7, <2>11 DEF IInv, HistoryOK
  <2> QED
    BY <1>1, <2>1, <2>5, <2>6, <2>8, <2>9, <2>10, <2>12, <2>13, Suffices
<1> QED
  BY <1>2, <1>3

LEMMA UnlinkKeeps == ASSUME IInv, NEW c \in Clients, Unlink(c) PROVE IInv'
<1>1. Busy(c) /\ Place(c)[1] = "unlink"
  BY StageTells DEF Unlink, At, IInv
<1>2. PICK p \in Names : p = Target(c)
  BY <1>1, TargetIsName DEF IInv
<1>3. PICK stem \in {"config", "tests"} :
        /\ stem = Stem(c) /\ Place(c) = <<"unlink", stem>> /\ job[c].do \in Does
        /\ stem = "config" => job[c].do \in {"create", "update"}
        /\ stem = "tests" => job[c].do \in {"create", "save_tests"}
  BY <1>1, StageTells, WhoIsAt DEF IInv, OnConfig, OnTests
<1> DEFINE other == JsonOf[stem]
<1>4. /\ disk' = [disk EXCEPT ![p][other] = Absent] /\ fd' = Closed(p, {other}) /\ GoOn(c)
      /\ UNCHANGED <<folder, runs, clock, job, got, left, report, jobs, history>>
  BY <1>2, <1>3 DEF Unlink
<1>5. /\ other \in Paths /\ (stem = "config" => other = "config.json")
      /\ (stem = "tests" => other = "tests.json")
  BY <1>3 DEF JsonOf, Paths, ConfigPaths, TestPaths
<1>6. PICK to \in {OnTests("open"), Done} : Advances(c, to)
  BY <1>1, <1>3, <1>4, GoOnAdvances, AfterEach DEF IInv, OnConfig, OnTests
<1>7. fd[c] = NULL /\ job' = job /\ folder' = folder
  BY <1>1, <1>4, OpenHere
<1> HIDE DEF other
<1>8. /\ FilesOK' /\ There(p)' = There(p) \ {other} /\ FilesHere(p)
      /\ \A path \in Paths : disk'[p][path] = IF path = other THEN Absent ELSE disk[p][path]
  <2>1. disk' = [disk EXCEPT ![p][other] = Absent] /\ fd' = Closed(p, {other}) /\ folder' = folder
    BY <1>4, <1>7
  <2> QED
    BY <1>2, <1>5, <1>6, <1>7, <2>1, ClosedFile
<1>9. UNCHANGED <<runs, left, got, believed, causes, jobs>>
  BY <1>4 DEF history
<1>10. OthersKeep(c)
  BY <1>2, <1>7, <1>8, <1>9 DEF OthersKeep, FilesHere
<1>11. Shape'
  BY <1>6, <1>7, <1>8, <1>9 DEF IInv, Shape, Advances, FilesHere
<1>12. HoldsOK(c)' /\ Undisturbed(c)'
  <2>1. to \notin HasConfig \cup {Plain("read"), Plain("copy"), Plain("remove")}
    BY <1>6 DEF HasConfig, Plain, OnConfig, OnTests, Done
  <2> QED
    BY <1>6, <2>1, NothingHeld DEF Advances
<1>13. FolderOK(p)'
  <2> SUFFICES ASSUME Clean(p)' PROVE ConfigGood(p)'
    BY DEF FolderOK
  <2>1. ~Disturbs(c)
    BY <1>3 DEF Disturbs, Plain, OnConfig
  <2>2. ConfigGood(p)
    BY <1>1, <1>2, <1>9, <2>1, DisturbedByOne DEF Clean
  <2>3. ASSUME NEW first \in {"config.yaml", "config.yml"}, first \in There(p),
               first = "config.yaml" \/ "config.yaml" \notin There(p)
        PROVE  ConfigGood(p)'
    <3>1. ConfigFile(p) = first /\ ConfigFile(p)' = first /\ first \in Paths /\ first # other
      BY <1>3, <1>5, <1>8, <2>3 DEF ConfigFile, Paths, ConfigPaths
    <3> QED
      BY <1>8, <1>9, <2>2, <3>1 DEF ConfigGood
  <2>4. CASE stem = "config" /\ "config.yaml" \notin There(p) /\ "config.yml" \notin There(p)
    <3>1. ConfigFile(p)' = NULL
      BY <1>5, <1>8, <2>4 DEF ConfigFile
    <3> QED
      BY <3>1 DEF ConfigGood
  <2>5. CASE stem = "tests"
    <3>1. \A path \in ConfigPaths : disk'[p][path] = disk[p][path]
      BY <1>5, <1>8, <2>5 DEF ConfigPaths, Paths
    <3> QED
      BY <1>9, <2>2, <3>1, SameConfigs
  <2> QED
    BY <1>3, <2>3, <2>4, <2>5
<1>14. HistoryOK(p)'
  BY <1>9 DEF IInv, HistoryOK, Clean
<1> QED
  BY <1>1, <1>2, <1>6, <1>8, <1>10, <1>11, <1>12, <1>13, <1>14, Suffices

-----------------------------------------------------------------------------
(* What is recorded *)

LEMMA StartKeeps == ASSUME IInv, NEW c \in Clients, Start(c) PROVE IInv'
<1>1. Busy(c) /\ Place(c)[1] = "start"
  BY StageTells DEF Start, At, IInv
<1>2. PICK p \in Names : p = Target(c)
  BY <1>1, TargetIsName DEF IInv
<1>3. Place(c) = Plain("start") /\ job[c].do \in {"run", "watch"}
  BY <1>1, StageTells, WhoIsAt DEF IInv
<1>4. PICK config \in Configs : config = got[c].config
  BY <1>3 DEF IInv, HoldsOK, HasConfig
<1> DEFINE place == config.output
           run == [id |-> clock + 1, place |-> place, name |-> config.name,
                   home |-> p, ranked |-> FALSE, live |-> TRUE]
           to == Plain("finish")
<1>5. /\ folder' = folder \cup {p} /\ disk' = [disk EXCEPT ![p][place] = Whole(NULL)]
      /\ runs' = [runs EXCEPT ![p] = @ \cup {run}]
      /\ fd' = [fd EXCEPT ![c] = <<p, place>>] /\ left' = [left EXCEPT ![c] = {clock + 1}]
      /\ GoOn(c) /\ UNCHANGED <<job, got, report, jobs, history>>
  BY <1>2, <1>4 DEF Start
<1>6. /\ place \in Places /\ place \in Paths /\ place \notin FilesOf("config") /\ place \notin ConfigPaths
      /\ Whole(NULL).kind # "absent"
  <2>1. place \in Places
    BY DEF Configs
  <2> QED
    BY <2>1 DEF Places, Paths, FilesOf, ConfigPaths, Whole
<1>7. Advances(c, to)
  BY <1>1, <1>3, <1>5, GoOnAdvances, AfterEach, StageTells DEF IInv
<1>8. Place(c)' = to /\ job' = job /\ Target(c)' = p /\ to # Done
  BY <1>2, <1>5, <1>7 DEF Advances, Target, Done, Plain
<1> HIDE DEF place
<1>9. FilesOK'
  <2>1. /\ place \in FilesOf("config") /\ Whole(NULL).kind = "whole" => Whole(NULL).holds \in Configs
        /\ folder \subseteq folder' /\ p \in folder' /\ job' = job
        /\ to[1] \in {"write", "finish"}
        /\ to[1] = "write" => place \in FilesOf(to[2])
    BY <1>5, <1>6 DEF Plain
  <2>2. disk' = [disk EXCEPT ![p][place] = Whole(NULL)] /\ fd' = [fd EXCEPT ![c] = <<p, place>>]
    BY <1>5
  <2> HIDE DEF to
  <2> QED
    BY <1>1, <1>2, <1>6, <1>7, <2>1, <2>2, NewFileKeeps, Zenon
<1>10. /\ \A q \in Names : q # p => disk'[q] = disk[q] /\ runs'[q] = runs[q]
       /\ \A other \in Paths : disk'[p][other] = IF other = place THEN Whole(NULL) ELSE disk[p][other]
       /\ DOMAIN disk' = Names /\ \A q \in Names : DOMAIN disk'[q] = Paths
       /\ runs'[p] = runs[p] \cup {run} /\ DOMAIN runs' = Names
       /\ \A d \in Clients : d # c => fd'[d] = fd[d] /\ left'[d] = left[d]
       /\ fd' \in [Clients -> (Names \X Paths) \cup {NULL}] /\ DOMAIN left' = Clients
       /\ UNCHANGED <<believed, causes, got, jobs>>
  BY <1>5, <1>6 DEF IInv, Shape, history
<1>11. OthersKeep(c)
  BY <1>2, <1>8, <1>10 DEF OthersKeep
<1>12. Shape'
  BY <1>7, <1>8, <1>10 DEF IInv, Shape, Advances
<1>13. HoldsOK(c)'
  BY <1>3, <1>8, <1>10 DEF IInv, HoldsOK, HasConfig, Plain, OnConfig
<1>14. Undisturbed(c)'
  BY <1>8 DEF Undisturbed, SavesInPlace, RewritesInPlace, Copies, Removes, Records, Plain, OnConfig
<1>15. FolderOK(p)'
  <2> SUFFICES ASSUME Clean(p)' PROVE ConfigGood(p)'
    BY DEF FolderOK
  <2>1. ~Disturbs(c)
    BY <1>3 DEF Disturbs, Plain, OnConfig
  <2>2. ConfigGood(p)
    BY <1>1, <1>2, <1>10, <2>1, DisturbedByOne DEF Clean
  <2>3. \A other \in ConfigPaths : disk'[p][other] = disk[p][other]
    BY <1>6, <1>10 DEF Paths
  <2> QED
    BY <1>10, <2>2, <2>3, SameConfigs
<1>16. HistoryOK(p)'
  <2>1. Clean(p) => config.name = p
    BY <1>1, <1>2, <1>3, <1>4 DEF IInv, Undisturbed, Records
  <2>2. Clean(p)' <=> Clean(p)
    BY <1>10 DEF Clean
  <2> QED
    BY <1>6, <1>10, <2>1, <2>2 DEF IInv, HistoryOK
<1> QED
  BY <1>1, <1>2, <1>7, <1>9, <1>11, <1>12, <1>13, <1>14, <1>15, <1>16, Suffices

\* A step that leaves the files as they are, and changes what the runs of a folder
\* are but not where they ran or under which name.
LEMMA RunsKeep ==
  ASSUME IInv, NEW c \in Clients, Busy(c), NEW p \in Names, p = Target(c), ~Disturbs(c),
         NEW to \in {Plain("compare"), Done}, Advances(c, to),
         Place(c)[1] \in {"finish", "drop"}, Place(c) = Plain("finish") => got[c].config \in Configs,
         to = Plain("compare") => Place(c) = Plain("finish"),
         UNCHANGED <<folder, disk, job, got, left, jobs, believed, causes>>,
         DOMAIN runs' = Names, \A q \in Names : q # p => runs'[q] = runs[q],
         \A r \in runs'[p] : \E s \in runs[p] : \A field \in {"id", "home", "place", "name"} :
            field \in DOMAIN r /\ r[field] = s[field],
         fd' \in [Clients -> (Names \X Paths) \cup {NULL}],
         fd'[c] = NULL, \A d \in Clients : d # c => fd'[d] = fd[d]
  PROVE  IInv'
<1>1. Place(c)' = to /\ Target(c)' = p
  BY DEF Advances, Target
<1>2. OthersKeep(c)
  BY DEF OthersKeep
<1>3. Shape'
  BY DEF IInv, Shape, Advances
<1>4. FilesOK'
  <2>1. \A q \in Names : There(q)' = There(q)
    BY DEF There
  <2>2. \A d \in Clients : fd'[d] # NULL => d # c /\ fd'[d] = fd[d] /\ Place(d)' = Place(d)
    BY DEF Advances
  <2>3. \A d \in Clients : Target(d)' = Target(d) /\ There(Target(d))' = There(Target(d))
    BY DEF Target, There
  <2> QED
    BY <2>1, <2>2, <2>3 DEF IInv, FilesOK
<1>5. HoldsOK(c)' /\ Undisturbed(c)'
  <2>1. HoldsOK(c)'
    BY <1>1 DEF HoldsOK, HasConfig, Plain, OnConfig, Done
  <2>2. Undisturbed(c)'
    BY <1>1 DEF Undisturbed, SavesInPlace, RewritesInPlace, Copies, Removes, Records, Plain, OnConfig, Done
  <2> QED
    BY <2>1, <2>2
<1>6. FolderOK(p)'
  <2> SUFFICES ASSUME Clean(p)' PROVE ConfigGood(p)'
    BY DEF FolderOK
  <2>1. ConfigGood(p)
    BY DisturbedByOne DEF Clean
  <2> QED
    BY <2>1, SameFiles DEF ConfigGood
<1>7. HistoryOK(p)'
  <2>1. \A r \in runs'[p] : \E s \in runs[p] :
           {"id", "home", "place", "name"} \subseteq DOMAIN r /\ r.home = s.home /\ r.place = s.place
           /\ r.name = s.name
    OBVIOUS
  <2> QED
    BY <2>1 DEF IInv, HistoryOK, Clean
<1> QED
  BY <1>2, <1>3, <1>4, <1>5, <1>6, <1>7, Suffices

\* A run keeps its number, place and name when another of its fields is set.
LEMMA FieldSet ==
  ASSUME NEW r, {"id", "home", "place", "name"} \subseteq DOMAIN r, NEW value,
         NEW s, s \in {[r EXCEPT !.ranked = value], [r EXCEPT !.live = value]},
         NEW field \in {"id", "home", "place", "name"}
  PROVE  field \in DOMAIN s /\ s[field] = r[field]
  OBVIOUS

LEMMA FinishKeeps == ASSUME IInv, NEW c \in Clients, Finish(c) PROVE IInv'
<1>1. Busy(c) /\ Place(c)[1] = "finish"
  BY StageTells DEF Finish, At, IInv
<1>2. PICK p \in Names : p = Target(c)
  BY <1>1, TargetIsName DEF IInv
<1>3. Place(c) = Plain("finish") /\ job[c].do \in {"run", "watch"}
  BY <1>1, StageTells, WhoIsAt DEF IInv
<1> DEFINE Ranked(r) == IF r.id \in left[c] THEN [r EXCEPT !.ranked = TRUE] ELSE r
<1>4. /\ runs' = IF fd[c] = NULL THEN runs ELSE [runs EXCEPT ![p] = {Ranked(r) : r \in @}]
      /\ fd' = [fd EXCEPT ![c] = NULL] /\ GoOn(c)
      /\ UNCHANGED <<folder, disk, clock, job, got, left, report, jobs, history>>
  BY <1>2 DEF Finish
<1>5. PICK to \in {Plain("compare"), Done} : Advances(c, to)
  BY <1>1, <1>3, <1>4, GoOnAdvances, AfterEach, StageTells DEF IInv
<1>6. /\ DOMAIN runs' = Names /\ \A q \in Names : q # p => runs'[q] = runs[q]
      /\ \A s \in runs'[p] : s \in runs[p] \/ \E r \in runs[p] : s = Ranked(r)
  BY <1>4 DEF IInv, Shape
<1>7. \A s \in runs'[p] : \E r \in runs[p] : \A field \in {"id", "home", "place", "name"} :
         field \in DOMAIN s /\ s[field] = r[field]
  <2> SUFFICES ASSUME NEW s \in runs'[p]
               PROVE  \E r \in runs[p] : \A field \in {"id", "home", "place", "name"} :
                         field \in DOMAIN s /\ s[field] = r[field]
    OBVIOUS
  <2>1. PICK r \in runs[p] : s = r \/ s = [r EXCEPT !.ranked = TRUE]
    BY <1>6
  <2>2. {"id", "home", "place", "name"} \subseteq DOMAIN r
    BY DEF IInv, HistoryOK
  <2> QED
    BY <2>1, <2>2, FieldSet
<1>8. /\ ~Disturbs(c) /\ got[c].config \in Configs
      /\ UNCHANGED <<folder, disk, job, got, left, jobs, believed, causes>>
      /\ fd' \in [Clients -> (Names \X Paths) \cup {NULL}]
      /\ fd'[c] = NULL /\ \A d \in Clients : d # c => fd'[d] = fd[d]
  BY <1>3, <1>4 DEF IInv, Shape, HoldsOK, HasConfig, Disturbs, Plain, OnConfig, history
<1> QED
  BY <1>1, <1>2, <1>3, <1>5, <1>6, <1>7, <1>8, RunsKeep

LEMMA DropKeeps == ASSUME IInv, NEW c \in Clients, Drop(c) PROVE IInv'
<1>1. Busy(c) /\ Place(c)[1] = "drop"
  BY StageTells DEF Drop, At, IInv
<1>2. CASE Stop(c)
  BY <1>1, <1>2, StopKeeps
<1>3. CASE ~Stop(c)
  <2>1. PICK p \in Names : p = Target(c)
    BY <1>1, TargetIsName DEF IInv
  <2>2. PICK run \in runs[p] :
          /\ runs' = [runs EXCEPT ![p] = (@ \ {run}) \cup {[run EXCEPT !.live = FALSE]}] /\ GoOn(c)
          /\ UNCHANGED <<folder, disk, clock, job, got, fd, left, report, jobs, history>>
    BY <1>3, <2>1 DEF Drop
  <2>3. Place(c) = Plain("drop") /\ job[c].do = "drop" /\ fd[c] = NULL
    BY <1>1, StageTells, WhoIsAt, OpenHere DEF IInv
  <2>4. Advances(c, Done)
    BY <1>1, <2>2, <2>3, GoOnAdvances, AfterEach, StageTells DEF IInv
  <2>5. /\ DOMAIN runs' = Names /\ \A q \in Names : q # p => runs'[q] = runs[q]
        /\ runs'[p] = (runs[p] \ {run}) \cup {[run EXCEPT !.live = FALSE]}
    BY <2>2 DEF IInv, Shape
  <2>6. \A s \in runs'[p] : \E r \in runs[p] : \A field \in {"id", "home", "place", "name"} :
           field \in DOMAIN s /\ s[field] = r[field]
    <3> SUFFICES ASSUME NEW s \in runs'[p]
                 PROVE  \E r \in runs[p] : \A field \in {"id", "home", "place", "name"} :
                           field \in DOMAIN s /\ s[field] = r[field]
      OBVIOUS
    <3>1. PICK r \in runs[p] : s = r \/ s = [r EXCEPT !.live = FALSE]
      BY <2>5
    <3>2. {"id", "home", "place", "name"} \subseteq DOMAIN r
      BY DEF IInv, HistoryOK
    <3> QED
      BY <3>1, <3>2, FieldSet
  <2>7. /\ ~Disturbs(c) /\ Place(c) # Plain("finish") /\ Done # Plain("compare")
        /\ UNCHANGED <<folder, disk, job, got, left, jobs, believed, causes>>
        /\ fd' \in [Clients -> (Names \X Paths) \cup {NULL}]
        /\ fd'[c] = NULL /\ \A d \in Clients : d # c => fd'[d] = fd[d]
    BY <2>2, <2>3 DEF IInv, Shape, Disturbs, Plain, OnConfig, history, Done
  <2> QED
    BY <1>1, <2>1, <2>3, <2>4, <2>5, <2>6, <2>7, RunsKeep
<1> QED
  BY <1>2, <1>3

LEMMA CompareKeeps == ASSUME IInv, NEW c \in Clients, Compare(c) PROVE IInv'
<1>1. Busy(c) /\ Place(c)[1] = "compare"
  BY StageTells DEF Compare, At, IInv
<1>2. PICK p \in Names : p = Target(c)
  BY <1>1, TargetIsName DEF IInv
<1>3. Place(c) = Plain("compare") /\ job[c].do = "watch" /\ fd[c] = NULL
  BY <1>1, StageTells, WhoIsAt, OpenHere DEF IInv
<1>4. PICK place \in Places : place = got[c].config.output
  BY <1>3 DEF IInv, HoldsOK, HasConfig, Configs
<1>5. /\ folder' = folder \cup {p} /\ disk' = [disk EXCEPT ![p][place] = Whole(NULL)] /\ GoOn(c)
      /\ UNCHANGED <<runs, clock, job, got, fd, left, jobs, history>>
  BY <1>2, <1>4 DEF Compare
<1>6. /\ place \in Paths /\ place \notin FilesOf("config") /\ place \notin ConfigPaths
      /\ Whole(NULL).kind # "absent"
  BY DEF Places, Paths, FilesOf, ConfigPaths, Whole
<1>7. Advances(c, Done)
  BY <1>1, <1>3, <1>5, GoOnAdvances, AfterEach, StageTells DEF IInv
<1>8. FilesOK'
  <2>1. /\ place \in FilesOf("config") /\ Whole(NULL).kind = "whole" => Whole(NULL).holds \in Configs
        /\ folder \subseteq folder' /\ p \in folder' /\ job' = job /\ fd' = fd
        /\ disk' = [disk EXCEPT ![p][place] = Whole(NULL)]
    BY <1>5, <1>6
  <2> QED
    BY <1>1, <1>2, <1>3, <1>6, <1>7, <2>1, NewFileKeeps, Zenon
<1>9. /\ \A q \in Names : q # p => disk'[q] = disk[q]
      /\ \A other \in Paths : disk'[p][other] = IF other = place THEN Whole(NULL) ELSE disk[p][other]
      /\ DOMAIN disk' = Names /\ \A q \in Names : DOMAIN disk'[q] = Paths
      /\ UNCHANGED <<runs, believed, causes, got, left, fd, jobs, job>>
  BY <1>5, <1>6 DEF IInv, Shape, history
<1>10. OthersKeep(c)
  BY <1>2, <1>9 DEF OthersKeep
<1>11. Shape'
  BY <1>7, <1>9 DEF IInv, Shape, Advances
<1>12. HoldsOK(c)'
  BY <1>7, NothingHeld DEF Advances, HasConfig, Plain, OnConfig, Done
<1>13. FolderOK(p)'
  <2> SUFFICES ASSUME Clean(p)' PROVE ConfigGood(p)'
    BY DEF FolderOK
  <2>1. ~Disturbs(c)
    BY <1>3 DEF Disturbs, Plain, OnConfig
  <2>2. ConfigGood(p)
    BY <1>1, <1>2, <1>9, <2>1, DisturbedByOne DEF Clean
  <2>3. \A other \in ConfigPaths : disk'[p][other] = disk[p][other]
    BY <1>6, <1>9 DEF Paths
  <2> QED
    BY <1>9, <2>2, <2>3, SameConfigs
<1>14. HistoryOK(p)'
  BY <1>9 DEF IInv, HistoryOK, Clean
<1> QED
  BY <1>1, <1>2, <1>7, <1>8, <1>10, <1>11, <1>12, <1>13, <1>14, Suffices

-----------------------------------------------------------------------------
(* How it begins *)

LEMMA BeginKeeps == ASSUME IInv, NEW c \in Clients, Begin(c) PROVE IInv'
<1>1. PICK j \in NextJobs :
        /\ job' = [job EXCEPT ![c] = j]
        /\ todo' = [todo EXCEPT ![c] = Stages(j.do)]
        /\ causes' = [p \in Names |->
              IF \E d \in Clients \ {c} :
                    /\ Busy(d)
                    /\ Touched(j) \cap Touched(job[d]) # {}
                    /\ p \in Touched(j) \cup Touched(job[d])
              THEN causes[p] \cup {"overlap"} ELSE causes[p]]
  BY DEF Begin
<1>2. /\ ~Busy(c) /\ jobs' = jobs + 1
      /\ got' = [got EXCEPT ![c] = NULL] /\ left' = [left EXCEPT ![c] = {}]
      /\ UNCHANGED <<folder, disk, runs, clock, fd, believed>>
  BY DEF Begin
<1>3. /\ j \in AllJobs /\ j.do \in Does
      /\ j.do = "update" => j.say \in {"values", "models"}
      /\ j.do = "duplicate" <=> j.on # j.to
  <2>1. DOMAIN Says = Does /\ \A do \in Does :
           Says[do] \subseteq {"-", "values", "models", "hide", "show", "all", "keep"}
    BY DEF Says, Does
  <2>2. j.do \in DOMAIN Says /\ j.on \in Names /\ j.to \in Names /\ j.say \in Says[j.do] /\ j.nth = jobs + 1
        /\ j = [do |-> j.do, on |-> j.on, to |-> j.to, say |-> j.say, nth |-> j.nth]
        /\ (j.do = "duplicate" <=> j.on # j.to)
    BY DEF NextJobs, Jobs
  <2>3. jobs + 1 \in Nat
    BY DEF IInv, Shape
  <2>4. Says["update"] = {"values", "models"}
    BY DEF Says
  <2> QED
    BY <2>1, <2>2, <2>3, <2>4 DEF AllJobs
<1>4. /\ Stages(j.do) \in Seq(Steps) /\ Stages(j.do) # <<>> /\ Stages(j.do)[1] = First(j.do)
      /\ Chain(j.do, Stages(j.do), Done) /\ First(j.do) \in StagesOf(j.do)
  <2>1. First(j.do) \in StagesOf(j.do)
    BY <1>3 DEF First, StagesOf, Does, Plain
  <2> QED
    BY <1>3, <2>1, StagesChain
<1>5. /\ DOMAIN job' = Clients /\ DOMAIN got' = Clients /\ DOMAIN left' = Clients
      /\ DOMAIN causes' = Names /\ todo' \in [Clients -> Seq(Steps)]
      /\ job'[c] = j /\ todo'[c] = Stages(j.do)
      /\ \A d \in Clients : d # c => /\ job'[d] = job[d] /\ todo'[d] = todo[d]
                                    /\ got'[d] = got[d] /\ left'[d] = left[d]
  BY <1>1, <1>2, <1>4 DEF IInv, Shape
<1>6. Shape' /\ fd[c] = NULL
  <2>1. Place(c)[1] \notin {"write", "finish"}
    BY <1>2 DEF Place, Done
  <2>2. fd[c] = NULL
    BY <2>1, OpenHere
  <2> QED
    BY <1>2, <1>5, <2>2 DEF IInv, Shape
<1>7. /\ Busy(c)' /\ Place(c)' = First(j.do) /\ Target(c)' = j.to
      /\ \A d \in Clients : d # c =>
            (Busy(d)' <=> Busy(d)) /\ Place(d)' = Place(d) /\ Target(d)' = Target(d)
  BY <1>4, <1>5 DEF Busy, Place, Target
<1>8. TodoOK'
  <2> SUFFICES ASSUME NEW d \in Clients, Busy(d)'
               PROVE  /\ job'[d] \in AllJobs
                      /\ job'[d].do = "update" => job'[d].say \in {"values", "models"}
                      /\ job'[d].do = "duplicate" <=> job'[d].on # job'[d].to
                      /\ Place(d)' \in StagesOf(job'[d].do)
                      /\ Chain(job'[d].do, todo'[d], Done)
    BY DEF TodoOK
  <2>1. CASE d = c
    BY <1>3, <1>4, <1>5, <1>7, <2>1
  <2>2. CASE d # c
    BY <1>5, <1>7, <2>2 DEF IInv, TodoOK
  <2> QED
    BY <2>1, <2>2
<1>9. \A p \in Names : /\ causes[p] \subseteq causes'[p] /\ (Clean(p)' => Clean(p))
                       /\ There(p)' = There(p) /\ ConfigFile(p)' = ConfigFile(p)
  <2>1. \A p \in Names : causes[p] \subseteq causes'[p]
    BY <1>1
  <2> QED
    BY <1>2, <2>1, SameFiles DEF Clean
<1>10. ASSUME NEW d \in Clients, d # c, Busy(d), Touched(j) \cap Touched(job[d]) # {},
              NEW p \in Touched(j) \cup Touched(job[d])
       PROVE  ~Clean(p)'
  <2>1. p \in Names
    BY <1>3, <1>10, TargetIsName DEF IInv, Touched, Target, AllJobs
  <2>2. "overlap" \in causes'[p]
    BY <1>1, <1>10, <2>1
  <2> QED
    BY <2>2 DEF Clean
<1>11. MeetingsAreKnown'
  <2> SUFFICES ASSUME NEW a \in Clients, NEW b \in Clients, a # b, Busy(a)', Busy(b)',
                      Touched(job'[a]) \cap Touched(job'[b]) # {}, NEW p \in Touched(job'[a]) \cup Touched(job'[b])
               PROVE  ~Clean(p)'
    BY DEF MeetingsAreKnown, Touched
  <2>1. CASE a = c
    BY <1>5, <1>7, <1>10, <2>1
  <2>2. CASE b = c
    BY <1>5, <1>7, <1>10, <2>2
  <2>3. CASE a # c /\ b # c
    <3>1. Busy(a) /\ Busy(b) /\ job'[a] = job[a] /\ job'[b] = job[b]
      BY <1>5, <1>7, <2>3
    <3>2. ~Clean(p) /\ p \in Names
      BY <3>1, TargetIsName DEF IInv, MeetingsAreKnown, Touched, Target
    <3> QED
      BY <1>9, <3>2
  <2> QED
    BY <2>1, <2>2, <2>3
<1>12. FilesOK'
  <2>1. \A d \in Clients : fd'[d] # NULL => d # c /\ fd'[d] = fd[d] /\ Place(d)' = Place(d)
    BY <1>2, <1>6, <1>7
  <2>2. \A d \in Clients : d # c => Target(d)' = Target(d) /\ There(Target(d))' = There(Target(d))
    BY <1>2, <1>7 DEF There
  <2> QED
    BY <1>2, <1>9, <2>1, <2>2 DEF IInv, FilesOK
<1>13. ASSUME NEW d \in Clients PROVE HoldsOK(d)'
  <2>1. CASE d = c
    BY <1>3, <1>5, <1>7, <2>1 DEF HoldsOK, HasConfig, First, Plain, OnConfig, Does
  <2>2. CASE d # c
    BY <1>5, <1>7, <2>2 DEF IInv, HoldsOK
  <2> QED
    BY <2>1, <2>2
<1>14. ASSUME NEW d \in Clients, Busy(d)', Clean(Target(d))' PROVE Undisturbed(d)'
  <2>1. CASE d = c
    <3>1. SavesInPlace(c)' /\ Removes(c)' /\ Records(c)'
      BY <1>3, <1>7 DEF SavesInPlace, Removes, Records, First, Plain, OnConfig, Does
    <3>2. RewritesInPlace(c)' /\ Copies(c)'
      BY <1>3, <1>5, <1>7 DEF RewritesInPlace, Copies, First, Plain, OnConfig, Does
    <3> QED
      BY <2>1, <3>1, <3>2 DEF Undisturbed
  <2>2. CASE d # c
    <3>1. Busy(d) /\ Target(d) \in Names /\ job[d].on \in Names
      BY <1>7, <1>14, <2>2, TargetIsName DEF IInv
    <3>2. Clean(Target(d))
      BY <1>7, <1>9, <1>14, <2>2, <3>1 DEF Clean
    <3>3. Undisturbed(d)
      BY <3>1, <3>2 DEF IInv
    <3> QED
      BY <1>2, <1>5, <1>7, <2>2, <3>1, <3>3, StillUndisturbed
  <2> QED
    BY <2>1, <2>2
<1>15. ASSUME NEW p \in Names PROVE FolderOK(p)' /\ HistoryOK(p)'
  <2>1. FolderOK(p)'
    <3> SUFFICES ASSUME Clean(p)', ~ConfigGood(p)'
                 PROVE  \E d \in Clients : (Busy(d) /\ Target(d) = p /\ Disturbs(d))'
      BY DEF FolderOK
    <3>1. Clean(p) /\ ~ConfigGood(p)
      BY <1>2, <1>9 DEF ConfigGood
    <3>2. PICK d \in Clients : Busy(d) /\ Target(d) = p /\ Disturbs(d)
      BY <3>1 DEF IInv, FolderOK
    <3>3. d # c
      BY <1>2, <3>2
    <3>4. Disturbs(d)'
      BY <1>5, <1>7, <3>2, <3>3 DEF Disturbs
    <3> QED
      BY <1>7, <3>2, <3>3, <3>4
  <2>2. HistoryOK(p)'
    BY <1>2, <1>9 DEF IInv, HistoryOK
  <2> QED
    BY <2>1, <2>2
<1> QED
  BY <1>6, <1>8, <1>11, <1>12, <1>13, <1>14, <1>15 DEF IInv

LEMMA InitKeeps == ASSUME Init PROVE IInv
<1>1. PICK made \in [Names -> HandMade \cup {NULL}] :
        /\ folder = {p \in Names : made[p] # NULL}
        /\ disk = [p \in Names |->
                     IF made[p] # NULL THEN [path \in Paths |->
                         IF path \in ConfigPaths \cap made[p].paths
                         THEN Whole([values |-> 0, models |-> 0, archived |-> FALSE,
                                     name |-> p, output |-> made[p].output, loads |-> TRUE])
                         ELSE IF path \in made[p].paths
                         THEN Whole(IF path \in Places THEN NULL ELSE <<<<"case", 1>>>>)
                         ELSE Absent]
                     ELSE Nothing]
        /\ runs = [p \in Names |->
                     IF made[p] # NULL THEN {[id |-> n, place |-> made[p].output, name |-> p, home |-> p,
                                              ranked |-> TRUE, live |-> TRUE] : n \in 1..made[p].runs}
                     ELSE {}]
        /\ believed = [p \in Names |->
                         IF made[p] # NULL
                         THEN [values |-> 0, models |-> 0, archived |-> FALSE,
                               name |-> p, output |-> made[p].output, loads |-> TRUE]
                         ELSE NULL]
  BY DEF Init
<1>2. /\ todo = [c \in Clients |-> <<>>] /\ job = [c \in Clients |-> NULL] /\ got = [c \in Clients |-> NULL]
      /\ fd = [c \in Clients |-> NULL] /\ left = [c \in Clients |-> {}] /\ jobs = 0
      /\ causes = [p \in Names |-> {}]
  BY DEF Init
<1>3. \A c \in Clients : ~Busy(c) /\ Place(c) = Done
  BY <1>2 DEF Busy, Place
<1> DEFINE Made(p) == [values |-> 0, models |-> 0, archived |-> FALSE,
                       name |-> p, output |-> made[p].output, loads |-> TRUE]
<1>4. ASSUME NEW p \in Names
      PROVE  /\ DOMAIN disk[p] = Paths
             /\ made[p] = NULL => There(p) = {}
             /\ \A path \in ConfigPaths : disk[p][path] = Absent \/ (made[p] # NULL /\ disk[p][path] = Whole(Made(p)))
             /\ disk[p]["config.tmp"] = Absent
             /\ made[p] # NULL => believed[p] = Made(p) /\ Made(p) \in Configs /\ made[p].output \in Places
  <2>1. CASE made[p] = NULL
    <3>1. disk[p] = Nothing
      BY <1>1, <2>1
    <3> QED
      BY <2>1, <3>1 DEF Nothing, There, Absent, ConfigPaths, Paths
  <2>2. CASE made[p] # NULL
    <3>1. made[p].paths \subseteq Paths \ {"config.tmp", "tests.tmp"} /\ made[p].output \in Places
      BY <2>2, FilesAssumption
    <3>2. \A path \in Paths : disk[p][path] =
             IF path \in ConfigPaths \cap made[p].paths THEN Whole(Made(p))
             ELSE IF path \in made[p].paths
             THEN Whole(IF path \in Places THEN NULL ELSE <<<<"case", 1>>>>)
             ELSE Absent
      BY <1>1, <2>2
    <3>3. ConfigPaths \subseteq Paths /\ "config.tmp" \in Paths /\ "config.tmp" \notin ConfigPaths
      BY DEF Paths, ConfigPaths
    <3>4. believed[p] = Made(p) /\ DOMAIN disk[p] = Paths
      BY <1>1, <2>2
    <3>5. Made(p) \in Configs
      BY <3>1 DEF Configs
    <3> HIDE DEF Made
    <3> QED
      BY <2>2, <3>1, <3>2, <3>3, <3>4, <3>5
  <2> QED
    BY <2>1, <2>2
<1>5. Shape
  <2>1. <<>> \in Seq(Steps) /\ 0 \in Nat
    OBVIOUS
  <2>2. /\ DOMAIN disk = Names /\ DOMAIN runs = Names /\ DOMAIN believed = Names
    BY <1>1
  <2> QED
    BY <1>2, <1>4, <2>1, <2>2 DEF Shape
<1> HIDE DEF Made
<1>6. TodoOK /\ MeetingsAreKnown
  BY <1>3 DEF TodoOK, MeetingsAreKnown
<1>7. FilesOK
  <2>1. \A p \in Names \ folder : There(p) = {}
    BY <1>1, <1>4
  <2>2. ASSUME NEW p \in Names, NEW path \in FilesOf("config"), disk[p][path].kind = "whole"
        PROVE  disk[p][path].holds \in Configs
    <3>1. path \in ConfigPaths \/ path = "config.tmp"
      BY DEF FilesOf
    <3>2. disk[p][path] # Absent
      BY <2>2 DEF Absent
    <3>3. disk[p][path] = Whole(Made(p)) /\ Made(p) \in Configs
      BY <1>4, <3>1, <3>2
    <3> QED
      BY <3>3 DEF Whole
  <2> QED
    BY <1>2, <2>1, <2>2 DEF FilesOK
<1>8. \A c \in Clients : HoldsOK(c)
  BY <1>3 DEF HoldsOK, HasConfig, Done, Plain, OnConfig
<1>9. ASSUME NEW p \in Names PROVE FolderOK(p) /\ HistoryOK(p)
  <2>1. ConfigGood(p)
    <3> SUFFICES ASSUME ConfigFile(p) # NULL
                 PROVE  /\ disk[p][ConfigFile(p)].kind = "whole"
                        /\ disk[p][ConfigFile(p)].holds = believed[p]
                        /\ believed[p].name = p
      BY DEF ConfigGood
    <3>1. ConfigFile(p) \in ConfigPaths /\ disk[p][ConfigFile(p)].kind # "absent"
      BY ConfigFileIsThere DEF There
    <3>2. disk[p][ConfigFile(p)] = Whole(Made(p)) /\ believed[p] = Made(p)
      BY <1>4, <3>1 DEF Absent
    <3> QED
      BY <3>2 DEF Whole, Made
  <2>2. HistoryOK(p)
    <3> SUFFICES ASSUME NEW r \in runs[p]
                 PROVE  /\ {"id", "home", "place", "name"} \subseteq DOMAIN r
                        /\ r.home = p /\ r.place \in Places /\ r.name = p
      BY DEF HistoryOK
    <3>1. made[p] # NULL /\ \E n \in 1..made[p].runs :
             r = [id |-> n, place |-> made[p].output, name |-> p, home |-> p, ranked |-> TRUE, live |-> TRUE]
      BY <1>1
    <3> QED
      BY <1>4, <3>1
  <2> QED
    BY <2>1, <2>2 DEF FolderOK
<1> QED
  BY <1>3, <1>5, <1>6, <1>7, <1>8, <1>9 DEF IInv

-----------------------------------------------------------------------------
(* Theorems *)

LEMMA StepKeeps == ASSUME IInv, [Next]_vars PROVE IInv'
<1>1. CASE UNCHANGED vars
  <2> USE <1>1 DEF vars, clientVars, history
  <2>1. /\ \A c \in Clients : /\ (Busy(c)' <=> Busy(c)) /\ Place(c)' = Place(c) /\ Target(c)' = Target(c)
                             /\ There(Target(c))' = There(Target(c))
        /\ \A p \in Names : There(p)' = There(p) /\ (Clean(p)' <=> Clean(p))
    BY DEF Busy, Place, Target, There, Clean
  <2>2. Shape' /\ TodoOK'
    BY <2>1 DEF IInv, Shape, TodoOK
  <2>3. FilesOK'
    BY <2>1 DEF IInv, FilesOK
  <2>4. MeetingsAreKnown'
    BY DEF IInv, MeetingsAreKnown, Busy, Clean, Touched
  <2>5. \A c \in Clients : HoldsOK(c)'
    BY <2>1 DEF IInv, HoldsOK
  <2>6. ASSUME NEW c \in Clients, Busy(c)', Clean(Target(c))' PROVE Undisturbed(c)'
    <3>1. Busy(c) /\ Target(c) \in Names /\ job[c].on \in Names
      BY <2>1, <2>6, TargetIsName DEF IInv
    <3>2. Undisturbed(c)
      BY <2>6, <3>1 DEF IInv, Clean, Target
    <3> QED
      BY <2>1, <3>1, <3>2, StillUndisturbed
  <2>7. \A p \in Names : FolderOK(p)' /\ HistoryOK(p)'
    BY DEF IInv, FolderOK, HistoryOK, ConfigGood, Disturbs, Busy, Place, Clean, There, Target, ConfigFile
  <2> QED
    BY <2>2, <2>3, <2>4, <2>5, <2>6, <2>7 DEF IInv
<1>2. ASSUME NEW c \in Clients, Begin(c) \/ Die(c) \/ Free(c) \/ Source(c) \/ Load(c) \/ Read(c) \/ Discover(c)
      PROVE  IInv'
  BY <1>2, BeginKeeps, StopKeeps, FreeKeeps, SourceKeeps, LoadKeeps, ReadKeeps, DiscoverKeeps DEF Die
<1>3. ASSUME NEW c \in Clients,
             Mkdir(c) \/ Build(c) \/ Open(c) \/ Truncate(c) \/ Write(c) \/ Replace(c) \/ Unlink(c)
      PROVE  IInv'
  BY <1>3, MkdirKeeps, BuildKeeps, OpenKeeps, TruncateKeeps, WriteKeeps, ReplaceKeeps, UnlinkKeeps
<1>4. ASSUME NEW c \in Clients, CopyTree(c) \/ Copy(c) \/ Confirm(c) \/ List(c) \/ Erase(c)
      PROVE  IInv'
  BY <1>4, CopyTreeKeeps, CopyKeeps, ConfirmKeeps, ListKeeps, EraseKeeps
<1>5. ASSUME NEW c \in Clients, Start(c) \/ Finish(c) \/ Drop(c) \/ Compare(c)
      PROVE  IInv'
  BY <1>5, StartKeeps, FinishKeeps, DropKeeps, CompareKeeps
<1> QED
  BY <1>1, <1>2, <1>3, <1>4, <1>5 DEF Next

\* The inductive invariant: what a folder holds is known from the stage of the one
\* operation that is about it, wherever others of its kind have died.
THEOREM Invariance == Spec => []IInv
<1>1. Init => IInv
  BY InitKeeps
<1>2. IInv /\ [Next]_vars => IInv'
  BY StepKeeps
<1> QED
  BY <1>1, <1>2, PTL DEF Spec

\* In a settled folder that is clean, the config is the one that was believed.
LEMMA SettledIsGood ==
  ASSUME IInv, NEW p \in Names, Settled(p), Clean(p)
  PROVE  ConfigGood(p)
  BY DEF IInv, FolderOK, Settled, Touched, Target

\* A config that does not parse was being rewritten in place, by archive or duplicate,
\* when that died, or two operations met in its folder (_write_structured of the editor
\* and of the service).
THEOREM BrokenConfigs == Spec => []BrokenConfigsHaveACause
<1>1. IInv => BrokenConfigsHaveACause
  BY SettledIsGood DEF BrokenConfigsHaveACause, ConfigGood, Parses, Clean
<1> QED
  BY <1>1, Invariance, PTL

\* What was edited stays edited, however many operations there were and wherever one of
\* them died, unless two of them met in the folder or a copy or delete was left half done.
THEOREM EditsStay == Spec => []EditsAreNotUndone
<1>1. IInv => EditsAreNotUndone
  BY SettledIsGood DEF EditsAreNotUndone, ConfigGood, Parses, Config, Clean
<1> QED
  BY <1>1, Invariance, PTL

\* The runs in a folder's databases ran in that folder and under its name: a copy of a
\* folder takes no recorded run with it (_NEVER_COPY).
THEOREM HistoryIsOnesOwn == Spec => []HistoryIsNotMisattributed
<1>1. IInv => HistoryIsNotMisattributed
  BY DEF IInv, HistoryOK, HistoryIsNotMisattributed, Clean
<1> QED
  BY <1>1, Invariance, PTL

\* Which runs are still there after a step: all but those in a place that a removal erases.
LEMMA RunsThatStay ==
  ASSUME IInv, Next, NEW p \in Names, NEW r \in runs[p], \A s \in runs'[p] : s.id # r.id
  PROVE  \E c \in Clients : At(c, "remove") /\ Target(c) = p /\ r.place \in left[c]
<1>1. \A q \in Names : \A s \in runs[q] : {"id", "home", "place", "name"} \subseteq DOMAIN s
  BY DEF IInv, HistoryOK
<1>2. runs'[p] # runs[p]
  OBVIOUS
<1>3. DOMAIN runs = Names
  BY DEF IInv, Shape
<1>4. PICK c \in Clients :
        \/ Begin(c) \/ Die(c)
        \/ Free(c) \/ Source(c) \/ Load(c) \/ Read(c) \/ Discover(c)
        \/ Mkdir(c) \/ Build(c) \/ Open(c) \/ Truncate(c) \/ Write(c) \/ Replace(c) \/ Unlink(c)
        \/ CopyTree(c) \/ Copy(c) \/ Confirm(c) \/ List(c) \/ Erase(c)
        \/ Start(c) \/ Finish(c) \/ Drop(c) \/ Compare(c)
  BY DEF Next
<1>5. ~Stop(c)
  BY <1>2 DEF Stop
<1>6. CASE Begin(c) \/ Free(c) \/ Source(c) \/ Load(c) \/ Discover(c) \/ Mkdir(c) \/ Confirm(c) \/ List(c)
  BY <1>2, <1>5, <1>6 DEF Begin, Free, Source, Load, Discover, Mkdir, Confirm, List
<1>7. CASE Build(c) \/ Open(c) \/ Truncate(c) \/ Write(c) \/ Replace(c) \/ Unlink(c)
           \/ CopyTree(c) \/ Compare(c) \/ Die(c)
  BY <1>2, <1>5, <1>7 DEF Build, Open, Truncate, Opens, Write, Replace, Unlink, CopyTree, Compare, Die
<1>8. CASE Read(c)
  BY <1>2, <1>5, <1>8 DEF Read
<1>9. CASE Copy(c)
  <2>1. \E more : runs' = [runs EXCEPT ![Target(c)] = @ \cup more]
    BY <1>2, <1>5, <1>9 DEF Copy
  <2> QED
    BY <1>3, <2>1
<1>10. CASE Start(c)
  <2>1. \E more : runs' = [runs EXCEPT ![Target(c)] = @ \cup more]
    BY <1>10 DEF Start
  <2> QED
    BY <1>3, <2>1
<1>11. CASE Finish(c)
  <2> DEFINE Ranked(s) == IF s.id \in left[c] THEN [s EXCEPT !.ranked = TRUE] ELSE s
  <2>1. runs' = [runs EXCEPT ![Target(c)] = {Ranked(s) : s \in @}]
    BY <1>2, <1>11 DEF Finish
  <2>2. p = Target(c) /\ Ranked(r) \in runs'[p]
    BY <1>2, <1>3, <2>1
  <2>3. Ranked(r).id = r.id
    BY <1>1, FieldSet
  <2> QED
    BY <2>2, <2>3
<1>12. CASE Drop(c)
  <2>1. PICK run \in runs[Target(c)] :
          runs' = [runs EXCEPT ![Target(c)] = (@ \ {run}) \cup {[run EXCEPT !.live = FALSE]}]
    BY <1>5, <1>12 DEF Drop
  <2>2. p = Target(c) /\ runs'[p] = (runs[p] \ {run}) \cup {[run EXCEPT !.live = FALSE]}
    BY <1>2, <1>3, <2>1
  <2>3. r = run
    BY <2>2
  <2>4. [run EXCEPT !.live = FALSE].id = run.id
    BY <1>1, <2>2, FieldSet
  <2> QED
    BY <2>2, <2>3, <2>4
<1>13. CASE Erase(c)
  <2>1. PICK path \in left[c] : runs' = [runs EXCEPT ![Target(c)] = {s \in @ : s.place # path}]
    BY <1>2, <1>5, <1>13 DEF Erase
  <2>2. p = Target(c) /\ runs'[p] = {s \in runs[p] : s.place # path}
    BY <1>2, <1>3, <2>1
  <2>3. r.place = path
    BY <2>2
  <2> QED
    BY <1>13, <2>2, <2>3 DEF Erase
<1> QED
  BY <1>4, <1>6, <1>7, <1>8, <1>9, <1>10, <1>11, <1>12, <1>13

\* A recorded run goes only with the place it is in, when a project is deleted, and not
\* from results/ if results were to be kept (delete_project, delete_run).
THEOREM HistorySurvives == Spec => KeptHistorySurvives
<1> DEFINE Survives ==
      \A p \in Names : \A r \in runs[p] :
          (\A s \in runs'[p] : s.id # r.id) =>
              \E c \in Clients :
                 /\ At(c, "remove") /\ Target(c) = p
                 /\ job[c].say = "keep" => r.place # "results"
<1>1. ASSUME IInv, [Next]_vars PROVE [Survives]_vars
  <2> SUFFICES ASSUME Next, NEW p \in Names, NEW r \in runs[p], \A s \in runs'[p] : s.id # r.id
               PROVE  \E c \in Clients :
                         /\ At(c, "remove") /\ Target(c) = p
                         /\ job[c].say = "keep" => r.place # "results"
    BY <1>1
  <2>1. PICK c \in Clients : At(c, "remove") /\ Target(c) = p /\ r.place \in left[c]
    BY <1>1, RunsThatStay
  <2>2. Place(c) = Plain("remove")
    BY <1>1, <2>1, StageTells, WhoIsAt DEF IInv, At
  <2> QED
    BY <1>1, <2>1, <2>2 DEF IInv, HoldsOK
<1>2. IInv /\ [Next]_vars => [Survives]_vars
  BY <1>1
<1> QED
  BY <1>2, Invariance, PTL DEF Spec, KeptHistorySurvives

-----------------------------------------------------------------------------
(* The cases: a second invariant, which rests on the first.  A save takes    *)
(* the other format away as its last stage; until then a folder may have two *)
(* test files, and a copy may have what is listed of both.                   *)

Tidy(p) == causes[p] \cap {"left", "beside", "overlap", "copied"} = {}

\* Who meets another is known to have.
MeetingsOverlap ==
    \A c, d \in Clients :
        c # d /\ Busy(c) /\ Busy(d) /\ Touched(job[c]) \cap Touched(job[d]) # {} =>
            \A p \in Touched(job[c]) \cup Touched(job[d]) : "overlap" \in causes[p]

\* No two cases of a test file, or of one that will be, have one id.
DistinctIds(p) ==
    \A path \in FilesOf("tests") :
        disk[p][path].kind = "whole" => IsInjective(disk[p][path].holds)

\* The stages in which a client has the cases that it will write, or has written them.
HasTests(c) ==
    \/ Place(c) \in SaveTests
    \/ Place(c) \in SaveConfig /\ job[c].do = "create"

CarriesTests(c) ==
    /\ Place(c) \in {Plain("mkdir"), Plain("build")} =>
          CleanTests(got[c].tests) # NULL /\ IsInjective(CleanTests(got[c].tests))
    /\ HasTests(c) => IsInjective(got[c].tests)

OneAtMost(paths) == \A one, other \in paths : one = other

\* A save that has yet to take the other format away has left none that it does not know
\* beside its own.
AtUnlink(c) ==
    Place(c) = OnTests("unlink") /\ Tidy(Target(c)) => There(Target(c)) \cap OtherTests = {}

\* A copy gets no second test file.
CopiesOne(c) ==
    Place(c) = Plain("copy") /\ Tidy(Target(c)) =>
        OneAtMost(TestPaths \cap (There(Target(c)) \cup left[c]))

OneFile(p) ==
    Tidy(p) => \/ OneAtMost(TestFiles(p))
               \/ \E c \in Clients : Busy(c) /\ Target(c) = p /\ Place(c) = OnTests("unlink")

TestsInv ==
    /\ MeetingsOverlap
    /\ \A p \in Names : DistinctIds(p) /\ OneFile(p)
    /\ \A c \in Clients : CarriesTests(c) /\ AtUnlink(c) /\ CopiesOne(c)


\* The number that makes an id new is found among as many as there are ids, and
\* one more.
LEMMA NewId ==
  ASSUME NEW Ids, NEW seen \in Seq(Ids), NEW index \in Nat, NEW raw, raw = NULL \/ IsList(raw)
  PROVE  /\ TestId(raw, index, seen) \notin ToSet(seen)
         /\ LET base == IF raw = NULL THEN <<"case", index>> ELSE raw
            IN \/ TestId(raw, index, seen) = base
               \/ \E n \in Nat : TestId(raw, index, seen) = base \o <<n>>
<1> DEFINE base == IF raw = NULL THEN <<"case", index>> ELSE raw
           Candidate(n) == IF n = 1 THEN base ELSE base \o <<n>>
           size == Len(seen) + 1
           free == {n \in 1..size : Candidate(n) \notin ToSet(seen)}
<1>1. TestId(raw, index, seen) = Candidate(Min(free))
  BY DEF TestId
<1>2. \E Parts : base \in Seq(Parts)
  <2>1. CASE raw = NULL
    <3>1. <<"case", index>> \in Seq({"case", index})
      OBVIOUS
    <3> QED
      BY <2>1, <3>1
  <2>2. CASE raw # NULL
    <3> DEFINE Parts == {raw[i] : i \in 1..Len(raw)}
    <3>1. Len(raw) \in Nat /\ raw = [i \in 1..Len(raw) |-> raw[i]]
      BY <2>2 DEF IsList
    <3>2. raw \in [1..Len(raw) -> Parts]
      BY <3>1
    <3>3. raw \in Seq(Parts)
      <4> HIDE DEF Parts
      <4> QED
        BY <3>1, <3>2, SeqDef
    <3> QED
      BY <2>2, <3>3
  <2> QED
    BY <2>1, <2>2
<1>3. PICK Parts : base \in Seq(Parts)
  BY <1>2
<1> HIDE DEF base
<1>4. ASSUME NEW n \in Nat, NEW m \in Nat, Candidate(n) = Candidate(m)
      PROVE  n = m
  <2>1. \A k \in Nat : /\ Len(base \o <<k>>) = Len(base) + 1
                       /\ (base \o <<k>>)[Len(base) + 1] = k
    <3> TAKE k \in Nat
    <3>1. /\ base \in Seq(Parts \cup {k}) /\ <<k>> \in Seq(Parts \cup {k})
      BY <1>3
    <3>2. Len(<<k>>) = 1 /\ <<k>>[1] = k /\ Len(base) \in Nat
      BY <1>3
    <3>3. /\ Len(base \o <<k>>) = Len(base) + Len(<<k>>)
          /\ \A i \in 1..(Len(base) + Len(<<k>>)) :
                (base \o <<k>>)[i] = IF i <= Len(base) THEN base[i] ELSE <<k>>[i - Len(base)]
      BY <3>1, ConcatProperties
    <3>4. Len(base) + 1 \in 1..(Len(base) + Len(<<k>>)) /\ ~(Len(base) + 1 <= Len(base))
          /\ (Len(base) + 1) - Len(base) = 1
      BY <3>2
    <3>5. (base \o <<k>>)[Len(base) + 1] = <<k>>[1]
      BY <3>3, <3>4
    <3> QED
      BY <3>2, <3>3, <3>5
  <2>2. Len(base) \in Nat /\ Len(base) # Len(base) + 1
    BY <1>3
  <2>3. CASE n = 1 /\ m # 1
    BY <1>4, <2>1, <2>2, <2>3
  <2>4. CASE n # 1 /\ m = 1
    BY <1>4, <2>1, <2>2, <2>4
  <2>5. CASE n # 1 /\ m # 1
    BY <1>4, <2>1, <2>5
  <2> QED
    BY <2>3, <2>4, <2>5
<1> HIDE DEF Candidate
<1>5. /\ Len(seen) \in Nat /\ size \in Nat /\ DOMAIN seen = 1..Len(seen)
  BY LenProperties
<1>6. IsFiniteSet(ToSet(seen)) /\ Cardinality(ToSet(seen)) <= Len(seen)
  <2>1. ToSet(seen) = {seen[i] : i \in 1..Len(seen)}
    BY <1>5 DEF ToSet
  <2>2. IsFiniteSet(1..Len(seen)) /\ Cardinality(1..Len(seen)) = Len(seen)
    BY <1>5, FS_Interval
  <2>3. seen \in Surjection(1..Len(seen), ToSet(seen))
    BY <1>5, <2>1 DEF Surjection
  <2> QED
    BY <2>2, <2>3, FS_Surjection
<1>7. free # {}
  <2> SUFFICES ASSUME free = {} PROVE FALSE
    OBVIOUS
  <2> DEFINE f == [n \in 1..size |-> Candidate(n)]
  <2>1. f \in [1..size -> ToSet(seen)]
    OBVIOUS
  <2>2. IsFiniteSet(1..size) /\ Cardinality(1..size) = Len(seen) + 1
    BY <1>5, FS_Interval
  <2>3. Cardinality(ToSet(seen)) < Cardinality(1..size)
    <3>1. Cardinality(ToSet(seen)) \in Nat
      BY <1>6, FS_CardinalityType
    <3> QED
      BY <1>5, <1>6, <2>2, <3>1
  <2> HIDE DEF f
  <2>4. PICK n \in 1..size, m \in 1..size : n # m /\ f[n] = f[m]
    BY <1>6, <2>1, <2>2, <2>3, FS_PigeonHole
  <2>5. Candidate(n) = Candidate(m)
    BY <2>4 DEF f
  <2>6. n \in Nat /\ m \in Nat
    BY <1>5
  <2> QED
    BY <1>4, <2>4, <2>5, <2>6
<1>8. Min(free) \in free
  BY <1>5, <1>7, MinIn
<1>9. Candidate(Min(free)) \notin ToSet(seen) /\ Min(free) \in Nat
  <2> HIDE DEF size
  <2> QED
    BY <1>5, <1>8
<1>10. Candidate(Min(free)) = base \/ \E n \in Nat : Candidate(Min(free)) = base \o <<n>>
  BY <1>9 DEF Candidate
<1> QED
  BY <1>1, <1>9, <1>10 DEF base

\* Whatever is sent, the ids that are kept of it are distinct.
LEMMA IdsAreDistinct ==
  ASSUME NEW payload \in Payloads
  PROVE  CleanTests(payload.tests) = NULL \/ IsInjective(CleanTests(payload.tests))
<1> DEFINE raw == payload.tests
           n == Len(raw)
           Base(i) == IF raw[i].id = NULL THEN <<"case", i>> ELSE raw[i].id
           Ids == UNION {{Base(i)} \cup {Base(i) \o <<k>> : k \in Nat} : i \in 1..n}
           V == {seen \in Seq(Ids) : IsInjective(seen)}
           Take(seen, i) == IF raw[i].input = NULL THEN seen
                            ELSE Append(seen, TestId(raw[i].id, i, seen))
           F == [x \in V \X (1..n) |-> Take(x[1], x[2])]
           Step(g) == [T \in SUBSET DOMAIN [i \in DOMAIN raw |-> i] |->
                         IF T = {} THEN <<>>
                         ELSE Take(g[T \ {Max(T)}], [i \in DOMAIN raw |-> i][Max(T)])]
           iter == CHOOSE g : g = Step(g)
           ids == iter[DOMAIN [i \in DOMAIN raw |-> i]]
<1>1. CleanTests(raw) = IF ids = <<>> THEN NULL ELSE ids
  BY DEF CleanTests, FoldLeft, MapThenFoldSet
<1>2. n \in Nat /\ DOMAIN raw = 1..n /\ \A i \in 1..n : raw[i].id = NULL \/ IsList(raw[i].id)
  BY PayloadsAssumption DEF IsList
<1>3. <<>> \in V
  <2>1. <<>> \in Seq(Ids)
    OBVIOUS
  <2>2. IsInjective(<<>>)
    BY DEF IsInjective
  <2> QED
    BY <2>1, <2>2
<1>4. ASSUME NEW seen \in V, NEW i \in 1..n
      PROVE  Take(seen, i) \in V
  <2> DEFINE new == TestId(raw[i].id, i, seen)
  <2>1. seen \in Seq(Ids) /\ IsInjective(seen) /\ i \in Nat
    BY <1>2
  <2>2. new \notin ToSet(seen) /\ (new = Base(i) \/ \E k \in Nat : new = Base(i) \o <<k>>)
    <3> DEFINE id == raw[i].id
    <3>1. id = NULL \/ IsList(id)
      BY <1>2
    <3> HIDE DEF Ids, id
    <3>2. /\ TestId(id, i, seen) \notin ToSet(seen)
          /\ LET base == IF id = NULL THEN <<"case", i>> ELSE id
             IN TestId(id, i, seen) = base \/ \E k \in Nat : TestId(id, i, seen) = base \o <<k>>
      BY <2>1, <3>1, NewId
    <3> QED
      BY <3>2 DEF id
  <2> HIDE DEF new
  <2>3. new \in Ids
    <3> HIDE DEF Base
    <3>1. new \in {Base(i)} \cup {Base(i) \o <<k>> : k \in Nat}
      BY <2>2
    <3> QED
      BY <3>1
  <2> HIDE DEF Ids, V
  <2>4. Append(seen, new) \in Seq(Ids)
    BY <2>1, <2>3
  <2>5. IsInjective(Append(seen, new))
    <3>1. /\ DOMAIN Append(seen, new) = 1..(Len(seen) + 1) /\ Len(seen) \in Nat
          /\ DOMAIN seen = 1..Len(seen)
          /\ \A k \in 1..Len(seen) : Append(seen, new)[k] = seen[k]
          /\ Append(seen, new)[Len(seen) + 1] = new
      BY <2>1, <2>3, AppendProperties, LenProperties
    <3>2. \A k \in 1..Len(seen) : seen[k] # new
      BY <2>2, <3>1 DEF ToSet
    <3>3. ASSUME NEW a \in 1..(Len(seen) + 1), NEW b \in 1..(Len(seen) + 1),
                 Append(seen, new)[a] = Append(seen, new)[b]
          PROVE  a = b
      <4>1. (a \in 1..Len(seen) \/ a = Len(seen) + 1) /\ (b \in 1..Len(seen) \/ b = Len(seen) + 1)
        BY <3>1
      <4>2. CASE a \in 1..Len(seen) /\ b \in 1..Len(seen)
        BY <2>1, <3>1, <3>3, <4>2 DEF IsInjective
      <4>3. CASE a \in 1..Len(seen) /\ b = Len(seen) + 1
        BY <3>1, <3>2, <3>3, <4>3
      <4>4. CASE a = Len(seen) + 1 /\ b \in 1..Len(seen)
        BY <3>1, <3>2, <3>3, <4>4
      <4> QED
        BY <4>1, <4>2, <4>3, <4>4
    <3> QED
      BY <3>1, <3>3 DEF IsInjective
  <2>6. Append(seen, new) \in V
    BY <2>4, <2>5 DEF V
  <2> QED
    BY <2>6 DEF new
<1> HIDE DEF V, n, Take
<1>5. F \in [V \X (1..n) -> V] /\ \A v \in V, k \in 1..n : F[<<v, k>>] = Take(v, k)
  BY <1>4
<1>6. PICK g \in [SUBSET (1..n) -> V] : IsFold(g, n, <<>>, F)
  <2> HIDE DEF F
  <2> QED
    BY <1>2, <1>3, <1>5, FoldExists
<1>7. DOMAIN [i \in DOMAIN raw |-> i] = 1..n /\ \A k \in 1..n : [i \in DOMAIN raw |-> i][k] = k
  BY <1>2
<1>8. g = Step(g)
  <2>1. ASSUME NEW T \in SUBSET (1..n), T # {}
        PROVE  F[<<g[T \ {Max(T)}], Max(T)>>] = Take(g[T \ {Max(T)}], [i \in DOMAIN raw |-> i][Max(T)])
    <3>1. Max(T) \in 1..n
      BY <1>2, <2>1, MaxIn
    <3>2. T \ {Max(T)} \in SUBSET (1..n) /\ g[T \ {Max(T)}] \in V
      OBVIOUS
    <3> HIDE DEF F
    <3> QED
      BY <1>5, <1>7, <3>1, <3>2
  <2> HIDE DEF F
  <2> QED
    BY <1>6, <1>7, <2>1 DEF IsFold
<1>9. iter = Step(iter)
  <2> HIDE DEF Step
  <2> QED
    BY <1>8
<1> HIDE DEF iter
<1>10. IsFoldWithin(iter, n, V, <<>>, F)
  <2>1. ASSUME NEW T \in SUBSET (1..n), T # {}, iter[T \ {Max(T)}] \in V
        PROVE  iter[T] = F[<<iter[T \ {Max(T)}], Max(T)>>]
    <3>1. Max(T) \in 1..n
      BY <1>2, <2>1, MaxIn
    <3>2. iter[T] = Take(iter[T \ {Max(T)}], Max(T))
      BY <1>7, <1>9, <2>1, <3>1
    <3> HIDE DEF F
    <3> QED
      BY <1>5, <2>1, <3>1, <3>2
  <2>2. iter[{}] = <<>>
    BY <1>9
  <2> HIDE DEF F
  <2> QED
    BY <2>1, <2>2 DEF IsFoldWithin
<1> HIDE DEF F
<1>11. PICK p \in [0..n -> V] : IsChain(p, n, <<>>, F, iter[1..n])
  BY <1>2, <1>3, <1>5, <1>10, FoldChain
<1>12. ids \in V
  <2>1. n \in 0..n
    BY <1>2
  <2> QED
    BY <1>7, <1>11, <2>1 DEF IsChain
<1> QED
  BY <1>1, <1>12 DEF V


\* What a step of c, other than the begin of an operation, leaves to the others.
LeavesOthers(c) ==
    /\ job' = job
    /\ \A d \in Clients \ {c} : todo'[d] = todo[d] /\ got'[d] = got[d] /\ left'[d] = left[d]
    /\ \A p \in Names \ {Target(c)} : disk'[p] = disk[p]
    /\ \A p \in Names : causes[p] \subseteq causes'[p]

LEMMA StopLeaves == ASSUME IInv, NEW c \in Clients, Stop(c) PROVE LeavesOthers(c)
  BY DEF Stop, Leave, LeavesOthers, IInv, Shape

LEMMA ReadersLeave ==
  ASSUME IInv, NEW c \in Clients, ~Stop(c),
         Free(c) \/ Source(c) \/ Load(c) \/ Read(c) \/ Discover(c) \/ Mkdir(c) \/ Build(c)
  PROVE  LeavesOthers(c) /\ UNCHANGED disk
  BY DEF Free, Source, Load, Read, Discover, Mkdir, Build, GoOn, LeavesOthers, history, IInv, Shape

LEMMA WritersLeave ==
  ASSUME IInv, NEW c \in Clients, ~Stop(c),
         Open(c) \/ Truncate(c) \/ Replace(c) \/ Unlink(c)
  PROVE  LeavesOthers(c)
<1>1. CASE Open(c) \/ Truncate(c) \/ Unlink(c)
  BY <1>1 DEF Open, Truncate, Opens, Unlink, GoOn, LeavesOthers, history, IInv, Shape
<1>2. CASE Replace(c)
  <2>1. /\ \E files : disk' = [disk EXCEPT ![Target(c)] = files]
        /\ \E more : causes' = [causes EXCEPT ![Target(c)] = @ \cup more]
        /\ GoOn(c) /\ UNCHANGED <<job, got, left>>
    BY <1>2 DEF Replace
  <2> QED
    BY <2>1 DEF GoOn, LeavesOthers, IInv, Shape
<1> QED
  BY <1>1, <1>2

LEMMA WriteLeaves == ASSUME IInv, NEW c \in Clients, Write(c) PROVE LeavesOthers(c)
<1>1. fd[c] # NULL => fd[c][1] = Target(c)
  BY DEF IInv, FilesOK
<1> QED
  BY <1>1 DEF Write, GoOn, LeavesOthers, IInv, Shape

LEMMA CopiersLeave ==
  ASSUME IInv, NEW c \in Clients, ~Stop(c), CopyTree(c) \/ Confirm(c) \/ List(c)
  PROVE  LeavesOthers(c) /\ UNCHANGED disk
<1>1. CASE CopyTree(c)
  <2>1. \E more : causes' = [causes EXCEPT ![Target(c)] = @ \cup more]
    BY <1>1 DEF CopyTree
  <2> QED
    BY <1>1, <2>1 DEF CopyTree, GoOn, LeavesOthers, IInv, Shape
<1>2. CASE Confirm(c) \/ List(c)
  BY <1>2 DEF Confirm, List, GoOn, Leave, LeavesOthers, history, IInv, Shape
<1> QED
  BY <1>1, <1>2

LEMMA MoversLeave ==
  ASSUME IInv, NEW c \in Clients, ~Stop(c), Copy(c) \/ Erase(c)
  PROVE  LeavesOthers(c)
<1>1. CASE Copy(c)
  BY <1>1 DEF Copy, GoOn, LeavesOthers, history, IInv, Shape
<1>2. CASE Erase(c)
  BY <1>2 DEF Erase, GoOn, LeavesOthers, history, IInv, Shape
<1> QED
  BY <1>1, <1>2

LEMMA RunnersLeave ==
  ASSUME IInv, NEW c \in Clients, ~Stop(c), Start(c) \/ Finish(c) \/ Drop(c) \/ Compare(c)
  PROVE  LeavesOthers(c)
  BY DEF Start, Finish, Drop, Compare, GoOn, LeavesOthers, history, IInv, Shape

\* A folder is tidy only if one client is about it, at most.
LEMMA TidyAlone ==
  ASSUME IInv, MeetingsOverlap, NEW c \in Clients, Busy(c), NEW d \in Clients, Busy(d), d # c,
         Tidy(Target(d))
  PROVE  Target(c) # Target(d) /\ job[d].on # Target(c) /\ job[c].on # Target(d)
  BY DEF MeetingsOverlap, Touched, Target, Tidy

LEMMA TestsSuffice ==
  ASSUME IInv, TestsInv, NEW c \in Clients, Busy(c), LeavesOthers(c), NEW p, p = Target(c),
         todo' \in [Clients -> Seq(Steps)],
         DistinctIds(p)', OneFile(p)', CarriesTests(c)', AtUnlink(c)', CopiesOne(c)'
  PROVE  TestsInv'
<1>1. /\ \A d \in Clients : Target(d)' = Target(d)
      /\ \A d \in Clients : d # c => Place(d)' = Place(d) /\ (Busy(d)' <=> Busy(d))
      /\ \A q \in Names : Tidy(q)' => Tidy(q)
  BY DEF LeavesOthers, Target, Place, Busy, Tidy
<1>2. MeetingsOverlap'
  <2> SUFFICES ASSUME NEW a \in Clients, NEW b \in Clients, a # b, Busy(a)', Busy(b)',
                      (Touched(job[a]) \cap Touched(job[b]) # {})', NEW q \in (Touched(job[a]) \cup Touched(job[b]))'
               PROVE  "overlap" \in causes'[q]
    BY DEF MeetingsOverlap
  <2>1. job' = job /\ Busy(a) /\ Busy(b)
    BY <1>1 DEF LeavesOthers
  <2>2. Touched(job[a]) \cap Touched(job[b]) # {} /\ q \in Touched(job[a]) \cup Touched(job[b])
    BY <2>1 DEF Touched
  <2>3. "overlap" \in causes[q] /\ q \in Names
    BY <2>1, <2>2, TargetIsName DEF IInv, TestsInv, MeetingsOverlap, Touched, Target
  <2> QED
    BY <2>3 DEF LeavesOthers
<1>3. ASSUME NEW d \in Clients, d # c
      PROVE  CarriesTests(d)' /\ AtUnlink(d)' /\ CopiesOne(d)'
  <2>1. /\ Place(d)' = Place(d) /\ got'[d] = got[d] /\ left'[d] = left[d] /\ job'[d] = job[d]
        /\ Target(d)' = Target(d)
    BY <1>1, <1>3 DEF LeavesOthers
  <2>2. CarriesTests(d)'
    BY <2>1 DEF TestsInv, CarriesTests, HasTests
  <2>3. ASSUME Place(d) # Done, Tidy(Target(d))'
        PROVE  There(Target(d))' = There(Target(d)) /\ Tidy(Target(d))
    <3>1. Busy(d)
      BY <2>3 DEF Place
    <3>2. Target(d) \in Names
      BY <3>1, TargetIsName DEF IInv
    <3>3. Tidy(Target(d))
      BY <1>1, <2>1, <2>3, <3>2 DEF Tidy, LeavesOthers
    <3>4. Target(c) # Target(d)
      BY <1>3, <3>1, <3>3, TidyAlone DEF TestsInv
    <3>5. disk'[Target(d)] = disk[Target(d)]
      BY <3>2, <3>4 DEF LeavesOthers
    <3> QED
      BY <2>1, <3>3, <3>5 DEF There
  <2>4. AtUnlink(d)'
    <3>1. OnTests("unlink") # Done
      BY DEF OnTests, Done
    <3> QED
      BY <2>1, <2>3, <3>1 DEF TestsInv, AtUnlink
  <2>5. CopiesOne(d)'
    <3>1. Plain("copy") # Done
      BY DEF Plain, Done
    <3> QED
      BY <2>1, <2>3, <3>1 DEF TestsInv, CopiesOne
  <2> QED
    BY <2>2, <2>4, <2>5
<1>4. ASSUME NEW q \in Names, q # p
      PROVE  DistinctIds(q)' /\ OneFile(q)'
  <2>1. disk'[q] = disk[q]
    BY <1>4 DEF LeavesOthers
  <2>2. TestFiles(q)' = TestFiles(q)
    BY <2>1 DEF TestFiles, There
  <2>3. DistinctIds(q)'
    BY <2>1 DEF TestsInv, DistinctIds
  <2>4. ASSUME Tidy(q)', ~OneAtMost(TestFiles(q))
        PROVE  \E d \in Clients : (Busy(d) /\ Target(d) = q /\ Place(d) = OnTests("unlink"))'
    <3>1. PICK d \in Clients : Busy(d) /\ Target(d) = q /\ Place(d) = OnTests("unlink")
      BY <1>1, <2>4 DEF TestsInv, OneFile
    <3>2. d # c
      BY <1>4, <3>1
    <3> QED
      BY <1>1, <3>1, <3>2
  <2>5. OneFile(q)'
    BY <2>2, <2>4 DEF OneFile, OneAtMost
  <2> QED
    BY <2>3, <2>5
<1>5. DistinctIds(p)' /\ OneFile(p)'
  OBVIOUS
<1> QED
  BY <1>2, <1>3, <1>4, <1>5 DEF TestsInv

\* A step that makes no test file, and neither ends a save nor goes on to copy.
LEMMA QuietTests ==
  ASSUME IInv, TestsInv, NEW c \in Clients, Busy(c), LeavesOthers(c), NEW p, p = Target(c),
         todo' \in [Clients -> Seq(Steps)],
         Place(c) # OnTests("unlink") \/ ~Tidy(p)',
         Place(c)' \notin {OnTests("unlink"), Plain("copy")},
         DistinctIds(p)', TestFiles(p)' \subseteq TestFiles(p), CarriesTests(c)'
  PROVE  TestsInv'
<1>1. p \in Names
  BY TargetIsName DEF IInv
<1>2. OneFile(p)'
  <2> SUFFICES ASSUME Tidy(p)' PROVE OneAtMost(TestFiles(p))'
    BY DEF OneFile
  <2>1. Tidy(p)
    BY <1>1 DEF Tidy, LeavesOthers
  <2>2. ~ \E d \in Clients : Busy(d) /\ Target(d) = p /\ Place(d) = OnTests("unlink")
    BY <2>1, TidyAlone DEF TestsInv
  <2>3. OneAtMost(TestFiles(p))
    BY <1>1, <2>1, <2>2 DEF TestsInv, OneFile
  <2> QED
    BY <2>3 DEF OneAtMost
<1>3. AtUnlink(c)' /\ CopiesOne(c)'
  BY DEF AtUnlink, CopiesOne
<1> QED
  BY <1>2, <1>3, TestsSuffice

\* Test files that are as they were.
SameTests(p) == \A path \in FilesOf("tests") : disk'[p][path] = disk[p][path]

LEMMA SameTestsMeans ==
  ASSUME TestsInv, NEW p \in Names, SameTests(p)
  PROVE  DistinctIds(p)' /\ TestFiles(p)' = TestFiles(p)
<1>1. TestPaths \subseteq FilesOf("tests")
  BY DEF FilesOf
<1> QED
  BY <1>1 DEF SameTests, TestsInv, DistinctIds, TestFiles, There

LEMMA StopTests ==
  ASSUME IInv, TestsInv, NEW c \in Clients, Busy(c), Stop(c)
  PROVE  TestsInv'
<1>1. Advances(c, Done) /\ LeavesOthers(c)
  BY LeaveAdvances, StopLeaves DEF Stop, IInv
<1>2. PICK p \in Names : p = Target(c)
  BY TargetIsName DEF IInv
<1>3. Place(c)' = Done /\ todo' \in [Clients -> Seq(Steps)]
  BY <1>1 DEF Advances
<1>4. Done \notin {OnTests("unlink"), Plain("copy"), Plain("mkdir"), Plain("build")}
      /\ Done \notin SaveTests \cup SaveConfig
  BY DEF Done, OnTests, OnConfig, Plain, SaveTests, SaveConfig
<1>5. CarriesTests(c)'
  BY <1>3, <1>4 DEF CarriesTests, HasTests
<1>6. SameTests(p)
  BY DEF Stop, SameTests
<1>7. Place(c) = OnTests("unlink") => ~Tidy(p)'
  <2> SUFFICES ASSUME Place(c) = OnTests("unlink") PROVE ~Tidy(p)'
    OBVIOUS
  <2>1. At(c, "unlink") /\ Stem(c) = "tests"
    BY DEF Place, At, Stem, OnTests
  <2>2. \E some : causes' = [causes EXCEPT ![p] = @ \cup some \cup {"left"}]
    BY <1>2, <2>1 DEF Stop
  <2>3. "left" \in causes'[p]
    BY <2>2 DEF IInv, Shape
  <2> QED
    BY <2>3 DEF Tidy
<1>8. DistinctIds(p)' /\ TestFiles(p)' = TestFiles(p)
  BY <1>6, SameTestsMeans
<1> QED
  BY <1>1, <1>2, <1>3, <1>4, <1>5, <1>7, <1>8, QuietTests


\* Where a client carries cases after a stage, it did before, unless it has just made
\* them out of what was sent.
LEMMA CarriesOn ==
  ASSUME NEW do \in Does, NEW at \in StagesOf(do), at \notin {Plain("free"), Plain("build"), Plain("discover")}
  PROVE  /\ After(do, at) = Plain("build") => at = Plain("mkdir")
         /\ After(do, at) # Plain("mkdir")
         /\ After(do, at) \in SaveTests => at \in SaveTests \/ (at \in SaveConfig /\ do = "create")
         /\ After(do, at) \in SaveConfig /\ do = "create" => at \in SaveConfig
         /\ After(do, at) = Plain("copy") => at = Plain("copytree")
         /\ After(do, at) = OnTests("unlink") => at = OnTests("replace")
<1>1. /\ SaveTests \cap SaveConfig = {}
      /\ {Plain("build"), Plain("mkdir"), Plain("copy"), Plain("load"), Plain("discover"), Done}
            \cap (SaveTests \cup SaveConfig) = {}
      /\ Plain("mkdir") \notin {Plain("build"), Plain("copy"), Plain("discover"), Done}
      /\ Plain("copy") \notin {Plain("build"), Plain("discover"), Done}
      /\ Plain("build") \notin {Plain("discover"), Done}
      /\ OnTests("unlink") \notin {OnTests("open"), OnTests("write"), OnTests("replace")}
  BY DEF Plain, OnConfig, OnTests, SaveConfig, SaveTests, Done
<1>2. After(do, at) = Plain("copy") => at = Plain("copytree")
  BY DEF After, Plain, OnConfig, OnTests, Done
<1>3. CASE do = "create"
  <2>1. at \in {Plain("mkdir")} \cup SaveConfig \cup SaveTests
    BY <1>3 DEF StagesOf
  <2>2. After(do, OnConfig("unlink")) = OnTests("open") /\ After(do, OnConfig("write")) = OnConfig("replace")
    BY <1>3 DEF After, Plain, OnConfig, OnTests
  <2>3. at \in SaveTests => After(do, at) \in SaveTests \cup {Done}
    BY AfterEach DEF SaveTests
  <2>4. at \in SaveConfig => After(do, at) \in SaveConfig \cup {OnTests("open")}
    BY <2>2, AfterEach DEF SaveConfig
  <2>5. at = Plain("mkdir") => After(do, at) = Plain("build")
    BY AfterEach
  <2>6. /\ After(do, OnTests("open")) = OnTests("write") /\ After(do, OnTests("write")) = OnTests("replace")
        /\ After(do, OnTests("unlink")) = Done
    BY AfterEach
  <2>7. at \in SaveTests /\ After(do, at) = OnTests("unlink") => at = OnTests("replace")
    BY <1>1, <2>6 DEF SaveTests
  <2>8. {OnTests("open"), OnTests("unlink")} \subseteq SaveTests
    BY DEF SaveTests
  <2>9. CASE at \in SaveTests
    BY <1>1, <1>2, <1>3, <2>3, <2>7, <2>8, <2>9
  <2>10. CASE at \in SaveConfig
    BY <1>1, <1>2, <1>3, <2>4, <2>8, <2>10
  <2>11. CASE at = Plain("mkdir")
    BY <1>1, <1>2, <1>3, <2>5, <2>8, <2>11
  <2> QED
    BY <2>1, <2>9, <2>10, <2>11
<1>4. CASE do = "save_tests"
  <2>1. at = Plain("load") \/ at \in SaveTests
    BY <1>4 DEF StagesOf
  <2>2. at \in SaveTests => After(do, at) \in SaveTests \cup {Done}
    BY AfterEach DEF SaveTests
  <2>3. at = Plain("load") => After(do, at) = Plain("discover")
    BY <1>4, AfterEach
  <2>4. /\ After(do, OnTests("open")) = OnTests("write") /\ After(do, OnTests("write")) = OnTests("replace")
        /\ After(do, OnTests("unlink")) = Done
    BY AfterEach
  <2>5. at \in SaveTests /\ After(do, at) = OnTests("unlink") => at = OnTests("replace")
    BY <1>1, <2>4 DEF SaveTests
  <2>6. OnTests("unlink") \in SaveTests
    BY DEF SaveTests
  <2>7. CASE at \in SaveTests
    BY <1>1, <1>2, <1>4, <2>2, <2>5, <2>6, <2>7
  <2>8. CASE at = Plain("load")
    BY <1>1, <1>2, <1>4, <2>3, <2>6, <2>8
  <2> QED
    BY <2>1, <2>7, <2>8
<1>5. CASE do \notin {"create", "save_tests"}
  <2>1. at \notin SaveTests \cup {Plain("mkdir")}
    BY <1>5 DEF Does, StagesOf, Plain, OnConfig, OnTests, SaveConfig, SaveTests
  <2>2. After(do, at) \notin SaveTests \cup {Plain("build"), Plain("mkdir")}
    <3>1. at = OnConfig("unlink") => After(do, at) = Done
      BY <1>5 DEF After, Plain, OnConfig, OnTests
    <3>2. at # OnConfig("unlink") => After(do, at) \notin SaveTests \cup {Plain("build"), Plain("mkdir")}
      BY <1>5, <2>1 DEF After, Plain, OnConfig, OnTests, SaveTests, Done
    <3> QED
      BY <1>1, <3>1, <3>2
  <2>3. OnTests("unlink") \in SaveTests
    BY DEF SaveTests
  <2> QED
    BY <1>2, <1>5, <2>2, <2>3
<1> QED
  BY <1>3, <1>4, <1>5

\* A step on the way of an operation, in which its client learns nothing of cases.
LEMMA GoingOn ==
  ASSUME IInv, TestsInv, NEW c \in Clients, Busy(c), GoOn(c), job' = job,
         \/ Place(c) \notin {Plain("free"), Plain("build"), Plain("discover")} /\ got'[c] = got[c]
         \/ Place(c) \in {Plain("load"), Plain("read"), Plain("copy")}
  PROVE  /\ Place(c)' = After(job[c].do, Place(c)) /\ todo' \in [Clients -> Seq(Steps)]
         /\ CarriesTests(c)'
<1>1. Place(c)' = After(job[c].do, Place(c)) /\ todo' \in [Clients -> Seq(Steps)]
  BY GoOnAdvances DEF IInv, Advances
<1>2. job[c].do \in Does /\ Place(c) \in StagesOf(job[c].do)
  BY StageTells DEF IInv
<1>3. CASE Place(c) \in {Plain("load"), Plain("read"), Plain("copy")}
  <2>1. Place(c)' \notin SaveTests \cup {Plain("mkdir"), Plain("build")}
        /\ (Place(c)' \in SaveConfig => job[c].do # "create")
    <3>1. After(job[c].do, Place(c)) \in {Plain("read"), Plain("discover"), Plain("start"), OnConfig("open"),
                                          OnConfig("truncate")}
      BY <1>2, <1>3 DEF After, Plain, OnConfig, OnTests
    <3>2. Place(c) = Plain("read") => job[c].do # "create"
      BY <1>2 DEF StagesOf, Plain, OnConfig, OnTests, SaveConfig, SaveTests
    <3>3. After(job[c].do, Place(c)) = OnConfig("open") => Place(c) = Plain("read")
      <4>1. Place(c) = Plain("load") => After(job[c].do, Place(c)) # OnConfig("open")
        BY DEF After, Plain, OnConfig, OnTests
      <4>2. Place(c) = Plain("copy") => After(job[c].do, Place(c)) # OnConfig("open")
        BY DEF After, Plain, OnConfig, OnTests
      <4> QED
        BY <1>3, <4>1, <4>2
    <3>4. /\ {Plain("read"), Plain("discover"), Plain("start"), OnConfig("open"), OnConfig("truncate")}
                \cap (SaveTests \cup {Plain("mkdir"), Plain("build")}) = {}
          /\ {Plain("read"), Plain("discover"), Plain("start"), OnConfig("truncate")} \cap SaveConfig = {}
      BY DEF Plain, OnConfig, OnTests, SaveConfig, SaveTests
    <3> QED
      BY <1>1, <3>1, <3>2, <3>3, <3>4
  <2> QED
    BY <1>1, <2>1 DEF CarriesTests, HasTests
<1>4. CASE Place(c) \notin {Plain("free"), Plain("build"), Plain("discover")} /\ got'[c] = got[c]
  <2>1. CarriesTests(c)
    BY DEF TestsInv
  <2>2. /\ Place(c)' \in {Plain("mkdir"), Plain("build")} => Place(c) \in {Plain("mkdir"), Plain("build")}
        /\ HasTests(c)' => HasTests(c)
    BY <1>1, <1>2, <1>4, CarriesOn DEF HasTests
  <2> QED
    <3>1. Place(c)' \in {Plain("mkdir"), Plain("build")} =>
             CleanTests(got'[c].tests) # NULL /\ IsInjective(CleanTests(got'[c].tests))
      BY <1>4, <2>1, <2>2 DEF CarriesTests
    <3>2. HasTests(c)' => IsInjective(got'[c].tests)
      BY <1>4, <2>1, <2>2 DEF CarriesTests
    <3> QED
      BY <1>1, <3>1, <3>2 DEF CarriesTests
<1> QED
  BY <1>1, <1>3, <1>4

LEMMA ReadersTest ==
  ASSUME IInv, TestsInv, NEW c \in Clients,
         Free(c) \/ Source(c) \/ Load(c) \/ Read(c) \/ Discover(c) \/ Mkdir(c) \/ Build(c)
  PROVE  TestsInv'
<1>1. Busy(c) /\ Place(c)[1] \in {"free", "source", "load", "read", "discover", "mkdir", "build"}
  BY StageTells DEF Free, Source, Load, Read, Discover, Mkdir, Build, At, IInv
<1>2. CASE Stop(c)
  BY <1>1, <1>2, StopTests
<1>3. CASE ~Stop(c)
  <2>1. LeavesOthers(c) /\ disk' = disk /\ job' = job
    BY <1>3, ReadersLeave DEF LeavesOthers
  <2>2. GoOn(c)
    BY <1>3 DEF Free, Source, Load, Read, Discover, Mkdir, Build
  <2>3. PICK p \in Names : p = Target(c)
    BY <1>1, TargetIsName DEF IInv
  <2>4. DistinctIds(p)' /\ TestFiles(p)' = TestFiles(p)
    BY <2>1, SameTestsMeans DEF SameTests
  <2>5. job[c].do \in Does /\ Place(c) \in StagesOf(job[c].do)
    BY <1>1, StageTells DEF IInv
  <2>6. Place(c)' = After(job[c].do, Place(c)) /\ todo' \in [Clients -> Seq(Steps)]
    BY <1>1, <2>1, <2>2, GoOnAdvances DEF IInv, Advances
  <2>7. Place(c)' \notin {OnTests("unlink"), Plain("copy")} /\ Place(c) # OnTests("unlink")
    <3>1. Place(c) # OnTests("unlink") /\ Place(c) # OnTests("replace") /\ Place(c) # Plain("copytree")
      BY <1>1 DEF OnTests, Plain
    <3>2. Place(c) \in {Plain("free"), Plain("build"), Plain("discover")} =>
             After(job[c].do, Place(c)) \in {Plain("mkdir"), OnConfig("open"), OnTests("open")}
      BY <2>5, AfterEach
    <3>3. {Plain("mkdir"), OnConfig("open"), OnTests("open")} \cap {OnTests("unlink"), Plain("copy")} = {}
      BY DEF Plain, OnTests, OnConfig
    <3> QED
      BY <2>5, <2>6, <3>1, <3>2, <3>3, CarriesOn
  <2>8. CarriesTests(c)'
    <3>1. CASE Free(c)
      <4>1. PICK payload \in Payloads : CleanTests(payload.tests) # NULL /\ got' = [got EXCEPT ![c] = payload]
        BY <1>3, <3>1 DEF Free
      <4>2. got'[c] = payload /\ IsInjective(CleanTests(payload.tests))
        BY <4>1, IdsAreDistinct DEF IInv, Shape
      <4>3. Place(c) = Plain("free")
        BY <2>5, <3>1, StageTells, WhoIsAt DEF Free, At, IInv
      <4>4. Place(c)' = Plain("mkdir")
        BY <2>5, <2>6, <4>3, AfterEach
      <4>5. Plain("mkdir") \notin SaveTests \cup SaveConfig
        BY DEF Plain, SaveTests, SaveConfig, OnTests, OnConfig
      <4> QED
        BY <4>1, <4>2, <4>4, <4>5 DEF CarriesTests, HasTests
    <3>2. CASE Discover(c)
      <4>1. PICK payload \in Payloads :
              CleanTests(payload.tests) # NULL /\ got' = [got EXCEPT ![c] = [tests |-> CleanTests(payload.tests)]]
        BY <1>3, <3>2 DEF Discover
      <4>2. IsInjective(got'[c].tests)
        BY <4>1, IdsAreDistinct DEF IInv, Shape
      <4>3. Place(c) = Plain("discover")
        BY <2>5, <3>2, StageTells, WhoIsAt DEF Discover, At, IInv
      <4>4. Place(c)' = OnTests("open")
        BY <2>5, <2>6, <4>3, AfterEach
      <4>5. OnTests("open") \notin {Plain("mkdir"), Plain("build")}
        BY DEF Plain, OnTests
      <4> QED
        BY <4>2, <4>4, <4>5 DEF CarriesTests
    <3>3. CASE Build(c)
      <4>1. Place(c) = Plain("build")
        BY <2>5, <3>3, StageTells, WhoIsAt DEF Build, At, IInv
      <4>2. IsInjective(CleanTests(got[c].tests))
        BY <4>1 DEF TestsInv, CarriesTests
      <4>3. \E config : got' = [got EXCEPT ![c] = [config |-> config, tests |-> CleanTests(@.tests)]]
        BY <1>3, <3>3 DEF Build
      <4>4. got'[c].tests = CleanTests(got[c].tests)
        BY <4>3 DEF IInv, Shape
      <4>5. Place(c)' = OnConfig("open")
        BY <2>5, <2>6, <4>1, AfterEach
      <4>6. OnConfig("open") \notin {Plain("mkdir"), Plain("build")}
        BY DEF Plain, OnConfig
      <4> QED
        BY <4>2, <4>4, <4>5, <4>6 DEF CarriesTests
    <3>4. CASE Source(c) \/ Mkdir(c)
      <4>1. Place(c) \in {Plain("source"), Plain("mkdir")} /\ got'[c] = got[c]
        BY <1>3, <2>5, <3>4, StageTells, WhoIsAt DEF Source, Mkdir, At, IInv
      <4>2. Place(c) \notin {Plain("free"), Plain("build"), Plain("discover")}
        BY <4>1 DEF Plain
      <4> QED
        BY <1>1, <2>1, <2>2, <4>1, <4>2, GoingOn
    <3>5. CASE Load(c) \/ Read(c)
      <4>1. Place(c)[1] \in {"load", "read"}
        BY <1>1, <3>5, StageTells DEF Load, Read, At, IInv
      <4>2. Place(c) \in {Plain("load"), Plain("read")}
        BY <2>5, <4>1, WhoIsAt
      <4> QED
        BY <1>1, <2>1, <2>2, <4>2, GoingOn
    <3> QED
      BY <3>1, <3>2, <3>3, <3>4, <3>5
  <2> QED
    BY <1>1, <2>1, <2>3, <2>4, <2>6, <2>7, <2>8, QuietTests
<1> QED
  BY <1>2, <1>3


\* A step on the way of an operation that makes no test file, and is neither the last but
\* one of a save nor the first of a copy.
LEMMA QuietGoing ==
  ASSUME IInv, TestsInv, NEW c \in Clients, Busy(c), LeavesOthers(c), GoOn(c),
         Place(c) \notin {Plain("free"), Plain("build"), Plain("discover"), Plain("copytree"),
                          OnTests("replace"), OnTests("unlink")},
         got'[c] = got[c],
         DistinctIds(Target(c))', TestFiles(Target(c))' \subseteq TestFiles(Target(c))
  PROVE  TestsInv'
<1>1. job' = job /\ Target(c)' = Target(c)
  BY DEF LeavesOthers, Target
<1>2. /\ Place(c)' = After(job[c].do, Place(c)) /\ todo' \in [Clients -> Seq(Steps)]
      /\ CarriesTests(c)'
  BY <1>1, GoingOn
<1>3. job[c].do \in Does /\ Place(c) \in StagesOf(job[c].do)
  BY StageTells DEF IInv
<1>4. Place(c)' \notin {OnTests("unlink"), Plain("copy")}
  BY <1>2, <1>3, CarriesOn
<1>5. PICK p : p = Target(c)
  OBVIOUS
<1>6. DistinctIds(p)' /\ TestFiles(p)' \subseteq TestFiles(p)
  BY <1>1, <1>5
<1> QED
  BY <1>2, <1>4, <1>5, <1>6, QuietTests

\* What one file of a folder was changed to.
LEMMA OneChanged ==
  ASSUME IInv, TestsInv, NEW p \in Names, NEW path \in Paths, NEW entry,
         disk' = [disk EXCEPT ![p][path] = entry],
         path \in FilesOf("tests") /\ entry.kind = "whole" => IsInjective(entry.holds)
  PROVE  /\ DistinctIds(p)'
         /\ \A other \in Paths : disk'[p][other] = IF other = path THEN entry ELSE disk[p][other]
         /\ (path \in TestPaths /\ entry.kind # "absent" => path \in There(p)) => TestFiles(p)' \subseteq TestFiles(p)
<1>1. \A other \in Paths : disk'[p][other] = IF other = path THEN entry ELSE disk[p][other]
  BY DEF IInv, Shape
<1>2. FilesOf("tests") \subseteq Paths
  BY DEF FilesOf, Paths
<1>3. DistinctIds(p)'
  BY <1>1, <1>2 DEF TestsInv, DistinctIds
<1> QED
  BY <1>1, <1>3 DEF TestFiles, There

LEMMA Kinds ==
  /\ FilesOf("config") \cap FilesOf("tests") = {} /\ Places \cap FilesOf("tests") = {}
  /\ FilesOf("config") \subseteq Paths /\ FilesOf("tests") \subseteq Paths /\ Places \subseteq Paths
  /\ TestPaths \subseteq FilesOf("tests") /\ ConfigPaths \subseteq FilesOf("config")
  /\ TmpOf("config") \in FilesOf("config") /\ TmpOf("tests") \in FilesOf("tests") \ TestPaths
  BY DEF FilesOf, Paths, ConfigPaths, TestPaths, Places, TmpOf

LEMMA OpenTests ==
  ASSUME IInv, TestsInv, NEW c \in Clients, Open(c) \/ Truncate(c)
  PROVE  TestsInv'
<1>1. Busy(c) /\ Place(c)[1] \in {"open", "truncate"}
  BY StageTells DEF Open, Truncate, At, IInv
<1>2. CASE Stop(c)
  BY <1>1, <1>2, StopTests
<1>3. CASE ~Stop(c)
  <2>1. PICK p \in Names : p = Target(c)
    BY <1>1, TargetIsName DEF IInv
  <2>2. job[c].do \in Does /\ Place(c) \in StagesOf(job[c].do) /\ Stem(c) = Place(c)[2]
    BY <1>1, StageTells DEF IInv
  <2>3. Place(c) \in {OnConfig("open"), OnTests("open"), OnConfig("truncate")}
    BY <1>1, <2>2, WhoIsAt
  <2>4. PICK path \in Paths \ TestPaths : Opens(c, path)
    <3>1. CASE Open(c)
      <4>1. Stem(c) \in {"config", "tests"}
        BY <2>2, <2>3 DEF OnConfig, OnTests
      <4>2. TmpOf(Stem(c)) \in Paths \ TestPaths
        BY <4>1, Kinds DEF TmpOf, Paths, TestPaths
      <4> QED
        BY <3>1, <4>2 DEF Open
    <3>2. CASE Truncate(c)
      <4>1. Place(c) = OnConfig("truncate")
        BY <2>2, <3>2, StageTells, WhoIsAt DEF Truncate, At, IInv
      <4>2. PICK there \in ConfigPaths : left[c] = {there}
        BY <4>1 DEF IInv, HoldsOK
      <4>3. TheOne(left[c]) = there
        BY <4>2 DEF TheOne
      <4> QED
        BY <3>2, <4>2, <4>3, Kinds DEF Truncate
    <3> QED
      BY <3>1, <3>2
  <2>5. /\ disk' = [disk EXCEPT ![p][path] = Empty] /\ GoOn(c) /\ got' = got
    BY <1>3, <2>1, <2>4 DEF Opens
  <2>6. DistinctIds(p)' /\ TestFiles(p)' \subseteq TestFiles(p)
    <3>1. Empty.kind # "whole" /\ path \notin TestPaths
      BY DEF Empty
    <3> HIDE DEF Empty
    <3> QED
      BY <2>5, <3>1, OneChanged
  <2>7. LeavesOthers(c)
    BY <1>3, WritersLeave
  <2>8. Place(c) \notin {Plain("free"), Plain("build"), Plain("discover"), Plain("copytree"),
                         OnTests("replace"), OnTests("unlink")}
    BY <2>3 DEF Plain, OnTests, OnConfig
  <2>9. Target(c)' = Target(c)
    BY <2>7 DEF LeavesOthers, Target
  <2> QED
    BY <1>1, <2>1, <2>5, <2>6, <2>7, <2>8, <2>9, QuietGoing
<1> QED
  BY <1>2, <1>3

LEMMA WriteTests ==
  ASSUME IInv, TestsInv, NEW c \in Clients, Write(c)
  PROVE  TestsInv'
<1>1. Busy(c) /\ Place(c)[1] = "write"
  BY StageTells DEF Write, At, IInv
<1>2. PICK p \in Names : p = Target(c)
  BY <1>1, TargetIsName DEF IInv
<1>3. job[c].do \in Does /\ Place(c) \in StagesOf(job[c].do) /\ Stem(c) = Place(c)[2]
  BY <1>1, StageTells DEF IInv
<1>4. Place(c) = OnConfig("write") \/ Place(c) = OnTests("write")
  BY <1>1, <1>3, WhoIsAt
<1>5. LeavesOthers(c) /\ GoOn(c) /\ got' = got
  BY WriteLeaves DEF Write
<1>6. PICK kind \in {"whole", "mixed"} :
        disk' = IF fd[c] = NULL THEN disk
                ELSE [disk EXCEPT ![fd[c][1]][fd[c][2]] = [kind |-> kind, holds |-> got[c][Stem(c)]]]
  BY DEF Write
<1>7. DistinctIds(p)' /\ TestFiles(p)' \subseteq TestFiles(p)
  <2>1. CASE fd[c] = NULL
    BY <1>6, <2>1, SameTestsMeans DEF SameTests
  <2>2. CASE fd[c] # NULL
    <3> DEFINE path == fd[c][2]
               entry == [kind |-> kind, holds |-> got[c][Stem(c)]]
    <3>1. fd[c][1] = p /\ path \in There(p) /\ path \in FilesOf(Stem(c)) /\ path \in Paths
      BY <1>1, <1>2, <1>3, <2>2 DEF IInv, FilesOK, There
    <3>2. path \in FilesOf("tests") => IsInjective(entry.holds)
      <4>1. CASE Place(c) = OnConfig("write")
        <5>1. Stem(c) = "config"
          BY <1>3, <4>1 DEF OnConfig
        <5> QED
          BY <3>1, <5>1, Kinds
      <4>2. CASE Place(c) = OnTests("write")
        <5>1. Stem(c) = "tests" /\ HasTests(c)
          BY <1>3, <4>2 DEF OnTests, HasTests, SaveTests
        <5>2. IsInjective(got[c].tests)
          BY <5>1 DEF TestsInv, CarriesTests
        <5> QED
          BY <5>1, <5>2
      <4> QED
        BY <1>4, <4>1, <4>2
    <3>3. disk' = [disk EXCEPT ![p][path] = entry]
      BY <1>6, <2>2, <3>1
    <3> HIDE DEF entry, path
    <3> QED
      BY <3>1, <3>2, <3>3, OneChanged
  <2> QED
    BY <2>1, <2>2
<1>8. Place(c) \notin {Plain("free"), Plain("build"), Plain("discover"), Plain("copytree"),
                       OnTests("replace"), OnTests("unlink")}
  BY <1>4 DEF Plain, OnTests, OnConfig
<1>9. Target(c)' = Target(c)
  BY <1>5 DEF LeavesOthers, Target
<1> QED
  BY <1>1, <1>2, <1>5, <1>7, <1>8, <1>9, QuietGoing

LEMMA ReplaceTests ==
  ASSUME IInv, TestsInv, NEW c \in Clients, Replace(c)
  PROVE  TestsInv'
<1>1. Busy(c) /\ Place(c)[1] = "replace"
  BY StageTells DEF Replace, At, IInv
<1>2. CASE Stop(c)
  BY <1>1, <1>2, StopTests
<1>3. CASE ~Stop(c)
  <2>1. PICK p \in Names : p = Target(c)
    BY <1>1, TargetIsName DEF IInv
  <2>2. job[c].do \in Does /\ Place(c) \in StagesOf(job[c].do) /\ Stem(c) = Place(c)[2]
    BY <1>1, StageTells DEF IInv
  <2>3. Place(c) = OnConfig("replace") \/ Place(c) = OnTests("replace")
    BY <1>1, <2>2, WhoIsAt
  <2>4. LeavesOthers(c) /\ GoOn(c) /\ got' = got
    BY <1>3, WritersLeave DEF Replace
  <2>5. Target(c)' = Target(c)
    BY <2>4 DEF LeavesOthers, Target
  <2> DEFINE tmp == TmpOf(Stem(c))
             path == YamlOf[Stem(c)]
  <2>6. /\ disk' = [disk EXCEPT ![p] = [[@ EXCEPT ![tmp] = Absent] EXCEPT ![path] = disk[p][tmp]]]
        /\ causes' = [causes EXCEPT ![p] = @ \cup
              (IF Stem(c) = "tests" /\ There(p) \cap OtherTests # {} THEN {"beside"} ELSE {})]
    BY <1>3, <2>1 DEF Replace
  <2>7. \A other \in Paths : disk'[p][other] = IF other = path THEN disk[p][tmp]
                                               ELSE IF other = tmp THEN Absent ELSE disk[p][other]
    <3> HIDE DEF tmp, path
    <3> QED
      BY <2>6 DEF IInv, Shape
  <2>8. CASE Place(c) = OnConfig("replace")
    <3>1. tmp = "config.tmp" /\ path = "config.yaml"
      BY <2>2, <2>8 DEF OnConfig, TmpOf, YamlOf
    <3> HIDE DEF tmp, path
    <3>2. SameTests(p)
      <4>1. {"config.tmp", "config.yaml"} \cap FilesOf("tests") = {} /\ FilesOf("tests") \subseteq Paths
        BY DEF FilesOf, TestPaths, Paths
      <4> QED
        BY <2>7, <3>1, <4>1 DEF SameTests
    <3>3. DistinctIds(p)' /\ TestFiles(p)' \subseteq TestFiles(p)
      BY <3>2, SameTestsMeans
    <3>4. Place(c) \notin {Plain("free"), Plain("build"), Plain("discover"), Plain("copytree"),
                           OnTests("replace"), OnTests("unlink")}
      BY <2>8 DEF Plain, OnTests, OnConfig
    <3> QED
      BY <1>1, <2>1, <2>4, <2>5, <3>3, <3>4, QuietGoing
  <2>9. CASE Place(c) = OnTests("replace")
    <3>1. Stem(c) = "tests" /\ tmp = "tests.tmp" /\ path = "tests.yaml"
      BY <2>2, <2>9 DEF OnTests, TmpOf, YamlOf
    <3> HIDE DEF tmp, path
    <3>2. /\ {"tests.tmp", "tests.yaml"} \cup OtherTests \subseteq FilesOf("tests")
          /\ FilesOf("tests") \subseteq Paths /\ Absent.kind # "whole"
          /\ "tests.tmp" \notin OtherTests /\ "tests.yaml" \notin OtherTests
      BY DEF FilesOf, OtherTests, YamlOf, TestPaths, Paths, Absent
    <3>3. DistinctIds(p)'
      BY <2>7, <3>1, <3>2 DEF TestsInv, DistinctIds
    <3>4. Place(c) \notin {Plain("free"), Plain("build"), Plain("discover")}
      BY <2>9 DEF Plain, OnTests
    <3>5. Place(c)' = After(job[c].do, Place(c)) /\ todo' \in [Clients -> Seq(Steps)] /\ CarriesTests(c)'
      BY <1>1, <2>4, <3>4, GoingOn DEF LeavesOthers
    <3>6. Place(c)' = OnTests("unlink")
      BY <2>2, <2>9, <3>5, AfterEach
    <3>7. Busy(c)'
      BY <3>6 DEF Place, Done, OnTests
    <3>8. OneFile(p)'
      BY <2>1, <2>5, <3>6, <3>7 DEF OneFile
    <3>9. AtUnlink(c)'
      <4>1. SUFFICES ASSUME Tidy(p)' PROVE There(p)' \cap OtherTests = {}
        BY <2>1, <2>5 DEF AtUnlink
      <4>2. "beside" \notin causes'[p]
        BY <4>1 DEF Tidy
      <4>3. There(p) \cap OtherTests = {}
        BY <2>6, <3>1, <4>2 DEF IInv, Shape
      <4>4. \A other \in OtherTests : disk'[p][other] = disk[p][other]
        BY <2>7, <3>1, <3>2
      <4> QED
        BY <4>3, <4>4, <3>2 DEF There
    <3>10. CopiesOne(c)'
      <4>1. OnTests("unlink") # Plain("copy")
        BY DEF OnTests, Plain
      <4> QED
        BY <3>6, <4>1 DEF CopiesOne
    <3> QED
      BY <1>1, <2>1, <2>4, <2>5, <3>3, <3>5, <3>8, <3>9, <3>10, TestsSuffice
  <2> QED
    BY <2>3, <2>8, <2>9
<1> QED
  BY <1>2, <1>3

LEMMA UnlinkTests ==
  ASSUME IInv, TestsInv, NEW c \in Clients, Unlink(c)
  PROVE  TestsInv'
<1>1. Busy(c) /\ Place(c)[1] = "unlink"
  BY StageTells DEF Unlink, At, IInv
<1>2. PICK p \in Names : p = Target(c)
  BY <1>1, TargetIsName DEF IInv
<1>3. job[c].do \in Does /\ Place(c) \in StagesOf(job[c].do) /\ Stem(c) = Place(c)[2]
  BY <1>1, StageTells DEF IInv
<1>4. Place(c) = OnConfig("unlink") \/ Place(c) = OnTests("unlink")
  BY <1>1, <1>3, WhoIsAt
<1>5. GoOn(c) /\ got' = got /\ job' = job /\ left' = left /\ causes' = causes
  BY DEF Unlink, history
<1>6. disk' = [disk EXCEPT ![p][JsonOf[Stem(c)]] = Absent]
  BY <1>2 DEF Unlink
<1>7. LeavesOthers(c)
  BY <1>5, <1>6, <1>2 DEF LeavesOthers, GoOn, IInv, Shape
<1>8. PICK other \in Paths : other = JsonOf[Stem(c)]
  BY <1>3, <1>4 DEF JsonOf, Paths, ConfigPaths, TestPaths, OnConfig, OnTests
<1>9. /\ DistinctIds(p)' /\ TestFiles(p)' \subseteq TestFiles(p)
      /\ \A file \in Paths : disk'[p][file] = IF file = other THEN Absent ELSE disk[p][file]
  <2>1. Absent.kind = "absent" /\ Absent.kind # "whole"
    BY DEF Absent
  <2>2. PICK gone : gone = Absent
    OBVIOUS
  <2>3. disk' = [disk EXCEPT ![p][other] = gone] /\ gone.kind = "absent" /\ gone.kind # "whole"
    BY <1>6, <1>8, <2>1, <2>2
  <2>4. DistinctIds(p)' /\ TestFiles(p)' \subseteq TestFiles(p)
    BY <2>3, OneChanged
  <2>5. \A file \in Paths : disk'[p][file] = IF file = other THEN gone ELSE disk[p][file]
    BY <2>3 DEF IInv, Shape
  <2> QED
    BY <2>2, <2>4, <2>5
<1>10. Target(c)' = Target(c)
  BY <1>5 DEF Target
<1>11. CASE Place(c) = OnConfig("unlink")
  <2>1. Place(c) \notin {Plain("free"), Plain("build"), Plain("discover"), Plain("copytree"),
                         OnTests("replace"), OnTests("unlink")}
    BY <1>11 DEF Plain, OnTests, OnConfig
  <2> QED
    BY <1>1, <1>2, <1>5, <1>7, <1>9, <1>10, <2>1, QuietGoing
<1>12. CASE Place(c) = OnTests("unlink")
  <2>1. other = "tests.json"
    BY <1>3, <1>8, <1>12 DEF OnTests, JsonOf
  <2>2. Place(c) \notin {Plain("free"), Plain("build"), Plain("discover")}
    BY <1>12 DEF Plain, OnTests
  <2>3. Place(c)' = After(job[c].do, Place(c)) /\ todo' \in [Clients -> Seq(Steps)] /\ CarriesTests(c)'
    BY <1>1, <1>5, <2>2, GoingOn
  <2>4. Place(c)' = Done
    BY <1>3, <1>12, <2>3, AfterEach
  <2>5. OneFile(p)'
    <3>1. SUFFICES ASSUME Tidy(p)' PROVE OneAtMost(TestFiles(p))'
      BY DEF OneFile
    <3>2. Tidy(p)
      BY <1>5, <3>1 DEF Tidy
    <3>3. There(p) \cap OtherTests = {}
      BY <1>2, <1>12, <3>2 DEF TestsInv, AtUnlink
    <3>4. There(p)' \cap OtherTests = {} /\ "tests.json" \notin There(p)'
      <4>1. OtherTests \cup {"tests.json"} \subseteq Paths
        BY DEF Paths, TestPaths, OtherTests
      <4>2. disk'[p]["tests.json"].kind = "absent"
        BY <1>9, <2>1, <4>1 DEF Absent
      <4>3. There(p)' \subseteq There(p)
        BY <1>9 DEF There, Absent
      <4> QED
        BY <3>3, <4>2, <4>3 DEF There
    <3>5. TestFiles(p)' \subseteq {"tests.yaml"}
      BY <3>4 DEF TestFiles, OtherTests, YamlOf, JsonOf
    <3> QED
      BY <3>5 DEF OneAtMost
  <2>6. AtUnlink(c)' /\ CopiesOne(c)'
    <3>1. Done # Plain("copy") /\ Done # OnTests("unlink")
      BY DEF Done, Plain, OnTests
    <3> QED
      BY <2>4, <3>1 DEF AtUnlink, CopiesOne
  <2> QED
    BY <1>1, <1>2, <1>7, <1>9, <2>3, <2>5, <2>6, TestsSuffice
<1> QED
  BY <1>4, <1>11, <1>12

LEMMA CopyTreeTests ==
  ASSUME IInv, TestsInv, NEW c \in Clients, CopyTree(c)
  PROVE  TestsInv'
<1>1. Busy(c) /\ Place(c)[1] = "copytree"
  BY StageTells DEF CopyTree, At, IInv
<1>2. CASE Stop(c)
  BY <1>1, <1>2, StopTests
<1>3. CASE ~Stop(c)
  <2>1. PICK p \in Names : p = Target(c)
    BY <1>1, TargetIsName DEF IInv
  <2>2. PICK from \in Names : from = job[c].on
    BY <1>1, TargetIsName DEF IInv
  <2>3. job[c].do = "duplicate" /\ Place(c) = Plain("copytree") /\ p # from
    <3>1. job[c].do \in Does /\ Place(c) \in StagesOf(job[c].do)
      BY <1>1, StageTells DEF IInv
    <3>2. job[c].do = "duplicate" /\ Place(c) = Plain("copytree")
      BY <1>1, <3>1, WhoIsAt
    <3> QED
      BY <1>1, <2>1, <2>2, <3>2 DEF IInv, TodoOK, Target
  <2>4. /\ p \notin folder /\ left' = [left EXCEPT ![c] = Copied(from)]
        /\ causes' = [causes EXCEPT ![p] =
                @ \cup (causes[from] \cap {"left", "beside", "copied"})
                  \cup (IF "overlap" \in causes[from] THEN {"copied"} ELSE {})]
        /\ GoOn(c) /\ got' = got
    BY <1>3, <2>1, <2>2 DEF CopyTree
  <2>5. LeavesOthers(c) /\ disk' = disk
    BY <1>3, CopiersLeave
  <2>6. Target(c)' = Target(c) /\ job' = job
    BY <2>5 DEF LeavesOthers, Target
  <2>7. There(p) = {}
    BY <2>4 DEF IInv, FilesOK
  <2>8. DistinctIds(p)' /\ TestFiles(p)' = {}
    <3>1. DistinctIds(p)' /\ TestFiles(p)' = TestFiles(p)
      BY <2>5, SameTestsMeans DEF SameTests
    <3> QED
      BY <2>7, <3>1 DEF TestFiles
  <2>9. OneFile(p)'
    BY <2>8 DEF OneFile, OneAtMost
  <2>10. Place(c)' = Plain("copy") /\ todo' \in [Clients -> Seq(Steps)] /\ CarriesTests(c)'
    <3>1. Place(c) \notin {Plain("free"), Plain("build"), Plain("discover")}
      BY <2>3 DEF Plain
    <3>2. Place(c)' = After(job[c].do, Place(c)) /\ todo' \in [Clients -> Seq(Steps)] /\ CarriesTests(c)'
      BY <1>1, <2>4, <2>6, <3>1, GoingOn
    <3>3. After(job[c].do, Plain("copytree")) = Plain("copy")
      BY <2>3, AfterEach DEF Does
    <3> QED
      BY <2>3, <3>2, <3>3
  <2>11. AtUnlink(c)'
    <3>1. Plain("copy") # OnTests("unlink")
      BY DEF Plain, OnTests
    <3> QED
      BY <2>10, <3>1 DEF AtUnlink
  <2>12. CopiesOne(c)'
    <3>1. SUFFICES ASSUME Tidy(p)' PROVE OneAtMost(TestPaths \cap (There(p)' \cup left'[c]))
      BY <2>1, <2>6 DEF CopiesOne, OneAtMost
    <3>2. Tidy(from)
      <4>1. causes'[p] = causes[p] \cup (causes[from] \cap {"left", "beside", "copied"})
                                  \cup (IF "overlap" \in causes[from] THEN {"copied"} ELSE {})
        BY <2>4 DEF IInv, Shape
      <4>2. causes'[p] \cap {"left", "beside", "overlap", "copied"} = {}
        BY <3>1 DEF Tidy
      <4>3. "overlap" \notin causes[from]
        BY <4>1, <4>2
      <4> QED
        BY <4>1, <4>2, <4>3 DEF Tidy
    <3>3. ~ \E d \in Clients : Busy(d) /\ Target(d) = from /\ Place(d) = OnTests("unlink")
      <4> SUFFICES ASSUME NEW d \in Clients, Busy(d), Target(d) = from, Place(d) = OnTests("unlink")
                   PROVE  FALSE
        OBVIOUS
      <4>1. d # c
        BY <2>1, <2>3
      <4>2. "overlap" \in causes[from]
        BY <1>1, <2>2, <4>1 DEF TestsInv, MeetingsOverlap, Touched, Target
      <4> QED
        BY <3>2, <4>2 DEF Tidy
    <3>4. OneAtMost(TestFiles(from))
      BY <3>2, <3>3 DEF TestsInv, OneFile
    <3>5. There(p)' = {} /\ left'[c] \subseteq There(from)
      BY <2>4, <2>5, <2>7 DEF There, Copied, IInv, Shape
    <3> QED
      BY <3>4, <3>5 DEF OneAtMost, TestFiles
  <2> QED
    BY <1>1, <2>1, <2>5, <2>8, <2>9, <2>10, <2>11, <2>12, TestsSuffice
<1> QED
  BY <1>2, <1>3

LEMMA CopyTests ==
  ASSUME IInv, TestsInv, NEW c \in Clients, Copy(c)
  PROVE  TestsInv'
<1>1. Busy(c) /\ Place(c)[1] = "copy"
  BY StageTells DEF Copy, At, IInv
<1>2. CASE Stop(c)
  BY <1>1, <1>2, StopTests
<1>3. CASE ~Stop(c)
  <2>1. PICK p \in Names : p = Target(c)
    BY <1>1, TargetIsName DEF IInv
  <2>2. PICK from \in Names : from = job[c].on
    BY <1>1, TargetIsName DEF IInv
  <2>3. Place(c) = Plain("copy")
    BY <1>1, StageTells, WhoIsAt DEF IInv
  <2>4. LeavesOthers(c)
    BY <1>3, MoversLeave
  <2>5. Target(c)' = Target(c) /\ job' = job
    BY <2>4 DEF LeavesOthers, Target
  <2>6. CASE left[c] = {}
    <3>1. GoOn(c) /\ got' = got /\ disk' = disk
      BY <1>3, <2>6 DEF Copy
    <3>2. DistinctIds(p)' /\ TestFiles(p)' \subseteq TestFiles(p)
      BY <3>1, SameTestsMeans DEF SameTests
    <3>3. Place(c) \notin {Plain("free"), Plain("build"), Plain("discover"), Plain("copytree"),
                           OnTests("replace"), OnTests("unlink")}
      BY <2>3 DEF Plain, OnTests
    <3> QED
      BY <1>1, <2>1, <2>4, <2>5, <3>1, <3>2, <3>3, QuietGoing
  <2>7. CASE left[c] # {}
    <3>1. PICK path \in left[c] :
            /\ left' = [left EXCEPT ![c] = @ \ {path}] /\ todo' = todo
            /\ disk' = disk \/ (disk[from][path].kind # "absent" /\
                                disk' = [disk EXCEPT ![p][path] = disk[from][path]])
      BY <1>3, <2>1, <2>2, <2>7 DEF Copy
    <3>2. path \in Paths
      BY <2>3 DEF IInv, HoldsOK
    <3>3. Place(c)' = Plain("copy") /\ todo' \in [Clients -> Seq(Steps)]
      BY <2>3, <3>1 DEF Place, Busy, IInv, Shape
    <3>4. DistinctIds(p)' /\ There(p)' \subseteq There(p) \cup {path}
      <4>1. CASE disk' = disk
        BY <4>1 DEF TestsInv, DistinctIds, There
      <4>2. CASE disk' = [disk EXCEPT ![p][path] = disk[from][path]]
        <5>1. PICK entry : entry = disk[from][path]
          OBVIOUS
        <5>2. path \in FilesOf("tests") /\ entry.kind = "whole" => IsInjective(entry.holds)
          BY <5>1 DEF TestsInv, DistinctIds
        <5>3. disk' = [disk EXCEPT ![p][path] = entry]
          BY <4>2, <5>1
        <5>4. DistinctIds(p)'
          BY <3>2, <5>2, <5>3, OneChanged
        <5>5. \A other \in Paths : disk'[p][other] = IF other = path THEN entry ELSE disk[p][other]
          BY <3>2, <5>3 DEF IInv, Shape
        <5> QED
          BY <5>4, <5>5 DEF There
      <4> QED
        BY <3>1, <4>1, <4>2
    <3>5. There(p)' \cup left'[c] \subseteq There(p) \cup left[c]
      BY <3>1, <3>4 DEF IInv, Shape
    <3>6. Tidy(p)' => OneAtMost(TestPaths \cap (There(p)' \cup left'[c]))
      <4> SUFFICES ASSUME Tidy(p)' PROVE OneAtMost(TestPaths \cap (There(p)' \cup left'[c]))
        OBVIOUS
      <4>1. Tidy(p)
        BY <2>4 DEF LeavesOthers, Tidy
      <4>2. OneAtMost(TestPaths \cap (There(p) \cup left[c]))
        BY <2>1, <2>3, <4>1 DEF TestsInv, CopiesOne
      <4> QED
        BY <3>5, <4>2 DEF OneAtMost
    <3>7. OneFile(p)'
      BY <3>6 DEF OneFile, OneAtMost, TestFiles
    <3>8. CopiesOne(c)'
      BY <2>1, <2>5, <3>6 DEF CopiesOne, OneAtMost
    <3>9. CarriesTests(c)' /\ AtUnlink(c)'
      <4>1. /\ Plain("copy") \notin {OnTests("unlink"), Plain("mkdir"), Plain("build")}
            /\ Plain("copy") \notin SaveTests \cup SaveConfig
        BY DEF Plain, OnTests, OnConfig, SaveTests, SaveConfig
      <4> QED
        BY <3>3, <4>1 DEF CarriesTests, HasTests, AtUnlink
    <3> QED
      BY <1>1, <2>1, <2>4, <3>3, <3>4, <3>7, <3>8, <3>9, TestsSuffice
  <2> QED
    BY <2>6, <2>7
<1> QED
  BY <1>2, <1>3

LEMMA DeletersTest ==
  ASSUME IInv, TestsInv, NEW c \in Clients, Confirm(c) \/ List(c) \/ Erase(c)
  PROVE  TestsInv'
<1>1. Busy(c) /\ Place(c)[1] \in {"confirm", "list", "remove"}
  BY StageTells DEF Confirm, List, Erase, At, IInv
<1>2. CASE Stop(c)
  BY <1>1, <1>2, StopTests
<1>3. CASE ~Stop(c)
  <2>1. PICK p \in Names : p = Target(c)
    BY <1>1, TargetIsName DEF IInv
  <2>2. LeavesOthers(c)
    BY <1>3, CopiersLeave, MoversLeave
  <2>3. job[c].do \in Does /\ Place(c) \in StagesOf(job[c].do)
    BY <1>1, StageTells DEF IInv
  <2>4. Place(c) \in {Plain("confirm"), Plain("list"), Plain("remove")}
    BY <1>1, <2>3, WhoIsAt
  <2>5. Place(c)' \in {Plain("list"), Plain("remove"), Done} /\ todo' \in [Clients -> Seq(Steps)]
    <3>1. CASE GoOn(c)
      <4>1. Place(c)' = After(job[c].do, Place(c)) /\ todo' \in [Clients -> Seq(Steps)]
        BY <1>1, <2>2, <3>1, GoOnAdvances DEF IInv, Advances, LeavesOthers
      <4> QED
        BY <2>3, <2>4, <4>1, AfterEach
    <3>2. CASE Leave(c)
      BY <2>2, <3>2, LeaveAdvances DEF IInv, Advances, LeavesOthers
    <3>3. CASE todo' = todo /\ Erase(c)
      <4>1. Place(c)[1] = "remove"
        BY <1>1, <3>3, StageTells DEF Erase, At, IInv
      <4>2. Place(c) = Plain("remove")
        BY <2>3, <4>1, WhoIsAt
      <4> QED
        BY <3>3, <4>2 DEF Place, Busy, IInv, Shape
    <3> QED
      BY <1>3, <3>1, <3>2, <3>3 DEF Confirm, List, Erase
  <2>6. DistinctIds(p)' /\ TestFiles(p)' \subseteq TestFiles(p)
    <3>1. CASE disk' = disk
      BY <3>1, SameTestsMeans DEF SameTests
    <3>2. CASE Erase(c) /\ disk' # disk
      <4>1. PICK path \in left[c] : disk' = [disk EXCEPT ![p][path] = Absent]
        BY <1>3, <2>1, <3>2 DEF Erase
      <4>2. path \in Paths
        <5>1. Place(c)[1] = "remove"
          BY <1>1, <3>2, StageTells DEF Erase, At, IInv
        <5>2. Place(c) = Plain("remove")
          BY <2>3, <5>1, WhoIsAt
        <5> QED
          BY <5>2 DEF IInv, HoldsOK
      <4>3. PICK gone : gone = Absent
        OBVIOUS
      <4>4. disk' = [disk EXCEPT ![p][path] = gone] /\ gone.kind = "absent" /\ gone.kind # "whole"
        BY <4>1, <4>3 DEF Absent
      <4> QED
        BY <4>2, <4>4, OneChanged
    <3> QED
      BY <1>3, <3>1, <3>2 DEF Confirm, List
  <2>7. /\ Place(c) # OnTests("unlink") /\ Place(c)' \notin {OnTests("unlink"), Plain("copy")}
        /\ CarriesTests(c)'
    <3>1. Place(c) # OnTests("unlink")
      BY <2>4 DEF Plain, OnTests
    <3>2. {Plain("list"), Plain("remove"), Done} \cap
             ({OnTests("unlink"), Plain("copy"), Plain("mkdir"), Plain("build")} \cup SaveTests \cup SaveConfig) = {}
      BY DEF Plain, OnTests, OnConfig, SaveTests, SaveConfig, Done
    <3> QED
      BY <2>5, <3>1, <3>2 DEF CarriesTests, HasTests
  <2> QED
    BY <1>1, <2>1, <2>2, <2>5, <2>6, <2>7, QuietTests
<1> QED
  BY <1>2, <1>3

LEMMA RunnersTest ==
  ASSUME IInv, TestsInv, NEW c \in Clients, Start(c) \/ Finish(c) \/ Drop(c) \/ Compare(c)
  PROVE  TestsInv'
<1>1. Busy(c) /\ Place(c)[1] \in {"start", "finish", "drop", "compare"}
  BY StageTells DEF Start, Finish, Drop, Compare, At, IInv
<1>2. CASE Stop(c)
  BY <1>1, <1>2, StopTests
<1>3. CASE ~Stop(c)
  <2>1. PICK p \in Names : p = Target(c)
    BY <1>1, TargetIsName DEF IInv
  <2>2. LeavesOthers(c) /\ GoOn(c) /\ got' = got
    BY <1>3, RunnersLeave DEF Start, Finish, Drop, Compare
  <2>3. job[c].do \in Does /\ Place(c) \in StagesOf(job[c].do)
    BY <1>1, StageTells DEF IInv
  <2>4. Place(c) \in {Plain("start"), Plain("finish"), Plain("drop"), Plain("compare")}
    BY <1>1, <2>3, WhoIsAt
  <2>5. Target(c)' = Target(c)
    BY <2>2 DEF LeavesOthers, Target
  <2>6. SameTests(p)
    <3>1. CASE disk' = disk
      BY <3>1 DEF SameTests
    <3>2. CASE Start(c) \/ Compare(c)
      <4>1. Place(c)[1] \in {"start", "compare"}
        BY <1>1, <3>2, StageTells DEF Start, Compare, At, IInv
      <4>2. Place(c) \in HasConfig
        BY <2>3, <4>1, WhoIsAt DEF HasConfig
      <4>3. got[c].config.output \in Places
        BY <4>2 DEF IInv, HoldsOK, Configs
      <4>4. disk' = [disk EXCEPT ![p][got[c].config.output] = Whole(NULL)]
        BY <1>3, <2>1, <3>2 DEF Start, Compare
      <4> QED
        BY <4>3, <4>4, Kinds DEF SameTests, IInv, Shape
    <3> QED
      BY <1>3, <3>1, <3>2 DEF Finish, Drop
  <2>7. DistinctIds(p)' /\ TestFiles(p)' \subseteq TestFiles(p)
    BY <2>6, SameTestsMeans
  <2>8. Place(c) \notin {Plain("free"), Plain("build"), Plain("discover"), Plain("copytree"),
                         OnTests("replace"), OnTests("unlink")}
    BY <2>4 DEF Plain, OnTests
  <2> QED
    BY <1>1, <2>1, <2>2, <2>5, <2>7, <2>8, QuietGoing
<1> QED
  BY <1>2, <1>3

LEMMA BeginTests ==
  ASSUME IInv, TestsInv, NEW c \in Clients, Begin(c)
  PROVE  TestsInv'
<1>1. PICK j \in NextJobs :
        /\ job' = [job EXCEPT ![c] = j]
        /\ todo' = [todo EXCEPT ![c] = Stages(j.do)]
        /\ causes' = [p \in Names |->
              IF \E d \in Clients \ {c} :
                    /\ Busy(d)
                    /\ Touched(j) \cap Touched(job[d]) # {}
                    /\ p \in Touched(j) \cup Touched(job[d])
              THEN causes[p] \cup {"overlap"} ELSE causes[p]]
  BY DEF Begin
<1>2. /\ ~Busy(c) /\ got' = [got EXCEPT ![c] = NULL] /\ left' = [left EXCEPT ![c] = {}] /\ disk' = disk
  BY DEF Begin
<1>3. j.do \in Does /\ Touched(j) \subseteq Names
  <2>1. DOMAIN Says = Does
    BY DEF Says, Does
  <2>2. j.do \in DOMAIN Says /\ j.on \in Names /\ j.to \in Names
    BY DEF NextJobs, Jobs
  <2> QED
    BY <2>1, <2>2 DEF Touched
<1>4. Stages(j.do) \in Seq(Steps) /\ Stages(j.do) # <<>> /\ Stages(j.do)[1] = First(j.do)
  BY <1>3, StagesChain
<1>5. /\ job'[c] = j /\ todo'[c] = Stages(j.do)
      /\ \A d \in Clients : d # c => /\ job'[d] = job[d] /\ todo'[d] = todo[d]
                                    /\ got'[d] = got[d] /\ left'[d] = left[d]
  BY <1>1, <1>2 DEF IInv, Shape
<1>6. /\ Place(c)' = First(j.do)
      /\ \A d \in Clients : d # c => /\ (Busy(d)' <=> Busy(d)) /\ Place(d)' = Place(d) /\ Target(d)' = Target(d)
  BY <1>4, <1>5 DEF Place, Busy, Target
<1>7. \A p \in Names : causes[p] \subseteq causes'[p] /\ (Tidy(p)' => Tidy(p))
  BY <1>1 DEF Tidy
<1>8. MeetingsOverlap'
  <2> SUFFICES ASSUME NEW a \in Clients, NEW b \in Clients, a # b, Busy(a)', Busy(b)',
                      (Touched(job[a]) \cap Touched(job[b]) # {})', NEW q \in (Touched(job[a]) \cup Touched(job[b]))'
               PROVE  "overlap" \in causes'[q]
    BY DEF MeetingsOverlap
  <2>1. Touched(job[a])' = Touched(job'[a]) /\ Touched(job[b])' = Touched(job'[b])
    BY DEF Touched
  <2>2. ASSUME NEW d \in Clients, d # c, Busy(d) PROVE Touched(job[d]) \subseteq Names
    BY <2>2, TargetIsName DEF IInv, Touched, Target
  <2>3. CASE a # c /\ b # c
    <3>1. Busy(a) /\ Busy(b) /\ Touched(job[a])' = Touched(job[a]) /\ Touched(job[b])' = Touched(job[b])
      BY <1>5, <1>6, <2>1, <2>3
    <3>2. "overlap" \in causes[q]
      BY <3>1 DEF TestsInv, MeetingsOverlap
    <3> QED
      BY <1>7, <2>2, <2>3, <3>1, <3>2
  <2>4. CASE a = c
    <3>1. b # c /\ Busy(b) /\ Touched(job[a])' = Touched(j) /\ Touched(job[b])' = Touched(job[b])
      BY <1>5, <1>6, <2>1, <2>4
    <3>2. q \in Names
      BY <1>3, <2>2, <3>1
    <3> QED
      BY <1>1, <3>1, <3>2
  <2>5. CASE b = c
    <3>1. a # c /\ Busy(a) /\ Touched(job[b])' = Touched(j) /\ Touched(job[a])' = Touched(job[a])
      BY <1>5, <1>6, <2>1, <2>5
    <3>2. q \in Names
      BY <1>3, <2>2, <3>1
    <3> QED
      BY <1>1, <3>1, <3>2
  <2> QED
    BY <2>3, <2>4, <2>5
<1>9. ASSUME NEW p \in Names
      PROVE  DistinctIds(p)' /\ OneFile(p)'
  <2>1. DistinctIds(p)' /\ TestFiles(p)' = TestFiles(p)
    BY <1>2, SameTestsMeans DEF SameTests
  <2>2. OneFile(p)'
    <3>1. SUFFICES ASSUME Tidy(p)', ~OneAtMost(TestFiles(p))
                   PROVE  \E d \in Clients : (Busy(d) /\ Target(d) = p /\ Place(d) = OnTests("unlink"))'
      BY <2>1 DEF OneFile, OneAtMost
    <3>2. PICK d \in Clients : Busy(d) /\ Target(d) = p /\ Place(d) = OnTests("unlink")
      BY <1>7, <3>1 DEF TestsInv, OneFile
    <3> QED
      BY <1>2, <1>6, <3>2
  <2> QED
    BY <2>1, <2>2
<1>10. CarriesTests(c)' /\ AtUnlink(c)' /\ CopiesOne(c)'
  <2>1. First(j.do) \in {Plain("free"), Plain("load"), Plain("read"), Plain("source"), Plain("confirm"), Plain("drop")}
    BY <1>3 DEF First, Does
  <2>2. {Plain("free"), Plain("load"), Plain("read"), Plain("source"), Plain("confirm"), Plain("drop")} \cap
           ({OnTests("unlink"), Plain("copy"), Plain("mkdir"), Plain("build")} \cup SaveTests \cup SaveConfig) = {}
    BY DEF Plain, OnTests, OnConfig, SaveTests, SaveConfig
  <2> QED
    BY <1>6, <2>1, <2>2 DEF CarriesTests, HasTests, AtUnlink, CopiesOne
<1>11. ASSUME NEW d \in Clients, d # c
       PROVE  CarriesTests(d)' /\ AtUnlink(d)' /\ CopiesOne(d)'
  <2>1. /\ Place(d)' = Place(d) /\ got'[d] = got[d] /\ left'[d] = left[d] /\ job'[d] = job[d]
        /\ Target(d)' = Target(d) /\ There(Target(d))' = There(Target(d))
    BY <1>2, <1>5, <1>6, <1>11 DEF There
  <2>2. ASSUME Place(d) # Done, Tidy(Target(d))' PROVE Tidy(Target(d))
    <3>1. Target(d) \in Names
      BY <2>2, TargetIsName DEF Place, IInv
    <3> QED
      BY <1>7, <2>1, <2>2, <3>1 DEF Tidy
  <2>3. OnTests("unlink") # Done /\ Plain("copy") # Done
    BY DEF OnTests, Plain, Done
  <2>4. CarriesTests(d)'
    BY <2>1 DEF TestsInv, CarriesTests, HasTests
  <2>5. AtUnlink(d)'
    BY <2>1, <2>2, <2>3 DEF TestsInv, AtUnlink
  <2>6. CopiesOne(d)'
    BY <2>1, <2>2, <2>3 DEF TestsInv, CopiesOne
  <2> QED
    BY <2>4, <2>5, <2>6
<1> QED
  BY <1>8, <1>9, <1>10, <1>11 DEF TestsInv

LEMMA InitTests == ASSUME Init PROVE TestsInv
<1>1. PICK made \in [Names -> HandMade \cup {NULL}] :
        disk = [p \in Names |->
                     IF made[p] # NULL THEN [path \in Paths |->
                         IF path \in ConfigPaths \cap made[p].paths
                         THEN Whole([values |-> 0, models |-> 0, archived |-> FALSE,
                                     name |-> p, output |-> made[p].output, loads |-> TRUE])
                         ELSE IF path \in made[p].paths
                         THEN Whole(IF path \in Places THEN NULL ELSE <<<<"case", 1>>>>)
                         ELSE Absent]
                     ELSE Nothing]
  BY DEF Init
<1>2. \A c \in Clients : ~Busy(c) /\ Place(c) = Done
  BY DEF Init, Busy, Place
<1>3. ASSUME NEW p \in Names
      PROVE  DistinctIds(p) /\ OneFile(p)
  <2> DEFINE one == <<<<"case", 1>>>>
  <2>1. IsInjective(one)
    <3>1. DOMAIN one = {1}
      OBVIOUS
    <3> QED
      BY <3>1 DEF IsInjective
  <2> HIDE DEF one
  <2>2. CASE made[p] = NULL
    <3>1. \A path \in Paths : disk[p][path] = Absent
      BY <1>1, <2>2 DEF Nothing
    <3> QED
      BY <3>1, Kinds DEF DistinctIds, OneFile, OneAtMost, TestFiles, There, Absent
  <2>3. CASE made[p] # NULL
    <3>1. made[p] \in HandMade
      BY <2>3
    <3>2. /\ made[p].paths \subseteq Paths \ {"config.tmp", "tests.tmp"}
          /\ \A this, other \in made[p].paths \cap TestPaths : this = other
      BY <3>1, FilesAssumption
    <3>3. \A path \in Paths : disk[p][path] = IF path \in ConfigPaths \cap made[p].paths
                         THEN Whole([values |-> 0, models |-> 0, archived |-> FALSE,
                                     name |-> p, output |-> made[p].output, loads |-> TRUE])
                         ELSE IF path \in made[p].paths
                         THEN Whole(IF path \in Places THEN NULL ELSE one)
                         ELSE Absent
      BY <1>1, <2>3 DEF one
    <3>4. \A path \in FilesOf("tests") :
             path \in Paths /\ disk[p][path] = IF path \in made[p].paths THEN Whole(one) ELSE Absent
      BY <3>3, Kinds
    <3>5. DistinctIds(p)
      BY <2>1, <3>4 DEF DistinctIds, Whole, Absent
    <3>6. TestFiles(p) \subseteq made[p].paths \cap TestPaths
      BY <3>4, Kinds DEF TestFiles, There, Absent
    <3> QED
      BY <3>2, <3>5, <3>6 DEF OneFile, OneAtMost
  <2> QED
    BY <2>2, <2>3
<1>4. ASSUME NEW c \in Clients PROVE CarriesTests(c) /\ AtUnlink(c) /\ CopiesOne(c)
  <2>1. Done \notin {OnTests("unlink"), Plain("copy"), Plain("mkdir"), Plain("build")} \cup SaveTests \cup SaveConfig
    BY DEF Done, Plain, OnTests, OnConfig, SaveTests, SaveConfig
  <2> QED
    BY <1>2, <2>1 DEF CarriesTests, HasTests, AtUnlink, CopiesOne
<1>5. MeetingsOverlap
  BY <1>2 DEF MeetingsOverlap
<1> QED
  BY <1>3, <1>4, <1>5 DEF TestsInv

LEMMA StepTests == ASSUME IInv, TestsInv, [Next]_vars PROVE TestsInv'
<1>1. CASE UNCHANGED vars
  <2> USE <1>1 DEF vars, clientVars, history
  <2>1. /\ \A c \in Clients : (Busy(c)' <=> Busy(c)) /\ Place(c)' = Place(c) /\ Target(c)' = Target(c)
        /\ \A p : There(p)' = There(p) /\ (Tidy(p)' <=> Tidy(p)) /\ TestFiles(p)' = TestFiles(p)
    BY DEF Busy, Place, Target, There, Tidy, TestFiles
  <2>2. MeetingsOverlap'
    BY DEF TestsInv, MeetingsOverlap, Busy, Touched
  <2>3. \A p \in Names : DistinctIds(p)' /\ OneFile(p)'
    BY <2>1 DEF TestsInv, DistinctIds, OneFile, OneAtMost
  <2>4. ASSUME NEW c \in Clients PROVE CarriesTests(c)' /\ AtUnlink(c)' /\ CopiesOne(c)'
    <3>1. CarriesTests(c)'
      BY <2>1 DEF TestsInv, CarriesTests, HasTests
    <3>2. AtUnlink(c)' /\ CopiesOne(c)'
      BY <2>1 DEF TestsInv, AtUnlink, CopiesOne, OneAtMost
    <3> QED
      BY <3>1, <3>2
  <2> QED
    BY <2>2, <2>3, <2>4 DEF TestsInv
<1>2. ASSUME NEW c \in Clients, Begin(c) \/ Die(c) \/ Free(c) \/ Source(c) \/ Load(c) \/ Read(c) \/ Discover(c)
      PROVE  TestsInv'
  BY <1>2, BeginTests, StopTests, ReadersTest DEF Die
<1>3. ASSUME NEW c \in Clients,
             Mkdir(c) \/ Build(c) \/ Open(c) \/ Truncate(c) \/ Write(c) \/ Replace(c) \/ Unlink(c)
      PROVE  TestsInv'
  BY <1>3, ReadersTest, OpenTests, WriteTests, ReplaceTests, UnlinkTests
<1>4. ASSUME NEW c \in Clients, CopyTree(c) \/ Copy(c) \/ Confirm(c) \/ List(c) \/ Erase(c)
      PROVE  TestsInv'
  BY <1>4, CopyTreeTests, CopyTests, DeletersTest
<1>5. ASSUME NEW c \in Clients, Start(c) \/ Finish(c) \/ Drop(c) \/ Compare(c)
      PROVE  TestsInv'
  BY <1>5, RunnersTest
<1> QED
  BY <1>1, <1>2, <1>3, <1>4, <1>5 DEF Next

\* Which test files a folder has is known from the stage of the one save or copy that is
\* about it, and what is in them, or will be, has no id twice.
THEOREM TestsInvariance == Spec => []TestsInv
<1>1. Init => TestsInv
  BY InitTests
<1>2. IInv /\ TestsInv /\ [Next]_vars => TestsInv'
  BY StepTests
<1> QED
  BY <1>1, <1>2, Invariance, PTL DEF Spec

\* No two cases of a saved file have one id (_clean_tests), and a project is left with two
\* files of one case only by a save that died before its last stage, by a file in a format that
\* it reads and does not know to take away (_write_structured: .yml, .jsonl, .ndjson), or by
\* operations that met.
THEOREM ExamplesStaySingle == Spec => []ExamplesAreNotDoubled
<1>1. ASSUME IInv, TestsInv, NEW p \in Names
      PROVE  /\ \A path \in TestFiles(p) : disk[p][path].kind = "whole" => IsInjective(disk[p][path].holds)
             /\ Settled(p) /\ Cardinality(TestFiles(p)) > 1 =>
                   causes[p] \cap {"left", "beside", "overlap", "copied"} # {}
  <2>1. \A path \in TestFiles(p) : disk[p][path].kind = "whole" => IsInjective(disk[p][path].holds)
    BY <1>1, Kinds DEF TestsInv, DistinctIds, TestFiles
  <2>2. ASSUME Settled(p), Tidy(p) PROVE ~(Cardinality(TestFiles(p)) > 1)
    <3>1. OneAtMost(TestFiles(p))
      BY <1>1, <2>2 DEF TestsInv, OneFile, Settled, Touched, Target
    <3>2. TestFiles(p) = {} \/ \E path \in TestFiles(p) : TestFiles(p) = {path}
      BY <3>1 DEF OneAtMost
    <3>3. Cardinality(TestFiles(p)) = 0 \/ Cardinality(TestFiles(p)) = 1
      BY <3>2, FS_EmptySet, FS_Singleton
    <3> QED
      BY <3>3
  <2> QED
    BY <2>1, <2>2 DEF Tidy
<1>2. IInv /\ TestsInv => ExamplesAreNotDoubled
  BY <1>1 DEF ExamplesAreNotDoubled
<1> QED
  BY <1>2, Invariance, TestsInvariance, PTL

-----------------------------------------------------------------------------
(* What a tick of watch compares with: a third invariant, of the runs.  The   *)
(* library's sorting is not known to the provers, so that a finite set of     *)
(* numbers can be put in order is proved here.                                *)

\* Any finite set of numbers can be listed from the greatest to the smallest.
LEMMA CanBeSorted ==
  ASSUME NEW S \in SUBSET Nat, IsFiniteSet(S)
  PROVE  \E s \in [1..Cardinality(S) -> S] : \A i, j \in 1..Cardinality(S) : i < j => s[i] > s[j]
<1> DEFINE n == Cardinality(S)
           Sorted(s, k) == \A i, j \in 1..k : i < j => s[i] > s[j]
           good == {k \in 0..n : \A T \in SUBSET S : Cardinality(T) = k => \E s \in [1..k -> T] : Sorted(s, k)}
<1>1. n \in Nat
  BY FS_CardinalityType
<1>2. 0 \in good
  <2>1. ASSUME NEW T \in SUBSET S PROVE \E s \in [1..0 -> T] : Sorted(s, 0)
    <3>1. <<>> \in [1..0 -> T] /\ 1..0 = {}
      OBVIOUS
    <3> QED
      BY <3>1
  <2> HIDE DEF n, Sorted
  <2> QED
    BY <1>1, <2>1
<1>3. ASSUME NEW k \in 1..n, k - 1 \in good PROVE k \in good
  <2> SUFFICES ASSUME NEW T \in SUBSET S, Cardinality(T) = k
               PROVE  \E s \in [1..k -> T] : Sorted(s, k)
    BY <1>1
  <2>1. IsFiniteSet(T) /\ k \in Nat
    <3>1. IsFiniteSet(T)
      BY FS_Subset
    <3> HIDE DEF n
    <3> QED
      BY <1>1, <3>1
  <2>2. T # {}
    BY <2>1, FS_EmptySet
  <2>3. PICK m \in T : \A x \in T : m <= x
    <3> DEFINE lows == {x \in Nat : \E y \in T : y <= x}
    <3>1. PICK y \in T : TRUE
      BY <2>2
    <3>2. y \in Nat /\ T \subseteq Nat
      OBVIOUS
    <3>3. \E x \in 0..y : x \in T /\ \A z \in 0..(x - 1) : z \notin T
      <4> SUFFICES ASSUME \A x \in 0..y : x \in T => \E z \in 0..(x - 1) : z \in T PROVE FALSE
        OBVIOUS
      <4> DEFINE none == {x \in 0..y : \A z \in 0..x : z \notin T}
      <4>1. 0 \in none
        BY <3>2
      <4>2. ASSUME NEW x \in 1..y, x - 1 \in none PROVE x \in none
        <5>1. x \in 0..y /\ 0..x = (0..(x - 1)) \cup {x}
          BY <3>2
        <5> QED
          BY <4>2, <5>1
      <4>3. none = 0..y
        <5> HIDE DEF none
        <5>1. none \in SUBSET (0..y)
          BY DEF none
        <5> QED
          BY <3>2, <4>1, <4>2, <5>1, UpTo
      <4>4. y \in none /\ y \in 0..y
        BY <3>2, <4>3
      <4> QED
        BY <4>4
    <3>4. PICK x \in 0..y : x \in T /\ \A z \in 0..(x - 1) : z \notin T
      BY <3>3
    <3> QED
      BY <3>2, <3>4
  <2>4. Cardinality(T \ {m}) = k - 1 /\ T \ {m} \in SUBSET S
    BY <2>1, FS_RemoveElement
  <2>5. PICK s \in [1..(k - 1) -> T \ {m}] : Sorted(s, k - 1)
    BY <1>3, <2>4
  <2> DEFINE longer == [i \in 1..k |-> IF i = k THEN m ELSE s[i]]
  <2>6. longer \in [1..k -> T]
    <3>1. \A i \in 1..k : i # k => i \in 1..(k - 1)
      BY <2>1
    <3>2. \A i \in 1..k : i # k => s[i] \in T
      BY <3>1
    <3> QED
      BY <3>2
  <2>7. Sorted(longer, k)
    <3> SUFFICES ASSUME NEW i \in 1..k, NEW j \in 1..k, i < j PROVE longer[i] > longer[j]
      OBVIOUS
    <3>1. i \in 1..(k - 1) /\ s[i] \in T \ {m} /\ s[i] \in Nat /\ m \in Nat
      <4>1. i \in 1..(k - 1)
        BY <2>1
      <4>2. s[i] \in T \ {m}
        BY <4>1
      <4> QED
        BY <4>1, <4>2
    <3>2. CASE j = k
      BY <2>1, <2>3, <3>1, <3>2
    <3>3. CASE j # k
      <4>1. j \in 1..(k - 1)
        BY <2>1, <3>3
      <4> QED
        BY <2>1, <2>5, <3>1, <4>1
    <3> QED
      BY <3>2, <3>3
  <2> QED
    BY <2>6, <2>7
<1>4. good = 0..n
  <2>1. good \in SUBSET (0..n)
    OBVIOUS
  <2> HIDE DEF good
  <2> QED
    BY <1>1, <1>2, <1>3, <2>1, UpTo
<1>5. n \in good
  BY <1>1, <1>4
<1> QED
  BY <1>5

\* Newest first is what the list is, and every id is in it once.
LEMMA NewestFirstIs ==
  ASSUME NEW S \in SUBSET Nat, IsFiniteSet(S)
  PROVE  /\ NewestFirst(S) \in [1..Cardinality(S) -> S] /\ Cardinality(S) \in Nat
         /\ \A i, j \in 1..Cardinality(S) : i < j => NewestFirst(S)[i] > NewestFirst(S)[j]
         /\ \A x \in S : \E i \in 1..Cardinality(S) : NewestFirst(S)[i] = x
<1> DEFINE n == Cardinality(S)
           s == NewestFirst(S)
<1>1. n \in Nat
  BY FS_CardinalityType
<1>2. \E t \in [1..n -> S] : \A i, j \in DOMAIN t : i < j => t[i] > t[j]
  <2>1. PICK t \in [1..n -> S] : \A i, j \in 1..n : i < j => t[i] > t[j]
    BY CanBeSorted
  <2>2. DOMAIN t = 1..n
    OBVIOUS
  <2> QED
    BY <2>1, <2>2
<1>3. s \in [1..n -> S] /\ \A i, j \in DOMAIN s : i < j => s[i] > s[j]
  BY <1>2 DEF NewestFirst
<1>4. \A i, j \in 1..n : i < j => s[i] > s[j]
  BY <1>3
<1> HIDE DEF s, n
<1>5. \A i, j \in 1..n : s[i] = s[j] => i = j
  <2> SUFFICES ASSUME NEW i \in 1..n, NEW j \in 1..n, s[i] = s[j], i # j PROVE FALSE
    OBVIOUS
  <2>1. i < j \/ j < i
    BY <1>1
  <2>2. s[i] \in S
    BY <1>3
  <2>3. s[i] \in Nat
    BY <2>2
  <2> QED
    BY <1>4, <2>1, <2>3
<1>6. s \in Injection(1..n, S)
  BY <1>3, <1>5 DEF Injection, IsInjective
<1>7. IsFiniteSet(1..n) /\ Cardinality(1..n) = n
  BY <1>1, FS_Interval
<1>8. s \in Surjection(1..n, S)
  <2>1. Cardinality(1..n) = Cardinality(S)
    BY <1>7 DEF n
  <2> QED
    BY <1>6, <2>1, FS_Injection
<1>9. \A x \in S : \E i \in 1..n : s[i] = x
  BY <1>8 DEF Surjection
<1> QED
  BY <1>1, <1>3, <1>4, <1>9 DEF s, n

\* The newest of the given runs, as many as the history may hold.
NewestFew(ids, limit) == {n \in ids : Cardinality({m \in ids : m > n}) < limit}
FirstFew(rows, limit) == IF Len(rows) <= limit THEN rows ELSE SubSeq(rows, 1, limit)
Older(ids, own)       == {n \in ids : n < own}

\* If the newest of the ranked runs is one's own, the history without its head is
\* the newest of the others.
LEMMA NewestOfTheOthers ==
  ASSUME NEW ranked \in SUBSET Nat, IsFiniteSet(ranked), NEW own \in ranked,
         \A n \in ranked : n <= own, NEW limit \in Nat
  PROVE  ToSet(Prior(FirstFew(NewestFirst(ranked), limit + 1))) = NewestFew(Older(ranked, own), limit)
<1> DEFINE sorted == NewestFirst(ranked)
           rows == FirstFew(sorted, limit + 1)
           earlier == Older(ranked, own)
           k == Cardinality(ranked)
           size == IF k <= limit + 1 THEN k ELSE limit + 1
<1>1. /\ sorted \in [1..k -> ranked] /\ k \in Nat
      /\ \A i, j \in 1..k : i < j => sorted[i] > sorted[j]
      /\ \A x \in ranked : \E i \in 1..k : sorted[i] = x
  BY NewestFirstIs
<1> HIDE DEF k, sorted
<1>2. sorted \in Seq(ranked) /\ Len(sorted) = k
  <2>1. sorted \in Seq(ranked)
    BY <1>1, SeqDef
  <2> QED
    BY <1>1, <2>1, LenProperties
<1>3. k >= 1 /\ sorted[1] = own
  <2>1. PICK i \in 1..k : sorted[i] = own
    BY <1>1
  <2>2. 1 \in 1..k /\ sorted[1] \in ranked /\ own \in Nat /\ sorted[1] \in Nat
    <3>1. 1 \in 1..k
      BY <1>1, <2>1
    <3>2. sorted[1] \in ranked
      BY <1>1, <3>1
    <3> QED
      BY <3>1, <3>2
  <2>3. i # 1 => sorted[1] > own
    BY <1>1, <2>1, <2>2
  <2> QED
    BY <1>1, <2>1, <2>2, <2>3
<1>4. rows \in Seq(ranked) /\ Len(rows) = size /\ \A i \in 1..size : rows[i] = sorted[i]
  <2>1. CASE k <= limit + 1
    BY <1>2, <2>1 DEF FirstFew
  <2>2. CASE ~(k <= limit + 1)
    <3>1. rows = SubSeq(sorted, 1, limit + 1) /\ 1 \in Int /\ limit + 1 \in Int /\ 1 <= limit + 1
      BY <1>2, <2>2 DEF FirstFew
    <3>2. 1 \in 1..(Len(sorted) + 1) /\ limit + 1 \in 0..Len(sorted)
      BY <1>1, <1>2, <2>2
    <3>3. /\ rows \in Seq(ranked) /\ Len(rows) = (limit + 1) - 1 + 1
          /\ \A i \in 1..((limit + 1) - 1 + 1) : rows[i] = sorted[1 + i - 1]
      BY <1>2, <3>1, <3>2, SubSeqProperties
    <3>4. (limit + 1) - 1 + 1 = limit + 1 /\ \A i \in 1..(limit + 1) : 1 + i - 1 = i
      OBVIOUS
    <3> QED
      BY <2>2, <3>3, <3>4
  <2> QED
    BY <2>1, <2>2
<1> HIDE DEF rows
<1>5. size \in Nat /\ size >= 1 /\ size <= k
  BY <1>1, <1>3
<1> HIDE DEF size
<1>6. ToSet(Prior(rows)) = {sorted[i] : i \in 2..size}
  <2>1. rows # <<>>
    BY <1>4, <1>5, EmptySeq
  <2>2. /\ Tail(rows) \in Seq(ranked) /\ Len(Tail(rows)) = size - 1
        /\ \A i \in 1..(size - 1) : Tail(rows)[i] = rows[i + 1]
    <3>1. /\ Tail(rows) \in Seq(ranked) /\ Len(Tail(rows)) = Len(rows) - 1
          /\ \A i \in 1..Len(Tail(rows)) : Tail(rows)[i] = rows[i + 1]
      BY <1>4, <2>1, HeadTailProperties
    <3> QED
      BY <1>4, <3>1
  <2>3. DOMAIN Tail(rows) = 1..(size - 1)
    BY <2>2, LenProperties
  <2>4. ToSet(Tail(rows)) = {Tail(rows)[i] : i \in 1..(size - 1)}
    BY <2>3 DEF ToSet
  <2>5. \A i \in 1..(size - 1) : i + 1 \in 2..size /\ i + 1 \in 1..size /\ Tail(rows)[i] = sorted[i + 1]
    BY <1>4, <1>5, <2>2
  <2>6. \A i \in 2..size : i - 1 \in 1..(size - 1) /\ Tail(rows)[i - 1] = sorted[i]
    <3> TAKE i \in 2..size
    <3>1. i - 1 \in 1..(size - 1) /\ (i - 1) + 1 = i
      BY <1>5
    <3> QED
      BY <2>5, <3>1
  <2>7. {Tail(rows)[i] : i \in 1..(size - 1)} = {sorted[i] : i \in 2..size}
    <3>1. ASSUME NEW i \in 1..(size - 1) PROVE \E j \in 2..size : Tail(rows)[i] = sorted[j]
      BY <2>5
    <3>2. ASSUME NEW j \in 2..size PROVE \E i \in 1..(size - 1) : Tail(rows)[i] = sorted[j]
      BY <2>6
    <3> DEFINE one == {Tail(rows)[i] : i \in 1..(size - 1)}
               other == {sorted[i] : i \in 2..size}
    <3>3. \A x \in one : x \in other
      BY <3>1
    <3>4. \A x \in other : x \in one
      <4> TAKE x \in other
      <4>1. PICK j \in 2..size : x = sorted[j]
        OBVIOUS
      <4>2. PICK i \in 1..(size - 1) : Tail(rows)[i] = sorted[j]
        BY <3>2
      <4> QED
        BY <4>1, <4>2
    <3> HIDE DEF one, other
    <3>5. one = other
      BY <3>3, <3>4
    <3> QED
      BY <3>5 DEF one, other
  <2> QED
    BY <2>1, <2>4, <2>7 DEF Prior
<1>7. \A i \in 2..k : sorted[i] \in earlier
  BY <1>1, <1>3 DEF Older
<1>8. \A x \in earlier : \E i \in 2..k : sorted[i] = x
  <2> TAKE x \in earlier
  <2>1. PICK i \in 1..k : sorted[i] = x
    BY <1>1 DEF Older
  <2>2. i # 1
    BY <1>3, <2>1 DEF Older
  <2> QED
    BY <1>1, <2>1, <2>2
<1>9. earlier \in SUBSET Nat
  BY DEF Older
<1> HIDE DEF earlier
<1>10. ASSUME NEW i \in 2..k
      PROVE  Cardinality({m \in earlier : m > sorted[i]}) = i - 2
  <2> DEFINE newer == {m \in earlier : m > sorted[i]}
             part == [j \in 2..(i - 1) |-> sorted[j]]
  <2>1. i \in 1..k /\ i \in Nat /\ 2..(i - 1) \subseteq 2..k /\ 2..k \subseteq 1..k
    BY <1>1
  <2>2. \A a, b \in 1..k : sorted[a] > sorted[b] => a < b
    <3> SUFFICES ASSUME NEW a \in 1..k, NEW b \in 1..k, sorted[a] > sorted[b], ~(a < b) PROVE FALSE
      OBVIOUS
    <3>1. b < a \/ a = b
      BY <1>1
    <3>2. sorted[a] \in ranked /\ sorted[b] \in ranked
      BY <1>1
    <3>3. sorted[a] \in Nat /\ sorted[b] \in Nat
      BY <3>2
    <3> QED
      BY <1>1, <3>1, <3>3
  <2>3. \A j \in 2..(i - 1) : sorted[j] \in newer
    BY <1>1, <1>7, <2>1
  <2>4. \A m \in newer : \E j \in 2..(i - 1) : sorted[j] = m
    <3> TAKE m \in newer
    <3>1. PICK j \in 2..k : sorted[j] = m
      BY <1>8
    <3>2. j < i
      BY <2>1, <2>2, <3>1
    <3> QED
      BY <1>1, <2>1, <3>1, <3>2
  <2>5. \A a, b \in 2..(i - 1) : sorted[a] = sorted[b] => a = b
    <3> SUFFICES ASSUME NEW a \in 2..(i - 1), NEW b \in 2..(i - 1), sorted[a] = sorted[b], a # b PROVE FALSE
      OBVIOUS
    <3>1. (a < b \/ b < a) /\ a \in 1..k /\ b \in 1..k
      BY <2>1
    <3>2. sorted[a] \in ranked
      BY <1>1, <3>1
    <3>3. sorted[a] \in Nat
      BY <3>2
    <3> QED
      BY <1>1, <3>1, <3>3
  <2> HIDE DEF newer
  <2>6. part \in Bijection(2..(i - 1), newer)
    <3>1. \A j \in 2..(i - 1) : part[j] = sorted[j]
      OBVIOUS
    <3>2. part \in [2..(i - 1) -> newer] /\ DOMAIN part = 2..(i - 1)
      BY <2>3
    <3> HIDE DEF part
    <3> QED
      <4>1. IsInjective(part)
        BY <2>5, <3>1, <3>2 DEF IsInjective
      <4>2. \A m \in newer : \E j \in 2..(i - 1) : part[j] = m
        BY <2>4, <3>1
      <4> QED
        BY <3>2, <4>1, <4>2 DEF Bijection, Injection, Surjection
  <2>7. IsFiniteSet(2..(i - 1)) /\ Cardinality(2..(i - 1)) = i - 2
    <3>1. IsFiniteSet(2..(i - 1)) /\ Cardinality(2..(i - 1)) = IF 2 > i - 1 THEN 0 ELSE (i - 1) - 2 + 1
      BY <2>1, FS_Interval
    <3>2. i >= 2
      BY <2>1
    <3> QED
      BY <2>1, <3>1, <3>2
  <2>8. ExistsBijection(2..(i - 1), newer)
    BY <2>6 DEF ExistsBijection
  <2> QED
    BY <2>7, <2>8, FS_Bijection DEF newer
<1>11. \A i \in 2..k : i \in 2..size <=> Cardinality({m \in earlier : m > sorted[i]}) < limit
  <2> TAKE i \in 2..k
  <2>1. Cardinality({m \in earlier : m > sorted[i]}) = i - 2
    BY <1>10
  <2>2. i \in 2..size <=> i - 2 < limit
    BY <1>1, <1>5 DEF size
  <2> QED
    BY <2>1, <2>2
<1>12. 2..size \subseteq 2..k
  BY <1>1, <1>5
<1>13. {sorted[i] : i \in 2..size} = NewestFew(earlier, limit)
  <2>1. ASSUME NEW i \in 2..size PROVE sorted[i] \in NewestFew(earlier, limit)
    BY <1>7, <1>11, <1>12 DEF NewestFew
  <2>2. ASSUME NEW x \in NewestFew(earlier, limit) PROVE \E i \in 2..size : x = sorted[i]
    <3>1. x \in earlier /\ Cardinality({m \in earlier : m > x}) < limit
      BY DEF NewestFew
    <3>2. PICK i \in 2..k : sorted[i] = x
      BY <1>8, <3>1
    <3>3. i \in 2..size
      BY <1>11, <3>1, <3>2
    <3> QED
      BY <3>2, <3>3
  <2> QED
    BY <2>1, <2>2
<1> QED
  BY <1>6, <1>13 DEF sorted, rows, earlier

\* The runs are finitely many and numbered, and a tick knows the number of its own.
Numbered(p) == IsFiniteSet(runs[p]) /\ \A r \in runs[p] : r.id \in Nat

KnowsItsRun(c) ==
    Place(c) \in {Plain("finish"), Plain("compare")} => \E n \in Nat : left[c] = {n}

RunsInv ==
    /\ clock \in Nat /\ DOMAIN report = Clients
    /\ \A p \in Names : Numbered(p)
    /\ \A c \in Clients : KnowsItsRun(c)

LEMMA RunsSuffice ==
  ASSUME IInv, RunsInv, NEW c \in Clients, Busy(c), LeavesOthers(c),
         clock' \in Nat, DOMAIN report' = Clients,
         \A q \in Names : q # Target(c) => runs'[q] = runs[q],
         Numbered(Target(c))', KnowsItsRun(c)'
  PROVE  RunsInv'
<1>1. \A d \in Clients : d # c => Place(d)' = Place(d) /\ left'[d] = left[d]
  BY DEF LeavesOthers, Place, Busy
<1>2. \A d \in Clients : KnowsItsRun(d)'
  BY <1>1 DEF RunsInv, KnowsItsRun
<1>3. Target(c)' = Target(c)
  BY DEF LeavesOthers, Target
<1>4. \A q \in Names : Numbered(q)'
  BY <1>3 DEF RunsInv, Numbered
<1> QED
  BY <1>2, <1>4 DEF RunsInv

\* A step that leaves the runs alone, to a stage before or after those of a run.
LEMMA QuietRuns ==
  ASSUME IInv, RunsInv, NEW c \in Clients, Busy(c), LeavesOthers(c),
         UNCHANGED <<runs, clock, report>>,
         Place(c)' \notin {Plain("finish"), Plain("compare")} \/ (todo' = todo /\ left' = left)
  PROVE  RunsInv'
<1>1. KnowsItsRun(c)'
  BY DEF KnowsItsRun, RunsInv, Place, Busy
<1>2. Target(c)' = Target(c) /\ Target(c) \in Names
  BY TargetIsName DEF LeavesOthers, Target, IInv
<1>3. Numbered(Target(c))'
  BY <1>2 DEF RunsInv, Numbered
<1> QED
  BY <1>1, <1>3, RunsSuffice DEF RunsInv

LEMMA StopRuns ==
  ASSUME IInv, RunsInv, NEW c \in Clients, Busy(c), Stop(c)
  PROVE  RunsInv'
<1>1. Advances(c, Done) /\ LeavesOthers(c)
  BY LeaveAdvances, StopLeaves DEF Stop, IInv
<1>2. Place(c)' = Done /\ Done \notin {Plain("finish"), Plain("compare")}
  BY <1>1 DEF Advances, Done, Plain
<1> QED
  BY <1>1, <1>2, QuietRuns DEF Stop

\* Only a run goes on to the end of a run.
LEMMA OnToFinish ==
  ASSUME NEW do \in Does, NEW at \in StagesOf(do), at[1] \notin {"start", "finish"}
  PROVE  After(do, at) \notin {Plain("finish"), Plain("compare")}
<1>1. at # Plain("start") /\ at # Plain("finish")
  BY DEF Plain
<1> QED
  BY <1>1 DEF After, Plain, OnConfig, OnTests, Done

LEMMA FilesLeaveRuns ==
  ASSUME IInv, RunsInv, NEW c \in Clients,
         \/ Free(c) \/ Source(c) \/ Load(c) \/ Read(c) \/ Discover(c) \/ Mkdir(c) \/ Build(c)
         \/ Open(c) \/ Truncate(c) \/ Write(c) \/ Replace(c) \/ Unlink(c)
         \/ CopyTree(c) \/ Confirm(c) \/ List(c)
  PROVE  RunsInv'
<1>1. Busy(c) /\ Place(c)[1] \in {"free", "source", "load", "read", "discover", "mkdir", "build", "open", "truncate",
                                  "write", "replace", "unlink", "copytree", "confirm", "list"}
  <2>1. \E stage \in {"free", "source", "load", "read", "discover", "mkdir", "build", "open", "truncate",
                      "write", "replace", "unlink", "copytree", "confirm", "list"} : At(c, stage)
    BY DEF Free, Source, Load, Read, Discover, Mkdir, Build, Open, Truncate, Write, Replace, Unlink,
           CopyTree, Confirm, List
  <2> QED
    BY <2>1, StageTells DEF At, IInv
<1>2. CASE Stop(c)
  BY <1>1, <1>2, StopRuns
<1>3. CASE ~Stop(c)
  <2>1. LeavesOthers(c)
    BY <1>3, ReadersLeave, WritersLeave, WriteLeaves, CopiersLeave
  <2>2. (GoOn(c) \/ Leave(c)) /\ UNCHANGED <<runs, clock, report>>
    <3>1. CASE Free(c) \/ Source(c) \/ Load(c) \/ Read(c) \/ Discover(c) \/ Mkdir(c) \/ Build(c)
      BY <1>3, <3>1 DEF Free, Source, Load, Read, Discover, Mkdir, Build
    <3>2. CASE Open(c) \/ Truncate(c) \/ Write(c) \/ Replace(c) \/ Unlink(c)
      BY <1>3, <3>2 DEF Open, Truncate, Opens, Write, Replace, Unlink
    <3>3. CASE CopyTree(c) \/ Confirm(c) \/ List(c)
      BY <1>3, <3>3 DEF CopyTree, Confirm, List
    <3> QED
      BY <3>1, <3>2, <3>3
  <2>3. Place(c)' \notin {Plain("finish"), Plain("compare")}
    <3>1. job' = job
      BY <2>1 DEF LeavesOthers
    <3>2. CASE GoOn(c)
      <4>1. Place(c)' = After(job[c].do, Place(c))
        BY <1>1, <3>1, <3>2, GoOnAdvances DEF IInv, Advances
      <4>2. job[c].do \in Does /\ Place(c) \in StagesOf(job[c].do) /\ Place(c)[1] \notin {"start", "finish"}
        BY <1>1, StageTells DEF IInv
      <4> QED
        BY <4>1, <4>2, OnToFinish
    <3>3. CASE Leave(c)
      <4>1. Place(c)' = Done
        BY <3>1, <3>3, LeaveAdvances DEF IInv, Advances
      <4> QED
        BY <4>1 DEF Done, Plain
    <3> QED
      BY <2>2, <3>2, <3>3
  <2> QED
    BY <1>1, <2>1, <2>2, <2>3, QuietRuns
<1> QED
  BY <1>2, <1>3

LEMMA MoversRun ==
  ASSUME IInv, RunsInv, NEW c \in Clients, Copy(c) \/ Erase(c)
  PROVE  RunsInv'
<1>1. Busy(c) /\ Place(c)[1] \in {"copy", "remove"}
  BY StageTells DEF Copy, Erase, At, IInv
<1>2. CASE Stop(c)
  BY <1>1, <1>2, StopRuns
<1>3. CASE ~Stop(c)
  <2>1. LeavesOthers(c) /\ job' = job
    BY <1>3, MoversLeave DEF LeavesOthers
  <2>2. PICK p \in Names : p = Target(c)
    BY <1>1, TargetIsName DEF IInv
  <2>3. PICK from \in Names : from = job[c].on
    BY <1>1, TargetIsName DEF IInv
  <2>4. job[c].do \in Does /\ Place(c) \in StagesOf(job[c].do)
    BY <1>1, StageTells DEF IInv
  <2>5. UNCHANGED <<clock, report>> /\ (GoOn(c) \/ todo' = todo)
    BY <1>3 DEF Copy, Erase
  <2>6. KnowsItsRun(c)'
    <3>1. Place(c)' \notin {Plain("finish"), Plain("compare")}
      <4>1. CASE GoOn(c)
        <5>1. Place(c)' = After(job[c].do, Place(c))
          BY <1>1, <2>1, <4>1, GoOnAdvances DEF IInv, Advances
        <5> QED
          BY <1>1, <2>4, <5>1, OnToFinish
      <4>2. CASE todo' = todo
        <5>1. Place(c)' = Place(c)
          BY <4>2 DEF Place, Busy
        <5> QED
          BY <1>1, <5>1 DEF Plain
      <4> QED
        BY <2>5, <4>1, <4>2
    <3> QED
      BY <3>1 DEF KnowsItsRun
  <2>7. /\ \A q \in Names : q # p => runs'[q] = runs[q]
        /\ \E more \in SUBSET runs[from] : runs'[p] \subseteq runs[p] \cup more
    <3>1. CASE Copy(c)
      <4>1. runs' = runs \/ \E path : runs' = [runs EXCEPT ![p] = @ \cup {r \in runs[from] : r.place = path}]
        BY <1>3, <2>2, <2>3, <3>1 DEF Copy
      <4>2. runs' = runs \/ \E more \in SUBSET runs[from] : runs' = [runs EXCEPT ![p] = @ \cup more]
        BY <4>1
      <4>3. {} \in SUBSET runs[from]
        OBVIOUS
      <4> QED
        BY <4>2, <4>3 DEF IInv, Shape
    <3>2. CASE Erase(c)
      <4>1. runs' = runs \/ \E path : runs' = [runs EXCEPT ![p] = {r \in @ : r.place # path}]
        BY <1>3, <2>2, <3>2 DEF Erase
      <4>2. runs' = runs \/ \E rest \in SUBSET runs[p] : runs' = [runs EXCEPT ![p] = rest]
        BY <4>1
      <4>3. {} \in SUBSET runs[from]
        OBVIOUS
      <4>4. CASE runs' = runs
        BY <4>3, <4>4
      <4>5. ASSUME NEW rest \in SUBSET runs[p], runs' = [runs EXCEPT ![p] = rest]
            PROVE  /\ \A q \in Names : q # p => runs'[q] = runs[q]
                   /\ \E more \in SUBSET runs[from] : runs'[p] \subseteq runs[p] \cup more
        BY <4>3, <4>5 DEF IInv, Shape
      <4> QED
        BY <4>2, <4>4, <4>5
    <3> QED
      BY <3>1, <3>2
  <2>8. Numbered(p)'
    <3>1. IsFiniteSet(runs[p] \cup runs[from])
      BY FS_Union DEF RunsInv, Numbered
    <3>2. runs'[p] \subseteq runs[p] \cup runs[from]
      BY <2>7
    <3>3. IsFiniteSet(runs'[p])
      BY <3>1, <3>2, FS_Subset
    <3> QED
      BY <3>2, <3>3 DEF RunsInv, Numbered
  <2>9. Target(c)' = Target(c)
    BY <2>1 DEF Target
  <2> QED
    BY <1>1, <2>1, <2>2, <2>5, <2>6, <2>7, <2>8, <2>9, RunsSuffice DEF RunsInv
<1> QED
  BY <1>2, <1>3

LEMMA RunnersRun ==
  ASSUME IInv, RunsInv, NEW c \in Clients, Start(c) \/ Finish(c) \/ Drop(c) \/ Compare(c)
  PROVE  RunsInv'
<1>1. Busy(c) /\ Place(c)[1] \in {"start", "finish", "drop", "compare"}
  BY StageTells DEF Start, Finish, Drop, Compare, At, IInv
<1>2. CASE Stop(c)
  BY <1>1, <1>2, StopRuns
<1>3. CASE ~Stop(c)
  <2>1. LeavesOthers(c) /\ GoOn(c) /\ job' = job
    BY <1>3, RunnersLeave DEF Start, Finish, Drop, Compare, LeavesOthers
  <2>2. PICK p \in Names : p = Target(c)
    BY <1>1, TargetIsName DEF IInv
  <2>3. job[c].do \in Does /\ Place(c) \in StagesOf(job[c].do)
    BY <1>1, StageTells DEF IInv
  <2>4. Place(c)' = After(job[c].do, Place(c))
    BY <1>1, <2>1, GoOnAdvances DEF IInv, Advances
  <2>5. Target(c)' = Target(c)
    BY <2>1 DEF Target
  <2>6. clock' \in Nat /\ DOMAIN report' = Clients
    BY <1>3 DEF Start, Finish, Drop, Compare, RunsInv
  <2>7. IsFiniteSet(runs[p]) /\ \A r \in runs[p] : r.id \in Nat
    BY DEF RunsInv, Numbered
  <2>8. CASE Start(c)
    <3>1. PICK new : /\ new.id = clock + 1
                     /\ runs' = [runs EXCEPT ![p] = @ \cup {new}]
      <4> DEFINE it == [id |-> clock + 1, place |-> got[c].config.output, name |-> got[c].config.name,
                        home |-> p, ranked |-> FALSE, live |-> TRUE]
      <4>1. it.id = clock + 1 /\ runs' = [runs EXCEPT ![p] = @ \cup {it}]
        BY <1>3, <2>2, <2>8 DEF Start
      <4> HIDE DEF it
      <4> QED
        BY <4>1
    <3>2. runs'[p] = runs[p] \cup {new} /\ \A q \in Names : q # p => runs'[q] = runs[q]
      BY <3>1 DEF IInv, Shape
    <3>3. IsFiniteSet(runs'[p])
      BY <2>7, <3>2, FS_AddElement
    <3>4. clock + 1 \in Nat
      BY DEF RunsInv
    <3>5. Numbered(p)'
      BY <2>7, <3>1, <3>2, <3>3, <3>4 DEF Numbered
    <3>6. left'[c] = {clock + 1}
      BY <1>3, <2>8 DEF Start, IInv, Shape
    <3>7. KnowsItsRun(c)'
      BY <3>4, <3>6 DEF KnowsItsRun
    <3> QED
      BY <1>1, <2>1, <2>2, <2>5, <2>6, <3>2, <3>5, <3>7, RunsSuffice
  <2>9. CASE Finish(c)
    <3>1. /\ runs' = runs \/ \E own : runs' = [runs EXCEPT ![p] =
                                {IF r.id \in own THEN [r EXCEPT !.ranked = TRUE] ELSE r : r \in @}]
          /\ left' = left
      BY <1>3, <2>2, <2>9 DEF Finish
    <3>2. Numbered(p)' /\ \A q \in Names : q # p => runs'[q] = runs[q]
      <4>1. CASE runs' = runs
        BY <2>7, <4>1 DEF Numbered
      <4>2. CASE runs' # runs
        <5>1. PICK own : runs' = [runs EXCEPT ![p] =
                                {IF r.id \in own THEN [r EXCEPT !.ranked = TRUE] ELSE r : r \in @}]
          BY <3>1, <4>2
        <5> DEFINE Ranks(r) == IF r.id \in own THEN [r EXCEPT !.ranked = TRUE] ELSE r
        <5>2. runs'[p] = {Ranks(r) : r \in runs[p]} /\ \A q \in Names : q # p => runs'[q] = runs[q]
          BY <5>1 DEF IInv, Shape
        <5>3. ASSUME NEW r \in runs[p] PROVE Ranks(r).id \in Nat
          <6>1. {"id", "home", "place", "name"} \subseteq DOMAIN r /\ r.id \in Nat
            BY <2>7 DEF IInv, HistoryOK
          <6>2. [r EXCEPT !.ranked = TRUE].id = r.id
            BY <6>1
          <6> QED
            BY <6>1, <6>2
        <5> HIDE DEF Ranks
        <5>4. IsFiniteSet({Ranks(r) : r \in runs[p]})
          <6> DEFINE f == [r \in runs[p] |-> Ranks(r)]
          <6>1. \A r \in runs[p] : f[r] = Ranks(r)
            OBVIOUS
          <6>2. f = [r \in runs[p] |-> f[r]]
            OBVIOUS
          <6> HIDE DEF f
          <6>3. IsFiniteSet({f[r] : r \in runs[p]})
            BY <2>7, <6>2, FiniteImage
          <6>4. {f[r] : r \in runs[p]} = {Ranks(r) : r \in runs[p]}
            BY <6>1
          <6> QED
            BY <6>3, <6>4
        <5> QED
          BY <5>2, <5>3, <5>4 DEF Numbered
      <4> QED
        BY <4>1, <4>2
    <3>3. Place(c) = Plain("finish")
      BY <2>3, <2>9, StageTells, WhoIsAt DEF Finish, At, IInv
    <3>4. KnowsItsRun(c)'
      BY <3>1, <3>3 DEF RunsInv, KnowsItsRun
    <3> QED
      BY <1>1, <2>1, <2>2, <2>5, <2>6, <3>2, <3>4, RunsSuffice
  <2>10. CASE Drop(c)
    <3>1. PICK r \in runs[p] : runs' = [runs EXCEPT ![p] = (@ \ {r}) \cup {[r EXCEPT !.live = FALSE]}]
      BY <1>3, <2>2, <2>10 DEF Drop
    <3>2. PICK hidden : hidden = [r EXCEPT !.live = FALSE]
      OBVIOUS
    <3>3. hidden.id \in Nat
      <4>1. {"id", "home", "place", "name"} \subseteq DOMAIN r /\ r.id \in Nat
        BY <2>7 DEF IInv, HistoryOK
      <4> QED
        BY <3>2, <4>1
    <3>4. runs'[p] = (runs[p] \ {r}) \cup {hidden} /\ \A q \in Names : q # p => runs'[q] = runs[q]
      BY <3>1, <3>2 DEF IInv, Shape
    <3>5. IsFiniteSet(runs'[p])
      <4>1. IsFiniteSet(runs[p] \ {r})
        BY <2>7, FS_RemoveElement
      <4> QED
        BY <3>4, <4>1, FS_AddElement
    <3>6. Numbered(p)'
      BY <2>7, <3>3, <3>4, <3>5 DEF Numbered
    <3>7. Place(c) = Plain("drop")
      BY <2>3, <2>10, StageTells, WhoIsAt DEF Drop, At, IInv
    <3>8. Place(c)' = Done
      BY <2>3, <2>4, <3>7, AfterEach
    <3>9. KnowsItsRun(c)'
      BY <3>8 DEF KnowsItsRun, Done, Plain
    <3> QED
      BY <1>1, <2>1, <2>2, <2>5, <2>6, <3>4, <3>6, <3>9, RunsSuffice
  <2>11. CASE Compare(c)
    <3>1. runs' = runs
      BY <1>3, <2>11 DEF Compare
    <3>2. Place(c) = Plain("compare")
      BY <2>3, <2>11, StageTells, WhoIsAt DEF Compare, At, IInv
    <3>3. Place(c)' = Done
      BY <2>3, <2>4, <3>2, AfterEach
    <3>4. KnowsItsRun(c)'
      BY <3>3 DEF KnowsItsRun, Done, Plain
    <3>5. Numbered(p)'
      BY <2>7, <3>1 DEF Numbered
    <3> QED
      BY <1>1, <2>1, <2>2, <2>5, <2>6, <3>1, <3>4, <3>5, RunsSuffice
  <2> QED
    BY <2>8, <2>9, <2>10, <2>11
<1> QED
  BY <1>2, <1>3

LEMMA BeginRuns ==
  ASSUME IInv, RunsInv, NEW c \in Clients, Begin(c)
  PROVE  RunsInv' /\ report'[c] = NULL /\ \A d \in Clients : d # c => report'[d] = report[d]
<1>1. PICK j \in NextJobs : todo' = [todo EXCEPT ![c] = Stages(j.do)]
  BY DEF Begin
<1>2. /\ left' = [left EXCEPT ![c] = {}] /\ report' = [report EXCEPT ![c] = NULL]
      /\ UNCHANGED <<runs, clock>>
  BY DEF Begin
<1>3. j.do \in Does
  <2>1. DOMAIN Says = Does
    BY DEF Says, Does
  <2> QED
    BY <2>1 DEF NextJobs, Jobs
<1>4. Stages(j.do) \in Seq(Steps) /\ Stages(j.do) # <<>> /\ Stages(j.do)[1] = First(j.do)
  BY <1>3, StagesChain
<1>5. Place(c)' = First(j.do) /\ \A d \in Clients : d # c => Place(d)' = Place(d) /\ left'[d] = left[d]
  BY <1>1, <1>2, <1>4 DEF Place, Busy, IInv, Shape
<1>6. First(j.do) \notin {Plain("finish"), Plain("compare")}
  BY <1>3 DEF First, Does, Plain
<1>7. \A d \in Clients : KnowsItsRun(d)'
  BY <1>5, <1>6 DEF RunsInv, KnowsItsRun
<1>8. \A p \in Names : Numbered(p)'
  BY <1>2 DEF RunsInv, Numbered
<1> QED
  BY <1>2, <1>7, <1>8 DEF RunsInv

\* The largest of finitely many numbers is one of them.
LEMMA MaxOfFinite ==
  ASSUME NEW S \in SUBSET Nat, IsFiniteSet(S), S # {}
  PROVE  Max(S) \in S
<1>1. /\ NewestFirst(S) \in [1..Cardinality(S) -> S] /\ Cardinality(S) \in Nat
      /\ \A i, j \in 1..Cardinality(S) : i < j => NewestFirst(S)[i] > NewestFirst(S)[j]
      /\ \A x \in S : \E i \in 1..Cardinality(S) : NewestFirst(S)[i] = x
  BY NewestFirstIs
<1> DEFINE n == Cardinality(S)
           s == NewestFirst(S)
<1> HIDE DEF n, s
<1>2. 1 \in 1..n /\ s[1] \in S
  <2>1. PICK i \in 1..n : TRUE
    BY <1>1 DEF n
  <2>2. 1 \in 1..n
    BY <1>1, <2>1 DEF n
  <2> QED
    BY <1>1, <2>2 DEF n, s
<1>3. \A y \in S : s[1] >= y
  <2> TAKE y \in S
  <2>1. PICK i \in 1..n : s[i] = y
    BY <1>1 DEF n, s
  <2>2. i = 1 \/ 1 < i
    BY <1>1, <2>1 DEF n
  <2>3. s[1] \in Nat /\ y \in Nat
    BY <1>2
  <2>4. 1 < i => s[1] > s[i]
    BY <1>1, <1>2, <2>1 DEF n, s
  <2> QED
    BY <2>1, <2>2, <2>3, <2>4
<1>4. \E x \in S : \A y \in S : x >= y
  BY <1>2, <1>3
<1> QED
  BY <1>4 DEF Max

LEMMA InitRuns == ASSUME Init PROVE RunsInv
<1>1. clock = Max({0} \cup {made.runs : made \in HandMade})
      /\ DOMAIN report = Clients
  BY DEF Init
<1>2. clock \in Nat
  <2> DEFINE Count(made) == made.runs
             S == {Count(made) : made \in HandMade}
  <2>1. IsFiniteSet(S)
    <3> HIDE DEF Count
    <3> DEFINE f == [made \in HandMade |-> Count(made)]
    <3>1. \A made \in HandMade : f[made] = Count(made)
      OBVIOUS
    <3>2. f = [made \in HandMade |-> f[made]]
      OBVIOUS
    <3> HIDE DEF f
    <3>3. IsFiniteSet({f[made] : made \in HandMade})
      BY FilesAssumption, <3>2, FiniteImage
    <3>4. {f[made] : made \in HandMade} = {Count(made) : made \in HandMade}
      BY <3>1
    <3> QED
      BY <3>3, <3>4
  <2>2. S \in SUBSET Nat
    BY FilesAssumption
  <2> HIDE DEF S
  <2>3. {0} \cup S = S \cup {0} /\ IsFiniteSet(S \cup {0})
    BY <2>1, FS_AddElement
  <2>4. {0} \cup S \in SUBSET Nat /\ {0} \cup S # {} /\ IsFiniteSet({0} \cup S)
    BY <2>2, <2>3
  <2>5. Max({0} \cup S) \in {0} \cup S
    BY <2>4, MaxOfFinite
  <2> QED
    BY <1>1, <2>2, <2>5 DEF S
<1>3. ASSUME NEW p \in Names PROVE Numbered(p)
  <2>1. PICK made \in [Names -> HandMade \cup {NULL}] :
          runs = [q \in Names |->
                     IF made[q] # NULL THEN {[id |-> n, place |-> made[q].output, name |-> q, home |-> q,
                                              ranked |-> TRUE, live |-> TRUE] : n \in 1..made[q].runs}
                     ELSE {}]
    BY DEF Init
  <2>2. CASE made[p] = NULL
    <3>1. runs[p] = {}
      BY <2>1, <2>2
    <3> QED
      BY <3>1, FS_EmptySet DEF Numbered
  <2>3. CASE made[p] # NULL
    <3> DEFINE Row(n) == [id |-> n, place |-> made[p].output, name |-> p, home |-> p,
                          ranked |-> TRUE, live |-> TRUE]
    <3>1. runs[p] = {Row(n) : n \in 1..made[p].runs}
      BY <2>1, <2>3
    <3>2. made[p] \in HandMade
      BY <2>3
    <3>3. made[p].runs \in Nat
      BY <3>2, FilesAssumption
    <3>4. \A n \in 1..made[p].runs : Row(n).id \in Nat
      BY <3>3
    <3>5. IsFiniteSet(1..made[p].runs)
      BY <3>3, FS_Interval
    <3> HIDE DEF Row
    <3>6. IsFiniteSet({Row(n) : n \in 1..made[p].runs})
      <4> DEFINE f == [n \in 1..made[p].runs |-> Row(n)]
      <4>1. \A n \in 1..made[p].runs : f[n] = Row(n)
        OBVIOUS
      <4>2. f = [n \in 1..made[p].runs |-> f[n]]
        OBVIOUS
      <4> HIDE DEF f
      <4>3. IsFiniteSet({f[n] : n \in 1..made[p].runs})
        BY <3>5, <4>2, FiniteImage
      <4>4. {f[n] : n \in 1..made[p].runs} = {Row(n) : n \in 1..made[p].runs}
        BY <4>1
      <4> QED
        BY <4>3, <4>4
    <3> QED
      BY <3>1, <3>4, <3>6 DEF Numbered
  <2> QED
    BY <2>2, <2>3
<1>4. ASSUME NEW c \in Clients PROVE KnowsItsRun(c)
  BY DEF Init, KnowsItsRun, Place, Busy, Done, Plain
<1> QED
  BY <1>1, <1>2, <1>3, <1>4 DEF RunsInv

LEMMA StepRuns == ASSUME IInv, RunsInv, [Next]_vars PROVE RunsInv'
<1>1. CASE UNCHANGED vars
  BY <1>1 DEF vars, clientVars, RunsInv, Numbered, KnowsItsRun, Place, Busy
<1>2. ASSUME NEW c \in Clients, Begin(c) \/ Die(c)
      PROVE  RunsInv'
  BY <1>2, BeginRuns, StopRuns DEF Die
<1>3. ASSUME NEW c \in Clients,
             \/ Free(c) \/ Source(c) \/ Load(c) \/ Read(c) \/ Discover(c) \/ Mkdir(c) \/ Build(c)
             \/ Open(c) \/ Truncate(c) \/ Write(c) \/ Replace(c) \/ Unlink(c)
             \/ CopyTree(c) \/ Confirm(c) \/ List(c)
      PROVE  RunsInv'
  BY <1>3, FilesLeaveRuns
<1>4. ASSUME NEW c \in Clients, Copy(c) \/ Erase(c) \/ Start(c) \/ Finish(c) \/ Drop(c) \/ Compare(c)
      PROVE  RunsInv'
  BY <1>4, MoversRun, RunnersRun
<1> QED
  BY <1>1, <1>2, <1>3, <1>4 DEF Next

\* The runs of a folder are finitely many, and a tick knows which of them is its own.
THEOREM RunsInvariance == Spec => []RunsInv
<1>1. Init => RunsInv
  BY InitRuns
<1>2. IInv /\ RunsInv /\ [Next]_vars => RunsInv'
  BY StepRuns
<1> QED
  BY <1>1, <1>2, Invariance, PTL DEF Spec

\* Only a tick's comparison makes a report.
LEMMA WhoReports ==
  ASSUME IInv, RunsInv, [Next]_vars, NEW c \in Clients, report[c] = NULL, report'[c] # NULL
  PROVE  Compare(c)
<1>1. report' # report
  OBVIOUS
<1>2. PICK d \in Clients : Begin(d) \/ Compare(d)
  <2>1. ~ UNCHANGED vars
    BY <1>1 DEF vars, clientVars
  <2>2. PICK d \in Clients :
          \/ Begin(d) \/ Die(d)
          \/ Free(d) \/ Source(d) \/ Load(d) \/ Read(d) \/ Discover(d)
          \/ Mkdir(d) \/ Build(d) \/ Open(d) \/ Truncate(d) \/ Write(d) \/ Replace(d) \/ Unlink(d)
          \/ CopyTree(d) \/ Copy(d) \/ Confirm(d) \/ List(d) \/ Erase(d)
          \/ Start(d) \/ Finish(d) \/ Drop(d) \/ Compare(d)
    BY <2>1 DEF Next
  <2>3. ~Die(d) /\ ~Stop(d)
    BY <1>1 DEF Die, Stop
  <2>4. ~(Free(d) \/ Source(d) \/ Load(d) \/ Read(d) \/ Discover(d))
    BY <1>1, <2>3 DEF Free, Source, Load, Read, Discover
  <2>5. ~(Mkdir(d) \/ Build(d) \/ Open(d) \/ Truncate(d) \/ Write(d) \/ Replace(d) \/ Unlink(d))
    BY <1>1, <2>3 DEF Mkdir, Build, Open, Truncate, Opens, Write, Replace, Unlink
  <2>6. ~(CopyTree(d) \/ Copy(d) \/ Confirm(d) \/ List(d) \/ Erase(d))
    BY <1>1, <2>3 DEF CopyTree, Copy, Confirm, List, Erase
  <2>7. ~(Start(d) \/ Finish(d) \/ Drop(d))
    BY <1>1, <2>3 DEF Start, Finish, Drop
  <2> QED
    BY <2>2, <2>3, <2>4, <2>5, <2>6, <2>7
<1>3. CASE Begin(d)
  BY <1>3, BeginRuns
<1>4. CASE Compare(d)
  <2>1. \E made : report' = [report EXCEPT ![d] = made]
    BY <1>4 DEF Compare
  <2>2. d = c
    BY <2>1
  <2> QED
    BY <1>4, <2>2
<1> QED
  BY <1>2, <1>3, <1>4

\* A tick of watch compares with the newest of the runs that were ranked before its own
\* (compare_to_history drops the head of the history, "the run just recorded"), unless a
\* run that started later was ranked first, or its own was deleted meanwhile.
THEOREM TicksCompareWithThePast == Spec => WatchComparesWithThePast
<1>1. ASSUME IInv, RunsInv, [Next]_vars, NEW c \in Clients, report[c] = NULL, report'[c] # NULL
      PROVE  LET ranked == RankedRuns(Target(c), got[c].config)
                 earlier == {n \in ranked : \A own \in left[c] : n < own}
             IN \/ \E n \in ranked : \A own \in left[c] : n > own
                \/ ~(left[c] \subseteq ranked)
                \/ report'[c].baseline =
                       {n \in earlier : Cardinality({m \in earlier : m > n}) < HistoryLimit}
  <2>1. Compare(c)
    BY <1>1, WhoReports
  <2>2. Busy(c) /\ Place(c)[1] = "compare"
    BY <1>1, <2>1, StageTells DEF Compare, At, IInv
  <2>3. Place(c) = Plain("compare")
    BY <1>1, <2>2, StageTells, WhoIsAt DEF IInv
  <2>4. PICK own \in Nat : left[c] = {own}
    BY <1>1, <2>3 DEF RunsInv, KnowsItsRun
  <2>5. PICK p \in Names : p = Target(c)
    BY <1>1, <2>2, TargetIsName DEF IInv
  <2> DEFINE config == got[c].config
             ranked == RankedRuns(p, config)
             earlier == {n \in ranked : n < own}
             rows == ModelHistory(p, config, HistoryLimit + 1)
  <2>6. ranked \in SUBSET Nat /\ IsFiniteSet(ranked)
    <3> DEFINE some == {r \in runs[p] : r.place = config.output /\ r.name = config.name /\ r.ranked /\ r.live}
               Id(r) == r.id
    <3>1. IsFiniteSet(some)
      BY <1>1, FS_Subset DEF RunsInv, Numbered
    <3>2. ranked = {Id(r) : r \in some}
      BY DEF RankedRuns
    <3>3. \A r \in some : Id(r) \in Nat
      BY <1>1 DEF RunsInv, Numbered
    <3> HIDE DEF some, Id, ranked
    <3>4. IsFiniteSet({Id(r) : r \in some})
      <4> DEFINE f == [r \in some |-> Id(r)]
      <4>1. \A r \in some : f[r] = Id(r)
        OBVIOUS
      <4>2. f = [r \in some |-> f[r]]
        OBVIOUS
      <4> HIDE DEF f
      <4>3. IsFiniteSet({f[r] : r \in some})
        BY <3>1, <4>2, FiniteImage
      <4>4. {f[r] : r \in some} = {Id(r) : r \in some}
        BY <4>1
      <4> QED
        BY <4>3, <4>4
    <3> QED
      BY <3>2, <3>3, <3>4
  <2>7. report'[c].baseline = ToSet(Prior(rows))
    <3> DEFINE baseline == ToSet(Prior(rows))
    <3>1. report' = [report EXCEPT ![c] = [own |-> left[c], baseline |-> baseline]]
      BY <2>1, <2>5 DEF Compare
    <3> HIDE DEF baseline
    <3>2. report'[c] = [own |-> left[c], baseline |-> baseline]
      BY <1>1, <3>1 DEF RunsInv
    <3> QED
      BY <3>2 DEF baseline
  <2>8. rows = IF Len(NewestFirst(ranked)) <= HistoryLimit + 1 THEN NewestFirst(ranked)
               ELSE SubSeq(NewestFirst(ranked), 1, HistoryLimit + 1)
    BY DEF ModelHistory
  <2> HIDE DEF ranked, rows
  <2>9. CASE own \in ranked /\ \A n \in ranked : n <= own
    <3>1. HistoryLimit \in Nat
      BY ProjectsAssumption
    <3>2. PICK all \in SUBSET Nat : all = ranked
      BY <2>6
    <3>3. ToSet(Prior(FirstFew(NewestFirst(all), HistoryLimit + 1))) = NewestFew(Older(all, own), HistoryLimit)
      BY <2>6, <2>9, <3>1, <3>2, NewestOfTheOthers
    <3>4. ToSet(Prior(rows)) = NewestFew(earlier, HistoryLimit)
      BY <2>8, <3>2, <3>3 DEF FirstFew, Older
    <3>5. {n \in ranked : \A it \in left[c] : n < it} = earlier
      BY <2>4
    <3> QED
      BY <2>5, <2>7, <3>4, <3>5 DEF ranked, NewestFew
  <2>10. CASE own \notin ranked
    <3>1. ~(left[c] \subseteq ranked)
      BY <2>4, <2>10
    <3> QED
      BY <2>5, <3>1 DEF ranked
  <2>11. CASE \E n \in ranked : ~(n <= own)
    <3>1. PICK n \in ranked : ~(n <= own)
      BY <2>11
    <3>2. n \in Nat
      BY <2>6
    <3>3. \A it \in left[c] : n > it
      BY <2>4, <3>1, <3>2
    <3> QED
      BY <2>5, <3>1, <3>3 DEF ranked
  <2> QED
    BY <2>9, <2>10, <2>11
<1>2. IInv /\ RunsInv /\ [Next]_vars =>
        [\A c \in Clients : report[c] = NULL /\ report'[c] # NULL =>
          LET ranked == RankedRuns(Target(c), got[c].config)
              earlier == {n \in ranked : \A own \in left[c] : n < own}
          IN \/ \E n \in ranked : \A own \in left[c] : n > own
             \/ ~(left[c] \subseteq ranked)
             \/ report'[c].baseline =
                    {n \in earlier : Cardinality({m \in earlier : m > n}) < HistoryLimit}]_vars
  BY <1>1
<1> QED
  BY <1>2, Invariance, RunsInvariance, PTL DEF Spec, WatchComparesWithThePast
=============================================================================
