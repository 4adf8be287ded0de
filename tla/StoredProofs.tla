---------------------------- MODULE StoredProofs ----------------------------
(***************************************************************************)
(* What is kept on disk while several processes write to it: the person's  *)
(* settings, profiles and keys (UserFiles), and the runs (ResultStore).    *)
(*                                                                         *)
(* Of the files, for any clients and profiles: as long as operations come  *)
(* one at a time, each of which may die anywhere, no save, edit or key is  *)
(* lost.                                                                   *)
(*                                                                         *)
(* Of the database, for every number of runs, runners and lifecycle        *)
(* operations at once: nothing recorded is lost while its row is there,    *)
(* only a runner changes a verdict, and leftovers have a cause.            *)
(***************************************************************************)
EXTENDS UserFiles, ResultStore, SequenceTheorems, TLAPS

-----------------------------------------------------------------------------
(* Where an operation is, without the sequence of its stages *)

Place(c) == IF Busy(c) THEN Head(todo[c]) ELSE "done"

\* The stage that follows another in an operation.
After(do, stage) ==
    CASE stage = "keys" -> "truncate"
      [] stage = "truncate" -> "write_keys"
      [] stage = "write_keys" -> IF do = "save" THEN "parse" ELSE "done"
      [] stage = "parse" -> "profiles"
      [] stage \in {"profiles", "quarantine_profiles"} -> IF do = "list" THEN "done" ELSE "merge"
      [] stage \in {"merge", "quarantine_merge"} -> "replace"
      [] stage = "replace" -> IF do = "remove_and_purge" THEN "keys" ELSE "done"

First(do) ==
    CASE do \in {"save", "set_key", "drop_key"} -> "keys"
      [] do = "save_reference" -> "parse"
      [] do \in {"remove", "remove_and_purge", "list"} -> "profiles"
      [] do \in {"prefer", "reset_preference"} -> "merge"

\* Every stage of the list is followed by the one that comes after it.
Linked(do, list) ==
    \A i \in 1..Len(list) :
        After(do, list[i]) = IF i = Len(list) THEN "done" ELSE list[i + 1]

-----------------------------------------------------------------------------
(* The inductive invariant *)

\* The operations that write the key file.
KeyJobs == {"save", "set_key", "drop_key", "remove_and_purge"}
KeyStages == {"keys", "truncate", "write_keys"}

TodoOK ==
    \A c \in Clients :
        /\ Linked(job[c].do, todo[c])
        /\ Place(c) \in KeyStages => job[c].do \in KeyJobs

EditsOK == file.edit <= edits /\ rescue.edit <= edits

\* What is not settings counts as the defaults; a text is the person's last.
TextsOK ==
    /\ file.kind # "settings" => file.holds = Defaults
    /\ file.kind = "text" => believed = Defaults /\ file.edit = typed

OneAtATime == \A c, d \in Clients : Place(c) # "done" /\ Place(d) # "done" => c = d

Preferences == {"prefer", "reset_preference"}

\* What a client has read is what is there, and what it will write is what was
\* asked for.
WritesTheMeant(c) ==
    /\ Place(c) \in {"quarantine_profiles", "quarantine_merge"} => file.kind = "text"
    /\ Place(c) \in {"merge", "quarantine_merge"} /\ job[c].do \notin Preferences
          => got[c].profiles = believed.profiles
    /\ Place(c) = "replace" => file.kind # "text" /\ got[c] = Meant(job[c], believed)

SettingsInv ==
    /\ OneAtATime
    /\ file.holds = believed
    /\ \A c \in Clients : WritesTheMeant(c)
    /\ typed # 0 => file.edit = typed \/ rescue.edit = typed

\* Every profile that refers to a stored key refers to one of these.
Covered(ids) == \A p \in Providers : believed.profiles[p] = "stored" => p \in ids \cup disowned

\* The keys a client will write, and the one that its writing disowns, are
\* enough; a save has its key stored by the time it comes to the profile, and a
\* purge has its profile gone by the time it comes to the key.
KeepsTheKeys(c) ==
    /\ Place(c) \in {"truncate", "write_keys"} =>
          /\ Covered(entries[c] \cup (IF job[c].do = "drop_key" THEN {job[c].id} ELSE {}))
          /\ Storing(c) => job[c].id \in entries[c]
    /\ Place(c) \notin KeyStages \cup {"done"} /\ job[c].do = "save"
          => job[c].id \in keys
    /\ Place(c) \in KeyStages /\ job[c].do = "remove_and_purge"
          => believed.profiles[job[c].id] # "stored"

KeysInv ==
    /\ \/ keyfile = "whole" /\ Covered(keys)
       \/ keyfile = "empty" /\ \E c \in Clients : Place(c) = "write_keys"
    /\ \A c \in Clients : Place(c) = "write_keys" => keyfile = "empty"
    /\ \A c \in Clients : KeepsTheKeys(c)

IInv ==
    /\ TypeOK
    /\ TodoOK
    /\ EditsOK
    /\ TextsOK
    /\ ~overlapped => SettingsInv
    /\ ~overlapped /\ ~tornKeys => KeysInv

-----------------------------------------------------------------------------
(* How an operation moves through its stages *)

USE UserFilesAssumption

LEMMA StagesOK ==
  ASSUME NEW do \in Actions
  PROVE  /\ Stages(do) \in Seq(Stage) /\ Stages(do) # <<>>
         /\ Head(Stages(do)) = First(do)
         /\ Linked(do, Stages(do))
<1> DEFINE list == Stages(do)
<1>1. CASE do = "save"
  <2>1. list = <<"keys", "truncate", "write_keys", "parse", "profiles", "merge", "replace">>
    BY <1>1 DEF Stages
  <2>2. /\ list \in Seq(Stage) /\ Len(list) = 7 /\ list # <<>> /\ Head(list) = list[1]
        /\ list[1] = "keys" /\ list[2] = "truncate" /\ list[3] = "write_keys"
        /\ list[4] = "parse" /\ list[5] = "profiles"
        /\ list[6] = "merge" /\ list[7] = "replace"
    BY <2>1 DEF Stage
  <2> HIDE DEF list
  <2>3. Linked(do, list)
    BY <1>1, <2>2 DEF Linked, After
  <2>4. First(do) = list[1]
    BY <1>1, <2>2 DEF First
  <2> QED
    BY <2>2, <2>3, <2>4 DEF list
<1>2. CASE do = "save_reference"
  <2>1. list = <<"parse", "profiles", "merge", "replace">>
    BY <1>2 DEF Stages
  <2>2. /\ list \in Seq(Stage) /\ Len(list) = 4 /\ list # <<>> /\ Head(list) = list[1]
        /\ list[1] = "parse" /\ list[2] = "profiles" /\ list[3] = "merge"
        /\ list[4] = "replace"
    BY <2>1 DEF Stage
  <2> HIDE DEF list
  <2>3. Linked(do, list)
    BY <1>2, <2>2 DEF Linked, After
  <2>4. First(do) = list[1]
    BY <1>2, <2>2 DEF First
  <2> QED
    BY <2>2, <2>3, <2>4 DEF list
<1>3. CASE do = "remove"
  <2>1. list = <<"profiles", "merge", "replace">>
    BY <1>3 DEF Stages
  <2>2. /\ list \in Seq(Stage) /\ Len(list) = 3 /\ list # <<>> /\ Head(list) = list[1]
        /\ list[1] = "profiles" /\ list[2] = "merge" /\ list[3] = "replace"
    BY <2>1 DEF Stage
  <2> HIDE DEF list
  <2>3. Linked(do, list)
    BY <1>3, <2>2 DEF Linked, After
  <2>4. First(do) = list[1]
    BY <1>3, <2>2 DEF First
  <2> QED
    BY <2>2, <2>3, <2>4 DEF list
<1>4. CASE do = "remove_and_purge"
  <2>1. list = <<"profiles", "merge", "replace", "keys", "truncate", "write_keys">>
    BY <1>4 DEF Stages
  <2>2. /\ list \in Seq(Stage) /\ Len(list) = 6 /\ list # <<>> /\ Head(list) = list[1]
        /\ list[1] = "profiles" /\ list[2] = "merge" /\ list[3] = "replace"
        /\ list[4] = "keys" /\ list[5] = "truncate"
        /\ list[6] = "write_keys"
    BY <2>1 DEF Stage
  <2> HIDE DEF list
  <2>3. Linked(do, list)
    BY <1>4, <2>2 DEF Linked, After
  <2>4. First(do) = list[1]
    BY <1>4, <2>2 DEF First
  <2> QED
    BY <2>2, <2>3, <2>4 DEF list
<1>5. CASE do \in {"set_key", "drop_key"}
  <2>1. list = <<"keys", "truncate", "write_keys">>
    BY <1>5 DEF Stages
  <2>2. /\ list \in Seq(Stage) /\ Len(list) = 3 /\ list # <<>> /\ Head(list) = list[1]
        /\ list[1] = "keys" /\ list[2] = "truncate" /\ list[3] = "write_keys"
    BY <2>1 DEF Stage
  <2> HIDE DEF list
  <2>3. Linked(do, list)
    BY <1>5, <2>2 DEF Linked, After
  <2>4. First(do) = list[1]
    BY <1>5, <2>2 DEF First
  <2> QED
    BY <2>2, <2>3, <2>4 DEF list
<1>6. CASE do \in {"prefer", "reset_preference"}
  <2>1. list = <<"merge", "replace">>
    BY <1>6 DEF Stages
  <2>2. /\ list \in Seq(Stage) /\ Len(list) = 2 /\ list # <<>> /\ Head(list) = list[1]
        /\ list[1] = "merge" /\ list[2] = "replace"
    BY <2>1 DEF Stage
  <2> HIDE DEF list
  <2>3. Linked(do, list)
    BY <1>6, <2>2 DEF Linked, After
  <2>4. First(do) = list[1]
    BY <1>6, <2>2 DEF First
  <2> QED
    BY <2>2, <2>3, <2>4 DEF list
<1>7. CASE do = "list"
  <2>1. list = <<"profiles">>
    BY <1>7 DEF Stages
  <2>2. /\ list \in Seq(Stage) /\ Len(list) = 1 /\ list # <<>> /\ Head(list) = list[1]
        /\ list[1] = "profiles"
    BY <2>1 DEF Stage
  <2> HIDE DEF list
  <2>3. Linked(do, list)
    BY <1>7, <2>2 DEF Linked, After
  <2>4. First(do) = list[1]
    BY <1>7, <2>2 DEF First
  <2> QED
    BY <2>2, <2>3, <2>4 DEF list
<1> QED
  BY <1>1, <1>2, <1>3, <1>4, <1>5, <1>6, <1>7 DEF Actions

\* What an action's effect on todo means: client c is at `to`, the others are where they were.
Moved(c, to) ==
    /\ todo' \in [Clients -> Seq(Stage)]
    /\ TodoOK'
    /\ \A d \in Clients : Place(d)' = IF d = c THEN to ELSE Place(d)

\* "done" is no stage, so a client is busy exactly if it is at some stage.
LEMMA PlaceIsStage ==
  ASSUME todo \in [Clients -> Seq(Stage)], NEW c \in Clients
  PROVE  /\ Busy(c) => Place(c) \in Stage
         /\ Busy(c) <=> Place(c) # "done"
  BY DEF Place, Busy, Stage

\* The tail of a list is linked as the list was.
LEMMA AdvanceMoves ==
  ASSUME TypeOK, TodoOK, NEW c \in Clients, Busy(c), GoOn(c), job' = job
  PROVE  Moved(c, After(job[c].do, Place(c)))
<1> DEFINE list == todo[c]
<1>1. list \in Seq(Stage) /\ list # <<>> /\ todo \in [Clients -> Seq(Stage)]
  BY DEF TypeOK, Busy
<1>2. /\ Tail(list) \in Seq(Stage) /\ Len(Tail(list)) = Len(list) - 1
      /\ \A i \in 1..Len(Tail(list)) : Tail(list)[i] = list[i + 1]
      /\ Len(list) \in Nat /\ Len(list) >= 1 /\ Head(list) = list[1]
  BY <1>1
<1>3. Linked(job[c].do, list)
  BY DEF TodoOK
<1>4. \A d \in Clients : todo'[d] = IF d = c THEN Tail(list) ELSE todo[d]
  BY <1>1 DEF GoOn
<1>5. todo' \in [Clients -> Seq(Stage)]
  BY <1>1, <1>2 DEF GoOn
<1> HIDE DEF list
<1>6. Linked(job[c].do, Tail(list))
  <2> SUFFICES ASSUME NEW i \in 1..Len(Tail(list))
               PROVE  After(job[c].do, Tail(list)[i]) =
                        IF i = Len(Tail(list)) THEN "done" ELSE Tail(list)[i + 1]
    BY DEF Linked
  <2>1. i + 1 \in 1..Len(list) /\ (i + 1 = Len(list) <=> i = Len(Tail(list)))
    BY <1>2
  <2>2. After(job[c].do, list[i + 1]) = IF i + 1 = Len(list) THEN "done" ELSE list[i + 1 + 1]
    BY <1>3, <2>1 DEF Linked
  <2>3. i # Len(Tail(list)) => Tail(list)[i + 1] = list[i + 1 + 1]
    <3>1. i # Len(Tail(list)) => i + 1 \in 1..Len(Tail(list))
      <4>1. Len(Tail(list)) \in Int
        BY <1>2
      <4> QED
        BY <4>1
    <3>2. ASSUME i + 1 \in 1..Len(Tail(list)) PROVE Tail(list)[i + 1] = list[(i + 1) + 1]
      BY <1>2, <3>2
    <3> QED
      BY <3>1, <3>2
  <2> QED
    BY <1>2, <2>1, <2>2, <2>3
<1>7. After(job[c].do, list[1]) = IF Len(list) = 1 THEN "done" ELSE list[2]
  <2>1. 1 \in 1..Len(list) /\ 1 + 1 = 2
    BY <1>2
  <2> QED
    BY <1>3, <2>1 DEF Linked
<1>8. (IF Tail(list) = <<>> THEN "done" ELSE Head(Tail(list))) = After(job[c].do, Head(list))
  <2>1. Tail(list) = <<>> <=> Len(list) = 1
    <3>1. Tail(list) # <<>> => Len(Tail(list)) \in Nat \ {0}
      BY <1>2, EmptySeq
    <3>2. Len(<<>>) = 0
      BY EmptySeq
    <3> QED
      BY <1>2, <3>1, <3>2
  <2>2. Len(list) # 1 => Head(Tail(list)) = list[2]
    <3>1. Len(list) # 1 => 1 \in 1..Len(Tail(list)) /\ Head(Tail(list)) = Tail(list)[1] /\ 1 + 1 = 2
      BY <1>2, <2>1
    <3> QED
      BY <1>2, <3>1
  <2> QED
    BY <1>2, <1>7, <2>1, <2>2
<1>9. \A d \in Clients :
         Place(d)' = IF d = c THEN After(job[c].do, Place(c)) ELSE Place(d)
  BY <1>1, <1>4, <1>8 DEF Place, Busy, list
<1>10. Place(c) = list[1] /\ list[1] \in Stage
  BY <1>1, <1>2 DEF Place, Busy, list
<1>11. After(job[c].do, Place(c)) \in KeyStages => job[c].do \in KeyJobs
  BY <1>10 DEF TodoOK, KeyStages, KeyJobs, After, Stage
<1>12. TodoOK'
  BY <1>4, <1>6, <1>9, <1>11 DEF TodoOK
<1> QED
  BY <1>5, <1>9, <1>12 DEF Moved

LEMMA LeaveMoves ==
  ASSUME TypeOK, TodoOK, NEW c \in Clients, Leave(c), job' = job
  PROVE  Moved(c, "done")
<1>1. todo' \in [Clients -> Seq(Stage)] /\ \A d \in Clients : todo'[d] = IF d = c THEN <<>> ELSE todo[d]
  BY DEF TypeOK, Leave
<1>2. \A d \in Clients : Place(d)' = IF d = c THEN "done" ELSE Place(d)
  BY <1>1 DEF Place, Busy
<1>3. Linked(job[c].do, <<>>)
  BY DEF Linked
<1> QED
  BY <1>1, <1>2, <1>3 DEF Moved, TodoOK, KeyStages

\* What comes after putting a file aside is what would have come without.
LEMMA AsideMoves ==
  ASSUME TypeOK, TodoOK, NEW c \in Clients, NEW stage \in {"profiles", "merge"}, At(c, stage),
         todo' = [todo EXCEPT ![c] = <<Aside(stage)>> \o Tail(@)], job' = job
  PROVE  Moved(c, Aside(stage))
<1> DEFINE list == todo[c]
           other == <<Aside(stage)>> \o Tail(list)
<1>1. list \in Seq(Stage) /\ list # <<>> /\ todo \in [Clients -> Seq(Stage)] /\ list[1] = stage
  BY DEF TypeOK, At, Busy
<1>2. Aside(stage) \in Stage /\ After(job[c].do, Aside(stage)) = After(job[c].do, stage)
  BY DEF Aside, Stage, After
<1>3. /\ other \in Seq(Stage) /\ Len(other) = Len(list) /\ other # <<>>
      /\ \A i \in 1..Len(list) : other[i] = IF i = 1 THEN Aside(stage) ELSE list[i]
      /\ Len(list) \in Nat /\ Len(list) >= 1
  BY <1>1, <1>2
<1>4. Linked(job[c].do, list)
  BY DEF TodoOK
<1>5. todo' = [todo EXCEPT ![c] = other]
  OBVIOUS
<1> HIDE DEF list, other
<1>6. Linked(job[c].do, other)
  <2> SUFFICES ASSUME NEW i \in 1..Len(list)
               PROVE  After(job[c].do, other[i]) = IF i = Len(list) THEN "done" ELSE other[i + 1]
    BY <1>3 DEF Linked
  <2>1. After(job[c].do, other[i]) = After(job[c].do, list[i])
    BY <1>1, <1>2, <1>3
  <2>2. i # Len(list) => i + 1 \in 1..Len(list) /\ i + 1 # 1
    BY <1>3
  <2> QED
    BY <1>3, <1>4, <2>1, <2>2 DEF Linked
<1>7. \A d \in Clients : todo'[d] = IF d = c THEN other ELSE todo[d]
  BY <1>1, <1>5
<1>8. todo' \in [Clients -> Seq(Stage)]
  BY <1>1, <1>3, <1>5
<1>9. Head(other) = Aside(stage)
  BY <1>3
<1>10. \A d \in Clients : Place(d)' = IF d = c THEN Aside(stage) ELSE Place(d)
  BY <1>3, <1>7, <1>9 DEF Place, Busy
<1>11. Aside(stage) \notin KeyStages
  BY DEF Aside, KeyStages
<1> QED
  BY <1>6, <1>7, <1>8, <1>10, <1>11 DEF Moved, TodoOK

-----------------------------------------------------------------------------
(* One client at a time: it is enough to look at that one *)

LEMMA OthersAreDone ==
  ASSUME SettingsInv, todo \in [Clients -> Seq(Stage)], NEW c \in Clients, Busy(c),
         NEW d \in Clients, d # c
  PROVE  Place(d) = "done"
  BY PlaceIsStage DEF SettingsInv, OneAtATime

LEMMA SettingsSuffice ==
  ASSUME SettingsInv, todo \in [Clients -> Seq(Stage)], NEW c \in Clients, Busy(c),
         NEW to, Moved(c, to), (file.holds = believed)', WritesTheMeant(c)',
         (typed # 0 => file.edit = typed \/ rescue.edit = typed)'
  PROVE  SettingsInv'
<1>1. \A d \in Clients : d # c => Place(d)' = "done"
  BY OthersAreDone DEF Moved
<1>2. OneAtATime'
  BY <1>1 DEF OneAtATime
<1>3. \A d \in Clients : d # c => WritesTheMeant(d)'
  BY <1>1 DEF WritesTheMeant
<1> QED
  BY <1>2, <1>3 DEF SettingsInv

LEMMA KeysSuffice ==
  ASSUME SettingsInv, todo \in [Clients -> Seq(Stage)], NEW c \in Clients, Busy(c),
         NEW to, Moved(c, to), KeepsTheKeys(c)',
         \/ keyfile' = "whole" /\ Covered(keys)' /\ to # "write_keys"
         \/ keyfile' = "empty" /\ to = "write_keys"
  PROVE  KeysInv'
<1>1. \A d \in Clients : d # c => Place(d)' = "done"
  BY OthersAreDone DEF Moved
<1>2. Place(c)' = to
  BY DEF Moved
<1>3. \A d \in Clients : d # c => KeepsTheKeys(d)'
  BY <1>1 DEF KeepsTheKeys, KeyStages
<1> QED
  BY <1>1, <1>2, <1>3 DEF KeysInv

\* What the keys look like while a client is at work on its own.
LEMMA KeysOfOne ==
  ASSUME SettingsInv, KeysInv, todo \in [Clients -> Seq(Stage)], NEW c \in Clients, Busy(c)
  PROVE  IF Place(c) = "write_keys" THEN keyfile = "empty"
         ELSE keyfile = "whole" /\ Covered(keys)
  BY OthersAreDone, PlaceIsStage DEF KeysInv

-----------------------------------------------------------------------------
(* The key file *)

LEMMA ReadKeysKeeps == ASSUME IInv, NEW c \in Clients, ReadKeys(c) PROVE IInv'
<1> DEFINE to == IF keyfile = "garbled" \/ (~Storing(c) /\ job[c].id \notin keys)
                 THEN "done" ELSE "truncate"
<1>1. Busy(c) /\ Place(c) = "keys" /\ todo \in [Clients -> Seq(Stage)]
  BY DEF ReadKeys, At, Place, IInv, TypeOK
<1>2. UNCHANGED <<file, rescue, keys, keyfile, job, got, jobs, edits, history>>
  BY DEF ReadKeys
<1>3. Moved(c, to)
  BY <1>1, AdvanceMoves, LeaveMoves DEF ReadKeys, IInv, After
<1>4. Place(c)' = to
  BY <1>3 DEF Moved
<1>5. TypeOK'
  <2>1. entries' \in [Clients -> SUBSET Providers]
    <3>1. entries \in [Clients -> SUBSET Providers] /\ keys \cup {job[c].id} \in SUBSET Providers
          /\ keys \ {job[c].id} \in SUBSET Providers
      BY DEF IInv, TypeOK, Job
    <3> QED
      BY <3>1 DEF ReadKeys
  <2> QED
    BY <1>2, <1>3, <2>1 DEF IInv, TypeOK, Moved, history
<1>6. EditsOK' /\ TextsOK'
  BY <1>2 DEF IInv, EditsOK, TextsOK, history
<1>7. ASSUME ~overlapped' PROVE SettingsInv'
  <2>1. SettingsInv
    BY <1>2, <1>7 DEF IInv, history
  <2>2. WritesTheMeant(c)'
    BY <1>4 DEF WritesTheMeant
  <2> QED
    BY <1>1, <1>2, <1>3, <2>1, <2>2, SettingsSuffice DEF SettingsInv, history
<1>8. ASSUME ~overlapped', ~tornKeys' PROVE KeysInv'
  <2>1. SettingsInv /\ KeysInv
    BY <1>2, <1>8 DEF IInv, history
  <2>2. keyfile = "whole" /\ Covered(keys)
    BY <1>1, <2>1, KeysOfOne
  <2>3. KeepsTheKeys(c)
    BY <2>1 DEF KeysInv
  <2>4. CASE to = "done"
    <3>1. KeepsTheKeys(c)'
      BY <1>4, <2>4 DEF KeepsTheKeys, KeyStages
    <3>2. Covered(keys)'
      BY <1>2, <2>2 DEF Covered, history
    <3> QED
      BY <1>1, <1>2, <1>3, <2>1, <2>2, <2>4, <3>1, <3>2, KeysSuffice DEF history
  <2>5. CASE to = "truncate"
    <3>1. entries'[c] = IF Storing(c) THEN keys \cup {job[c].id} ELSE keys \ {job[c].id}
      BY <1>1, <2>5 DEF ReadKeys, IInv, TypeOK
    <3>2. job[c] \in Job
      BY DEF IInv, TypeOK
    <3>3. job[c].do \in KeyJobs
      BY <1>1 DEF IInv, TodoOK, KeyStages
    <3>4. Covered(entries[c] \cup (IF job[c].do = "drop_key" THEN {job[c].id} ELSE {}))'
      BY <1>1, <1>2, <2>2, <2>3, <3>1, <3>3
         DEF Covered, KeepsTheKeys, KeyJobs, KeyStages, Storing, history
    <3>5. KeepsTheKeys(c)'
      BY <1>1, <1>2, <1>4, <2>3, <2>5, <3>1, <3>4 DEF KeepsTheKeys, KeyStages, Storing, history
    <3>6. Covered(keys)'
      BY <1>2, <2>2 DEF Covered, history
    <3> QED
      BY <1>1, <1>2, <1>3, <2>1, <2>2, <2>5, <3>5, <3>6, KeysSuffice DEF history
  <2> QED
    BY <2>4, <2>5
<1> QED
  BY <1>3, <1>5, <1>6, <1>7, <1>8 DEF IInv, Moved

LEMMA TruncateKeeps == ASSUME IInv, NEW c \in Clients, Truncate(c) PROVE IInv'
<1>1. Busy(c) /\ Place(c) = "truncate" /\ todo \in [Clients -> Seq(Stage)]
  BY DEF Truncate, At, Place, IInv, TypeOK
<1>2. UNCHANGED <<file, rescue, job, got, entries, jobs, edits, history>>
  BY DEF Truncate
<1>3. Moved(c, "write_keys")
  BY <1>1, AdvanceMoves DEF Truncate, IInv, After
<1>4. Place(c)' = "write_keys"
  BY <1>3 DEF Moved
<1>5. TypeOK'
  BY <1>2, <1>3 DEF IInv, TypeOK, Moved, history, Truncate
<1>6. EditsOK' /\ TextsOK'
  BY <1>2 DEF IInv, EditsOK, TextsOK, history
<1>7. ASSUME ~overlapped' PROVE SettingsInv'
  <2>1. SettingsInv
    BY <1>2, <1>7 DEF IInv, history
  <2>2. WritesTheMeant(c)'
    BY <1>4 DEF WritesTheMeant
  <2> QED
    BY <1>1, <1>2, <1>3, <2>1, <2>2, SettingsSuffice DEF SettingsInv, history
<1>8. ASSUME ~overlapped', ~tornKeys' PROVE KeysInv'
  <2>1. SettingsInv /\ KeysInv
    BY <1>2, <1>8 DEF IInv, history
  <2>2. KeepsTheKeys(c)'
    BY <1>1, <1>2, <1>4, <2>1 DEF KeysInv, KeepsTheKeys, KeyStages, Covered, Storing, history
  <2>3. keyfile' = "empty"
    BY DEF Truncate
  <2> QED
    BY <1>1, <1>3, <2>1, <2>2, <2>3, KeysSuffice
<1> QED
  BY <1>3, <1>5, <1>6, <1>7, <1>8 DEF IInv, Moved

LEMMA WriteKeysKeeps == ASSUME IInv, NEW c \in Clients, WriteKeys(c) PROVE IInv'
<1> DEFINE to == IF job[c].do = "save" THEN "parse" ELSE "done"
<1>1. Busy(c) /\ Place(c) = "write_keys" /\ todo \in [Clients -> Seq(Stage)]
  BY DEF WriteKeys, At, Place, IInv, TypeOK
<1>2. UNCHANGED <<file, rescue, job, got, entries, jobs, edits, believed, typed, tornKeys,
                  overlapped>>
  BY DEF WriteKeys
<1>3. Moved(c, to)
  BY <1>1, AdvanceMoves DEF WriteKeys, IInv, After
<1>4. Place(c)' = to
  BY <1>3 DEF Moved
<1>5. TypeOK'
  <2>1. entries[c] \subseteq Providers /\ job[c].id \in Providers
    BY DEF IInv, TypeOK, Job
  <2>2. /\ keys' \subseteq Providers /\ keyfile' \in {"whole", "empty", "garbled"}
        /\ keyfile' # "whole" => keys' = {}
    BY <2>1 DEF WriteKeys
  <2>3. disowned' \subseteq Providers
    BY <2>1 DEF WriteKeys, IInv, TypeOK
  <2> QED
    BY <1>2, <1>3, <2>2, <2>3 DEF IInv, TypeOK, Moved
<1>6. EditsOK' /\ TextsOK'
  BY <1>2 DEF IInv, EditsOK, TextsOK
<1>7. ASSUME ~overlapped' PROVE SettingsInv'
  <2>1. SettingsInv
    BY <1>2, <1>7 DEF IInv
  <2>2. WritesTheMeant(c)'
    BY <1>4 DEF WritesTheMeant
  <2> QED
    BY <1>1, <1>2, <1>3, <2>1, <2>2, SettingsSuffice DEF SettingsInv
<1>8. ASSUME ~overlapped', ~tornKeys' PROVE KeysInv'
  <2>1. SettingsInv /\ KeysInv
    BY <1>2, <1>8 DEF IInv
  <2>2. keyfile = "empty"
    BY <1>1, <2>1, KeysOfOne
  <2>3. keyfile' = "whole" /\ keys' = entries[c]
    BY <2>2 DEF WriteKeys
  <2>4. KeepsTheKeys(c) /\ job[c].do \in KeyJobs
    BY <1>1, <2>1 DEF KeysInv, IInv, TodoOK, KeyStages
  <2>5. Covered(keys)'
    BY <1>1, <1>2, <2>3, <2>4 DEF WriteKeys, Covered, KeepsTheKeys, Storing
  <2>6. job[c].do = "save" => job[c].id \in keys'
    BY <1>1, <2>3, <2>4 DEF KeepsTheKeys, Storing
  <2>7. KeepsTheKeys(c)'
    BY <1>2, <1>4, <2>6 DEF KeepsTheKeys, KeyStages
  <2> QED
    BY <1>1, <1>3, <2>1, <2>3, <2>5, <2>7, KeysSuffice
<1> QED
  BY <1>3, <1>5, <1>6, <1>7, <1>8 DEF IInv, Moved

-----------------------------------------------------------------------------
(* The settings file *)

LEMMA ParseKeeps == ASSUME IInv, NEW c \in Clients, Parse(c) PROVE IInv'
<1>1. Busy(c) /\ Place(c) = "parse" /\ todo \in [Clients -> Seq(Stage)]
  BY DEF Parse, At, Place, IInv, TypeOK
<1>2. UNCHANGED <<file, rescue, keys, keyfile, job, got, entries, jobs, edits, history>>
  BY DEF Parse
<1>3. PICK to \in {"profiles", "done"} : Moved(c, to)
  BY <1>1, AdvanceMoves, LeaveMoves DEF Parse, IInv, After
<1>4. Place(c)' = to
  BY <1>3 DEF Moved
<1>5. TypeOK'
  BY <1>2, <1>3 DEF IInv, TypeOK, Moved, history
<1>6. EditsOK' /\ TextsOK'
  BY <1>2 DEF IInv, EditsOK, TextsOK, history
<1>7. ASSUME ~overlapped' PROVE SettingsInv'
  <2>1. SettingsInv
    BY <1>2, <1>7 DEF IInv, history
  <2>2. WritesTheMeant(c)'
    BY <1>4 DEF WritesTheMeant
  <2> QED
    BY <1>1, <1>2, <1>3, <2>1, <2>2, SettingsSuffice DEF SettingsInv, history
<1>8. ASSUME ~overlapped', ~tornKeys' PROVE KeysInv'
  <2>1. SettingsInv /\ KeysInv
    BY <1>2, <1>8 DEF IInv, history
  <2>2. keyfile = "whole" /\ Covered(keys)
    BY <1>1, <2>1, KeysOfOne
  <2>3. KeepsTheKeys(c)'
    BY <1>1, <1>2, <1>4, <2>1 DEF KeysInv, KeepsTheKeys, KeyStages
  <2>4. Covered(keys)'
    BY <1>2, <2>2 DEF Covered, history
  <2> QED
    BY <1>1, <1>2, <1>3, <2>1, <2>2, <2>3, <2>4, KeysSuffice
<1> QED
  BY <1>3, <1>5, <1>6, <1>7, <1>8 DEF IInv, Moved

\* What an operation makes of settings that nobody else has changed is what the
\* person meant it to.
LEMMA PatchedIsMeant ==
  ASSUME NEW j \in Job, NEW content \in Content,
         NEW profiles \in [Providers -> {"none", "stored", "own"}]
  PROVE  /\ Patched(j, profiles, content) \in Content
         /\ (j.do \notin Preferences => profiles = content.profiles)
                => Patched(j, profiles, content) = Meant(j, content)
<1> USE DEF Job, Content
<1>1. Patched(j, profiles, content) \in Content
  BY DEF Patched
<1>2. ASSUME j.do \notin Preferences => profiles = content.profiles
      PROVE  Patched(j, profiles, content) = Meant(j, content)
  <2>1. Patched(j, profiles, content).preference = Meant(j, content).preference
    BY DEF Patched, Meant
  <2>2. \A p \in Providers :
          Patched(j, profiles, content).profiles[p] = Meant(j, content).profiles[p]
    BY <1>2 DEF Patched, Meant, Preferences
  <2>3. Meant(j, content) \in Content
    BY DEF Meant
  <2> QED
    BY <1>1, <2>1, <2>2, <2>3
<1> QED
  BY <1>1, <1>2

\* Where an operation goes with what a load returned it.
AfterLoad(c, stage, content) ==
    IF stage = "merge" THEN "replace"
    ELSE IF job[c].do \in {"remove", "remove_and_purge"} /\ content.profiles[job[c].id] = "none"
    THEN "done"
    ELSE IF job[c].do = "list" THEN "done" ELSE "merge"

LEMMA LoadedMoves ==
  ASSUME TypeOK, TodoOK, NEW c \in Clients, NEW stage \in {"profiles", "merge"},
         At(c, stage) \/ At(c, Aside(stage)), NEW content \in Content,
         Loaded(c, stage, content), job' = job
  PROVE  /\ Moved(c, AfterLoad(c, stage, content))
         /\ got' \in [Clients -> Content]
         /\ got'[c] = IF stage = "merge" THEN Patched(job[c], got[c].profiles, content)
                      ELSE content
<1>1. Busy(c) /\ Place(c) \in {stage, Aside(stage)}
  BY DEF At, Place
<1>2. After(job[c].do, Place(c)) =
        IF stage = "merge" THEN "replace" ELSE IF job[c].do = "list" THEN "done" ELSE "merge"
  BY <1>1 DEF After, Aside
<1>3. CASE stage = "merge"
  <2>1. Moved(c, "replace")
    BY <1>1, <1>2, <1>3, AdvanceMoves DEF Loaded
  <2>2. Patched(job[c], got[c].profiles, content) \in Content
    BY PatchedIsMeant DEF TypeOK, Content
  <2>3. got' = [got EXCEPT ![c] = Patched(job[c], got[c].profiles, content)]
    BY <1>3 DEF Loaded
  <2> QED
    BY <1>3, <2>1, <2>2, <2>3 DEF AfterLoad, TypeOK
<1>4. CASE stage = "profiles"
  <2>1. Moved(c, AfterLoad(c, stage, content))
    BY <1>1, <1>2, <1>4, AdvanceMoves, LeaveMoves DEF Loaded, AfterLoad
  <2>2. got' = [got EXCEPT ![c] = content]
    BY <1>4 DEF Loaded
  <2> QED
    BY <1>4, <2>1, <2>2 DEF TypeOK
<1> QED
  BY <1>3, <1>4

\* A load that returned what every save so far was meant to make of the settings
\* leaves its client with the profiles as they are meant to be, or with what
\* it was asked to write.
LEMMA LoadedIsMeant ==
  ASSUME TypeOK, TodoOK, NEW c \in Clients, NEW stage \in {"profiles", "merge"},
         At(c, stage) \/ At(c, Aside(stage)), NEW content \in Content,
         Loaded(c, stage, content), job' = job, content = believed', (file.kind # "text")',
         stage = "merge" /\ job[c].do \notin Preferences => got[c].profiles = content.profiles
  PROVE  WritesTheMeant(c)'
<1> DEFINE to == AfterLoad(c, stage, content)
<1>1. Place(c)' = to
  BY LoadedMoves DEF Moved
<1>2. to \in {"replace", "done", "merge"} /\ (to = "replace" <=> stage = "merge")
  BY DEF AfterLoad
<1>3. stage = "merge" => got'[c] = Meant(job'[c], believed')
  <2>1. job[c] \in Job /\ got[c].profiles \in [Providers -> {"none", "stored", "own"}]
    BY DEF TypeOK, Content
  <2> QED
    BY <2>1, LoadedMoves, PatchedIsMeant
<1>4. stage = "profiles" => got'[c].profiles = believed'.profiles
  BY LoadedMoves
<1> QED
  BY <1>1, <1>2, <1>3, <1>4 DEF WritesTheMeant

LEMMA ContentTypes ==
  ASSUME TypeOK
  PROVE  file.holds \in Content /\ Defaults \in Content /\ Absent \in File
  BY DEF TypeOK, File, Content, Defaults, Absent

LEMMA LoadKeeps ==
  ASSUME IInv, NEW c \in Clients, NEW stage \in {"profiles", "merge"}, Load(c, stage)
  PROVE  IInv'
<1>1. Busy(c) /\ Place(c) = stage /\ todo \in [Clients -> Seq(Stage)] /\ At(c, stage)
  BY DEF Load, At, Place, IInv, TypeOK
<1>2. UNCHANGED <<file, rescue, keys, keyfile, job, entries, jobs, edits, history>>
  BY DEF Load
<1> DEFINE to == IF file.kind = "text" THEN Aside(stage) ELSE AfterLoad(c, stage, file.holds)
<1>3. Moved(c, to) /\ got' \in [Clients -> Content]
  <2>1. CASE file.kind = "text"
    BY <1>1, <1>2, <2>1, AsideMoves DEF Load, IInv, TypeOK
  <2>2. CASE file.kind # "text"
    BY <1>1, <1>2, <2>2, LoadedMoves, ContentTypes DEF Load, IInv
  <2> QED
    BY <2>1, <2>2
<1>4. Place(c)' = to
  BY <1>3 DEF Moved
<1>5. TypeOK'
  BY <1>2, <1>3 DEF IInv, TypeOK, Moved, history
<1>6. EditsOK' /\ TextsOK'
  BY <1>2 DEF IInv, EditsOK, TextsOK, history
<1>7. ASSUME ~overlapped' PROVE SettingsInv'
  <2>1. SettingsInv
    BY <1>2, <1>7 DEF IInv, history
  <2>2. WritesTheMeant(c)'
    <3>1. CASE file.kind = "text"
      <4>1. got' = got /\ file'.kind = "text" /\ to = Aside(stage)
        BY <1>2, <3>1 DEF Load
      <4> QED
        BY <1>1, <1>2, <1>4, <2>1, <4>1 DEF WritesTheMeant, SettingsInv, Aside, history
    <3>2. CASE file.kind # "text"
      <4>1. Loaded(c, stage, file.holds) /\ file.holds = believed'
        BY <1>2, <2>1, <3>2 DEF Load, SettingsInv, history
      <4>2. stage = "merge" /\ job[c].do \notin Preferences
              => got[c].profiles = file.holds.profiles
        BY <1>1, <2>1 DEF SettingsInv, WritesTheMeant
      <4> QED
        BY <1>1, <1>2, <3>2, <4>1, <4>2, LoadedIsMeant, ContentTypes DEF IInv
    <3> QED
      BY <3>1, <3>2
  <2> QED
    BY <1>1, <1>2, <1>3, <2>1, <2>2, SettingsSuffice DEF SettingsInv, history
<1>8. ASSUME ~overlapped', ~tornKeys' PROVE KeysInv'
  <2>1. SettingsInv /\ KeysInv
    BY <1>2, <1>8 DEF IInv, history
  <2>2. keyfile = "whole" /\ Covered(keys)
    BY <1>1, <2>1, KeysOfOne
  <2>3. to \notin KeyStages
    BY DEF KeyStages, Aside, AfterLoad
  <2>4. KeepsTheKeys(c)'
    BY <1>1, <1>2, <1>4, <2>1, <2>3 DEF KeysInv, KeepsTheKeys, KeyStages
  <2>5. Covered(keys)'
    BY <1>2, <2>2 DEF Covered, history
  <2> QED
    BY <1>1, <1>2, <1>3, <2>1, <2>2, <2>3, <2>4, <2>5, KeysSuffice DEF KeyStages
<1> QED
  BY <1>3, <1>5, <1>6, <1>7, <1>8 DEF IInv, Moved

LEMMA QuarantineKeeps ==
  ASSUME IInv, NEW c \in Clients, NEW stage \in {"profiles", "merge"}, Quarantine(c, stage)
  PROVE  IInv'
<1>1. /\ Busy(c) /\ Place(c) = Aside(stage) /\ todo \in [Clients -> Seq(Stage)]
      /\ At(c, Aside(stage))
  BY DEF Quarantine, At, Place, IInv, TypeOK
<1>2. UNCHANGED <<keys, keyfile, job, entries, jobs, edits, typed, disowned, tornKeys,
                  overlapped>>
  BY DEF Quarantine
<1> DEFINE to == AfterLoad(c, stage, Defaults)
<1>3. Moved(c, to) /\ got' \in [Clients -> Content]
  BY <1>1, <1>2, LoadedMoves, ContentTypes DEF Quarantine, IInv
<1>4. Place(c)' = to
  BY <1>3 DEF Moved
<1>5. file' = Absent /\ file'.kind = "absent" /\ file'.edit = 0 /\ file'.holds = Defaults
  BY DEF Quarantine, Absent
<1>6. TypeOK'
  <2>1. rescue' \in File /\ (rescue'.edit # 0 => rescue'.kind = "text")
    BY DEF Quarantine, IInv, TypeOK
  <2>2. file' \in File /\ believed' \in Content
    BY <1>5, ContentTypes DEF Quarantine, IInv, TypeOK
  <2> QED
    BY <1>2, <1>3, <1>5, <2>1, <2>2 DEF IInv, TypeOK, Moved
<1>7. EditsOK' /\ TextsOK'
  <2>1. rescue'.edit <= edits
    BY DEF Quarantine, IInv, EditsOK
  <2>2. edits \in Nat
    BY DEF IInv, TypeOK
  <2> QED
    BY <1>2, <1>5, <2>1, <2>2 DEF EditsOK, TextsOK
<1>8. ASSUME ~overlapped' PROVE SettingsInv' /\ believed' = believed
  <2>1. SettingsInv
    BY <1>2, <1>8 DEF IInv
  <2>2. file.kind = "text"
    BY <1>1, <2>1 DEF SettingsInv, WritesTheMeant, Aside
  <2>3. believed' = Defaults /\ believed = Defaults /\ rescue'.edit = typed
    BY <2>2 DEF Quarantine, IInv, TextsOK
  <2>4. stage = "merge" /\ job[c].do \notin Preferences => got[c].profiles = Defaults.profiles
    BY <1>1, <2>1, <2>3 DEF SettingsInv, WritesTheMeant, Aside
  <2>5. WritesTheMeant(c)'
    BY <1>1, <1>2, <1>5, <2>3, <2>4, LoadedIsMeant, ContentTypes DEF Quarantine, IInv
  <2> QED
    BY <1>1, <1>2, <1>3, <1>5, <2>1, <2>3, <2>5, SettingsSuffice
<1>9. ASSUME ~overlapped', ~tornKeys' PROVE KeysInv'
  <2>1. SettingsInv /\ KeysInv /\ believed' = believed
    BY <1>2, <1>8, <1>9 DEF IInv
  <2>2. keyfile = "whole" /\ Covered(keys)
    BY <1>1, <2>1, KeysOfOne DEF Aside
  <2>3. to \notin KeyStages
    BY DEF KeyStages, AfterLoad
  <2>4. KeepsTheKeys(c)'
    BY <1>1, <1>2, <1>4, <2>1, <2>3 DEF KeysInv, KeepsTheKeys, KeyStages, Aside
  <2>5. Covered(keys)'
    BY <1>2, <2>1, <2>2 DEF Covered
  <2> QED
    BY <1>1, <1>2, <1>3, <2>1, <2>2, <2>3, <2>4, <2>5, KeysSuffice DEF KeyStages
<1> QED
  BY <1>3, <1>6, <1>7, <1>8, <1>9 DEF IInv, Moved

LEMMA ReplaceKeeps == ASSUME IInv, NEW c \in Clients, Replace(c) PROVE IInv'
<1>1. Busy(c) /\ Place(c) = "replace" /\ todo \in [Clients -> Seq(Stage)]
  BY DEF Replace, At, Place, IInv, TypeOK
<1>2. UNCHANGED <<rescue, keys, keyfile, job, got, entries, jobs, edits, typed, disowned,
                  tornKeys, overlapped>>
  BY DEF Replace
<1> DEFINE to == IF job[c].do = "remove_and_purge" THEN "keys" ELSE "done"
<1>3. Moved(c, to)
  BY <1>1, AdvanceMoves DEF Replace, IInv, After
<1>4. Place(c)' = to
  BY <1>3 DEF Moved
<1>5. /\ file'.kind = "settings" /\ file'.edit = 0 /\ file'.holds = got[c]
      /\ file' = [kind |-> "settings", edit |-> 0, holds |-> got[c]]
  BY DEF Replace, Settings
<1>6. job[c] \in Job /\ believed \in Content /\ got[c] \in Content
  BY DEF IInv, TypeOK
<1>7. TypeOK'
  <2>1. believed' \in Content
    BY <1>6 DEF Replace, Meant, Content, Job
  <2>2. file' \in File
    BY <1>5, <1>6 DEF File
  <2> QED
    BY <1>2, <1>3, <1>5, <2>1, <2>2 DEF IInv, TypeOK, Moved
<1>8. EditsOK' /\ TextsOK'
  BY <1>2, <1>5 DEF IInv, EditsOK, TextsOK, TypeOK
<1>9. ASSUME ~overlapped' PROVE SettingsInv'
  <2>1. SettingsInv
    BY <1>2, <1>9 DEF IInv
  <2>2. file.kind # "text" /\ got[c] = Meant(job[c], believed)
    BY <1>1, <2>1 DEF SettingsInv, WritesTheMeant
  <2>3. (file.holds = believed)'
    BY <1>5, <2>2 DEF Replace
  <2>4. typed # 0 => rescue.edit = typed
    BY <2>1, <2>2 DEF SettingsInv, IInv, TypeOK
  <2>5. WritesTheMeant(c)'
    BY <1>4 DEF WritesTheMeant
  <2> QED
    BY <1>1, <1>2, <1>3, <2>1, <2>3, <2>4, <2>5, SettingsSuffice
<1>10. ASSUME ~overlapped', ~tornKeys' PROVE KeysInv'
  <2>1. SettingsInv /\ KeysInv
    BY <1>2, <1>10 DEF IInv
  <2>2. keyfile = "whole" /\ Covered(keys)
    BY <1>1, <2>1, KeysOfOne
  <2>3. job[c].do = "save" => job[c].id \in keys
    BY <1>1, <2>1 DEF KeysInv, KeepsTheKeys, KeyStages
  <2>4. \A p \in Providers : believed'.profiles[p] =
          IF p # job[c].id \/ job[c].do \in Preferences THEN believed.profiles[p]
          ELSE IF job[c].do = "save" THEN "stored"
          ELSE IF job[c].do = "save_reference" THEN "own" ELSE "none"
    BY DEF Replace, Meant, Preferences
  <2>5. Covered(keys)'
    BY <1>2, <2>2, <2>3, <2>4 DEF Covered
  <2>6. job[c].do = "remove_and_purge" => believed'.profiles[job[c].id] # "stored"
    BY <1>6, <2>4 DEF Job, Preferences
  <2>7. KeepsTheKeys(c)'
    BY <1>2, <1>4, <2>6 DEF KeepsTheKeys, KeyStages
  <2> QED
    BY <1>1, <1>2, <1>3, <2>1, <2>2, <2>5, <2>7, KeysSuffice
<1> QED
  BY <1>3, <1>7, <1>8, <1>9, <1>10 DEF IInv, Moved

LEMMA ClientDiesKeeps == ASSUME IInv, NEW c \in Clients, ClientDies(c) PROVE IInv'
<1>1. Busy(c) /\ todo \in [Clients -> Seq(Stage)]
  BY DEF ClientDies, IInv, TypeOK
<1>2. UNCHANGED <<file, rescue, keys, keyfile, job, got, entries, jobs, edits,
                  believed, typed, disowned, overlapped>>
  BY DEF ClientDies
<1>3. Moved(c, "done")
  BY LeaveMoves DEF ClientDies, IInv
<1>4. Place(c)' = "done"
  BY <1>3 DEF Moved
<1>5. TypeOK'
  BY <1>2, <1>3 DEF IInv, TypeOK, Moved, ClientDies
<1>6. EditsOK' /\ TextsOK'
  BY <1>2 DEF IInv, EditsOK, TextsOK
<1>7. ASSUME ~overlapped' PROVE SettingsInv'
  <2>1. SettingsInv
    BY <1>2, <1>7 DEF IInv
  <2>2. WritesTheMeant(c)'
    BY <1>4 DEF WritesTheMeant
  <2> QED
    BY <1>1, <1>2, <1>3, <2>1, <2>2, SettingsSuffice DEF SettingsInv
<1>8. ASSUME ~overlapped', ~tornKeys' PROVE KeysInv'
  <2>1. SettingsInv /\ KeysInv /\ Place(c) # "write_keys"
    <3>1. ~tornKeys /\ ~At(c, "write_keys")
      BY <1>8 DEF ClientDies
    <3> QED
      BY <1>1, <1>2, <1>8, <3>1 DEF IInv, At, Place
  <2>2. keyfile = "whole" /\ Covered(keys)
    BY <1>1, <2>1, KeysOfOne
  <2>3. KeepsTheKeys(c)'
    BY <1>4 DEF KeepsTheKeys, KeyStages
  <2>4. Covered(keys)'
    BY <1>2, <2>2 DEF Covered
  <2> QED
    BY <1>1, <1>2, <1>3, <2>1, <2>2, <2>3, <2>4, KeysSuffice
<1> QED
  BY <1>3, <1>5, <1>6, <1>7, <1>8 DEF IInv, Moved

-----------------------------------------------------------------------------
(* Steps that are taken while nobody is at work, or end the one-at-a-time *)

LEMMA NobodyAtWork ==
  ASSUME todo \in [Clients -> Seq(Stage)], \A d \in Clients : ~Busy(d)
  PROVE  \A d \in Clients : Place(d) = "done"
  BY DEF Place

LEMMA BeginKeeps == ASSUME IInv, NEW c \in Clients, Begin(c) PROVE IInv'
<1>1. PICK j \in Job : /\ job' = [job EXCEPT ![c] = j]
                       /\ todo' = [todo EXCEPT ![c] = Stages(j.do)]
  BY DEF Begin
<1>2. UNCHANGED <<file, rescue, keys, keyfile, edits, believed, typed, disowned, tornKeys>>
  BY DEF Begin
<1>3. j.do \in Actions /\ j.id \in Providers /\ todo \in [Clients -> Seq(Stage)]
  BY DEF Job, IInv, TypeOK
<1>4. /\ Stages(j.do) \in Seq(Stage) /\ Stages(j.do) # <<>>
      /\ Head(Stages(j.do)) = First(j.do) /\ Linked(j.do, Stages(j.do))
  BY <1>3, StagesOK
<1>5. \A d \in Clients : /\ todo'[d] = IF d = c THEN Stages(j.do) ELSE todo[d]
                         /\ job'[d] = IF d = c THEN j ELSE job[d]
  BY <1>1, <1>3 DEF IInv, TypeOK
<1>6. \A d \in Clients : Place(d)' = IF d = c THEN First(j.do) ELSE Place(d)
  BY <1>4, <1>5 DEF Place, Busy
<1>7. First(j.do) \in {"keys", "parse", "profiles", "merge"}
  BY <1>3 DEF First, Actions
<1>8. /\ First(j.do) = "keys" <=> j.do \in {"save", "set_key", "drop_key"}
      /\ First(j.do) = "merge" <=> j.do \in Preferences
  BY <1>3 DEF First, Actions, Preferences
<1>9. TypeOK'
  <2>1. todo' \in [Clients -> Seq(Stage)] /\ job' \in [Clients -> Job]
    BY <1>1, <1>3, <1>4 DEF IInv, TypeOK
  <2>2. got' \in [Clients -> Content] /\ entries' \in [Clients -> SUBSET Providers]
    BY ContentTypes DEF IInv, TypeOK, Begin
  <2>3. jobs' \in 0..MaxJobs /\ overlapped' \in BOOLEAN
    BY DEF IInv, TypeOK, Begin
  <2> QED
    BY <1>2, <2>1, <2>2, <2>3 DEF IInv, TypeOK
<1>10. TodoOK'
  BY <1>4, <1>5, <1>6, <1>7, <1>8 DEF IInv, TodoOK, KeyStages, KeyJobs
<1>11. EditsOK' /\ TextsOK'
  BY <1>2 DEF IInv, EditsOK, TextsOK
<1>12. ASSUME ~overlapped' PROVE ~overlapped /\ \A d \in Clients : d # c => Place(d)' = "done"
  BY <1>3, <1>6, <1>12, NobodyAtWork DEF Begin
<1>13. ASSUME ~overlapped' PROVE SettingsInv'
  <2>1. SettingsInv
    BY <1>12, <1>13 DEF IInv
  <2>2. OneAtATime'
    BY <1>12, <1>13 DEF OneAtATime
  <2>3. WritesTheMeant(c)'
    BY <1>5, <1>6, <1>7, <1>8 DEF WritesTheMeant
  <2>4. \A d \in Clients : d # c => WritesTheMeant(d)'
    BY <1>12, <1>13 DEF WritesTheMeant
  <2> QED
    BY <1>2, <2>1, <2>2, <2>3, <2>4 DEF SettingsInv
<1>14. ASSUME ~overlapped', ~tornKeys' PROVE KeysInv'
  <2>1. KeysInv /\ \A d \in Clients : Place(d) = "done"
    <3>1. \A d \in Clients : ~Busy(d)
      BY <1>14 DEF Begin
    <3> QED
      BY <1>2, <1>3, <1>12, <1>14, <3>1, NobodyAtWork DEF IInv
  <2>2. keyfile' = "whole" /\ Covered(keys)'
    BY <1>2, <2>1 DEF KeysInv, Covered
  <2>3. KeepsTheKeys(c)'
    BY <1>5, <1>6, <1>7, <1>8 DEF KeepsTheKeys, KeyStages, Preferences
  <2>4. \A d \in Clients : d # c => KeepsTheKeys(d)'
    BY <1>12, <1>14 DEF KeepsTheKeys, KeyStages
  <2>5. \A d \in Clients : Place(d)' # "write_keys"
    BY <1>6, <1>7, <2>1
  <2> QED
    BY <2>2, <2>3, <2>4, <2>5 DEF KeysInv
<1> QED
  BY <1>9, <1>10, <1>11, <1>13, <1>14 DEF IInv

\* While nobody is at work, the invariants are about the files alone.
LEMMA QuietIsEnough ==
  ASSUME IInv, UNCHANGED <<todo, job>>, TypeOK', EditsOK', TextsOK',
         ~overlapped' => /\ ~overlapped /\ (\A d \in Clients : ~Busy(d))
                         /\ (file.holds = believed)'
                         /\ (typed # 0 => file.edit = typed \/ rescue.edit = typed)',
         believed' = Defaults, UNCHANGED <<keys, keyfile, disowned, tornKeys>>
  PROVE  IInv'
<1>1. todo \in [Clients -> Seq(Stage)]
  BY DEF IInv, TypeOK
<1>2. \A d \in Clients : Place(d)' = Place(d)
  BY DEF Place, Busy
<1>3. TodoOK'
  BY <1>2 DEF IInv, TodoOK
<1>4. ASSUME ~overlapped' PROVE \A d \in Clients : Place(d) = "done" /\ Place(d)' = "done"
  BY <1>1, <1>2, <1>4, NobodyAtWork
<1>5. ASSUME ~overlapped' PROVE SettingsInv'
  BY <1>4, <1>5 DEF SettingsInv, OneAtATime, WritesTheMeant
<1>6. ASSUME ~overlapped', ~tornKeys' PROVE KeysInv'
  <2>1. keyfile' = "whole"
    BY <1>4, <1>6 DEF IInv, KeysInv
  <2>2. Covered(keys)'
    BY DEF Covered, Defaults
  <2>3. \A d \in Clients : KeepsTheKeys(d)'
    BY <1>4, <1>6 DEF KeepsTheKeys, KeyStages
  <2> QED
    BY <1>4, <1>6, <2>1, <2>2, <2>3 DEF KeysInv
<1> QED
  BY <1>3, <1>5, <1>6 DEF IInv

LEMMA ResetAllKeeps == ASSUME IInv, ResetAll PROVE IInv'
<1>1. UNCHANGED <<rescue, keys, keyfile, todo, job, got, entries, jobs, edits, disowned,
                  tornKeys>>
  BY DEF ResetAll, clientVars
<1>2. /\ file' = Absent /\ file'.kind = "absent" /\ file'.edit = 0 /\ file'.holds = Defaults
      /\ believed' = Defaults
  BY DEF ResetAll, Absent
<1>3. TypeOK'
  <2>1. file' \in File /\ believed' \in Content
    BY <1>2, ContentTypes DEF IInv
  <2>2. typed' \in 0..edits /\ overlapped' \in BOOLEAN
    BY DEF ResetAll, IInv, TypeOK
  <2> QED
    BY <1>1, <1>2, <2>1, <2>2 DEF IInv, TypeOK
<1>4. EditsOK' /\ TextsOK'
  BY <1>1, <1>2 DEF IInv, EditsOK, TextsOK, TypeOK
<1>5. ASSUME ~overlapped'
      PROVE  /\ ~overlapped /\ \A d \in Clients : ~Busy(d)
             /\ (typed # 0 => file.edit = typed \/ rescue.edit = typed)'
  <2>1. ~overlapped /\ \A d \in Clients : ~Busy(d)
    BY <1>5 DEF ResetAll
  <2>2. SettingsInv
    BY <2>1 DEF IInv
  <2>3. typed' # 0 => rescue'.edit = typed'
    BY <1>1, <2>2 DEF ResetAll, SettingsInv, IInv, TypeOK
  <2> QED
    BY <2>1, <2>3
<1> QED
  BY <1>1, <1>2, <1>3, <1>4, <1>5, QuietIsEnough

LEMMA HandEditKeeps == ASSUME IInv, HandEdit PROVE IInv'
<1>1. UNCHANGED <<rescue, keys, keyfile, todo, job, got, entries, jobs, disowned, tornKeys,
                  overlapped>>
  BY DEF HandEdit, clientVars
<1>2. edits \in 0..MaxEdits /\ edits < MaxEdits /\ edits' = edits + 1 /\ edits' \in 1..MaxEdits
  BY DEF HandEdit, IInv, TypeOK
<1>3. /\ file' = [kind |-> "text", edit |-> edits', holds |-> Defaults]
      /\ file'.kind = "text" /\ file'.edit = edits' /\ file'.holds = Defaults
      /\ believed' = Defaults /\ typed' = edits'
  BY DEF HandEdit, Text
<1>4. TypeOK'
  <2>1. file' \in File /\ believed' \in Content
    BY <1>2, <1>3, ContentTypes DEF IInv, File
  <2>2. rescue.edit <= edits /\ rescue.edit \in Nat
    BY DEF IInv, EditsOK, TypeOK, File
  <2>3. rescue'.edit # file'.edit
    BY <1>1, <1>2, <1>3, <2>2
  <2> QED
    BY <1>1, <1>2, <1>3, <2>1, <2>3 DEF IInv, TypeOK
<1>5. EditsOK' /\ TextsOK'
  <2>1. rescue.edit <= edits /\ rescue.edit \in Nat
    BY DEF IInv, EditsOK, TypeOK, File
  <2> QED
    BY <1>1, <1>2, <1>3, <2>1 DEF EditsOK, TextsOK
<1>6. \A d \in Clients : ~Busy(d)
  BY DEF HandEdit
<1> QED
  BY <1>1, <1>3, <1>4, <1>5, <1>6, QuietIsEnough

-----------------------------------------------------------------------------
(* The invariant, and what it is for *)

LEMMA InitInvariant == Init => IInv
<1> SUFFICES ASSUME Init PROVE IInv
  OBVIOUS
<1>1. Defaults \in Content /\ Absent \in File
  BY DEF Defaults, Content, Absent, File
<1>2. TypeOK
  <2>1. job \in [Clients -> Job]
    <3>1. (CHOOSE p \in Providers : TRUE) \in Providers
      OBVIOUS
    <3> QED
      BY <3>1 DEF Init, Job, Actions
  <2>2. file.kind = "absent" /\ file.edit = 0 /\ rescue.edit = 0
    BY DEF Init, Absent
  <2>3. todo \in [Clients -> Seq(Stage)]
    BY DEF Init
  <2>4. got \in [Clients -> Content] /\ entries \in [Clients -> SUBSET Providers]
    BY <1>1 DEF Init
  <2>5. jobs \in 0..MaxJobs /\ edits \in 0..MaxEdits /\ typed \in 0..edits
    BY DEF Init
  <2>6. file.kind # "text" /\ file \in File /\ rescue \in File
    BY <1>1, <2>2 DEF Init
  <2> QED
    BY <1>1, <2>1, <2>2, <2>3, <2>4, <2>5, <2>6 DEF Init, TypeOK
<1>3. \A c \in Clients : todo[c] = <<>> /\ Place(c) = "done"
  BY DEF Init, Place, Busy
<1>4. TodoOK
  BY <1>3 DEF TodoOK, Linked, KeyStages
<1>5. EditsOK /\ TextsOK /\ file.holds = believed
  BY DEF Init, EditsOK, TextsOK, Absent
<1>6. SettingsInv
  BY <1>3, <1>5 DEF Init, SettingsInv, OneAtATime, WritesTheMeant
<1>7. KeysInv
  <2>1. Covered(keys)
    BY DEF Init, Covered, Defaults
  <2> QED
    BY <1>3, <2>1 DEF Init, KeysInv, KeepsTheKeys, KeyStages
<1> QED
  BY <1>2, <1>4, <1>5, <1>6, <1>7 DEF IInv

LEMMA NextInvariant == IInv /\ [Next]_vars => IInv'
<1> SUFFICES ASSUME IInv, [Next]_vars PROVE IInv'
  OBVIOUS
<1>1. ASSUME NEW c \in Clients, Client(c) PROVE IInv'
  <2>1. CASE Begin(c)
    BY <2>1, BeginKeeps
  <2>2. CASE ReadKeys(c)
    BY <2>2, ReadKeysKeeps
  <2>3. CASE Truncate(c)
    BY <2>3, TruncateKeeps
  <2>4. CASE WriteKeys(c)
    BY <2>4, WriteKeysKeeps
  <2>5. CASE Parse(c)
    BY <2>5, ParseKeeps
  <2>6. ASSUME NEW stage \in {"profiles", "merge"}, Load(c, stage) \/ Quarantine(c, stage)
        PROVE  IInv'
    BY <2>6, LoadKeeps, QuarantineKeeps
  <2>7. CASE Replace(c)
    BY <2>7, ReplaceKeeps
  <2>8. CASE ClientDies(c)
    BY <2>8, ClientDiesKeeps
  <2> QED
    BY <1>1, <2>1, <2>2, <2>3, <2>4, <2>5, <2>6, <2>7, <2>8 DEF Client
<1>2. CASE ResetAll
  BY <1>2, ResetAllKeeps
<1>3. CASE HandEdit
  BY <1>3, HandEditKeeps
<1>4. CASE UNCHANGED vars
  <2>1. UNCHANGED <<file, rescue, keys, keyfile, todo, job, got, entries, jobs, edits,
                    believed, typed, disowned, tornKeys, overlapped>>
    BY <1>4 DEF vars, clientVars, history
  <2>2. \A c \in Clients : Place(c)' = Place(c)
    BY <2>1 DEF Place, Busy
  <2>3. (TypeOK /\ TodoOK /\ EditsOK /\ TextsOK)'
    BY <2>1, <2>2 DEF IInv, TypeOK, TodoOK, EditsOK, TextsOK
  <2>4. SettingsInv => SettingsInv'
    BY <2>1, <2>2 DEF SettingsInv, OneAtATime, WritesTheMeant
  <2>5. KeysInv => KeysInv'
    BY <2>1, <2>2 DEF KeysInv, KeepsTheKeys, Covered, Storing
  <2> QED
    BY <2>1, <2>3, <2>4, <2>5 DEF IInv
<1> QED
  BY <1>1, <1>2, <1>3, <1>4 DEF Next

LEMMA Invariance == Spec => []IInv
<1>1. Init => IInv
  BY InitInvariant
<1>2. IInv /\ [Next]_vars => IInv'
  BY NextInvariant
<1> QED
  BY <1>1, <1>2, PTL DEF Spec

\* The files and the clients at work on them stay what the types say, and no
\* text that was put aside is one that is still at settings.json.
THEOREM TypeCorrect == Spec => []TypeOK
<1>1. IInv => TypeOK
  BY DEF IInv
<1> QED
  BY <1>1, Invariance, PTL

\* However many profiles there are, and wherever each save, removal or reset
\* dies: one at a time, the settings are what those that got to replacing the
\* file made of them (settings.save_settings and providers.save_provider).
THEOREM NoSaveIsLost == Spec => []SavesAreKept
<1>1. IInv => SavesAreKept
  BY DEF IInv, SettingsInv, SavesAreKept
<1> QED
  BY <1>1, Invariance, PTL

\* However many profiles there are: one operation at a time, wherever it dies
\* but within the writing of the key file, no profile is left with a reference to a
\* key that the store does not hold (providers.save_provider, delete_provider).
THEOREM NoReferenceDangles == Spec => []ReferencesHaveKeys
<1>1. IInv => ReferencesHaveKeys
  <2> SUFFICES ASSUME IInv, ~overlapped, ~tornKeys, keyfile = "whole",
                      NEW p \in Providers, file.holds.profiles[p] = "stored"
               PROVE  p \in keys \cup disowned
    BY DEF ReferencesHaveKeys
  <2>1. SettingsInv /\ KeysInv
    BY DEF IInv
  <2>2. believed.profiles[p] = "stored"
    BY <2>1 DEF SettingsInv
  <2>3. Covered(keys)
    BY <2>1 DEF KeysInv
  <2> QED
    BY <2>2, <2>3 DEF Covered
<1> QED
  BY <1>1, Invariance, PTL

\* However often the person breaks the file, and whatever one operation at a time
\* does to it: the text typed last is in settings.json or put aside next to it
\* (settings._quarantine).
THEOREM NoEditIsLost == Spec => []EditsSurviveOneAtATime
<1>1. IInv => EditsSurviveOneAtATime
  BY DEF IInv, SettingsInv, EditsSurviveOneAtATime
<1> QED
  BY <1>1, Invariance, PTL

-----------------------------------------------------------------------------
(* The store *)

InUse == {"calling", "saving"}

\* A runner's run has, or had, a row.
RunnersHaveARun ==
    \A w \in Runners : rpc[w] # "idle" => rrun[w] \in Runs /\ status[rrun[w]] # "unused"

\* So has a user's.
UsersHaveARun ==
    /\ \A u \in Users : upc[u] \notin {"idle", "vacuum"} =>
          urun[u] \in Runs /\ status[urun[u]] # "unused"
    /\ \A u \in Users : \A r \in plan[u] : status[r] # "unused"

\* Rows come only with their record; all of them are there while the run is.
RowsAreRecorded ==
    /\ \A r \in Runs : results[r] <= recorded[r]
    /\ NothingRecordedIsLost

\* A deletion that met an open runner is on record, from the moment that
\* runner writes without having cleared the flag.
DeletedUnderARunner ==
    \A w \in Runners :
        /\ rpc[w] \in InUse /\ deleted[rrun[w]] => rrun[w] \in disturbed
        /\ rpc[w] # "idle" /\ Gone(rrun[w]) => rrun[w] \in disturbed

\* A deletion is about to remove the run's files.
Pending(r) == \E u \in Users : upc[u] = "rmtree" /\ urun[u] = r

\* The files of a hidden run are about to go.
HiddenReports == \A r \in Runs : deleted[r] /\ report[r] => r \in disturbed \/ Pending(r)

\* LeftoversHaveACause is not inductive alone: a vacuum erases a hidden run
\* without looking at its files, and a runner writes without looking at its row.
StoreIInv ==
    /\ StoreTypeOK
    /\ RunnersHaveARun
    /\ UsersHaveARun
    /\ RowsAreRecorded
    /\ DeletedUnderARunner
    /\ HiddenReports
    /\ LeftoversHaveACause

USE StoreAssumption
USE DEF InUse, rowVars, runnerVars, userVars

-----------------------------------------------------------------------------
(* One lemma per action, one step per conjunct *)

LEMMA StartRunIInv ==
    ASSUME StoreIInv, NEW w \in Runners, NEW r \in Runs, StartRun(w, r)
    PROVE  StoreIInv'
<1>1. StoreTypeOK'
    BY SMT DEF StoreIInv, StoreTypeOK, StartRun, RunnerAt
<1>2. RunnersHaveARun'
    BY SMT DEF StoreIInv, StoreTypeOK, StartRun, RunnerAt, RunnersHaveARun
<1>3. UsersHaveARun'
    BY SMT DEF StoreIInv, StartRun, UsersHaveARun
<1>4. RowsAreRecorded'
    BY SMT DEF StoreIInv, StoreTypeOK, StartRun, RowsAreRecorded, NothingRecordedIsLost, Exists
<1>5. DeletedUnderARunner'
    BY SMT DEF StoreIInv, StoreTypeOK, StartRun, RunnerAt, DeletedUnderARunner, Gone
<1>6. HiddenReports'
    BY SMT DEF StoreIInv, StartRun, HiddenReports, Pending
<1>7. LeftoversHaveACause'
    BY SMT DEF StoreIInv, StartRun, LeftoversHaveACause, Gone
<1> QED
    BY <1>1, <1>2, <1>3, <1>4, <1>5, <1>6, <1>7 DEF StoreIInv

LEMMA ReadRunIInv ==
    ASSUME StoreIInv, NEW w \in Runners, NEW r \in Runs, ReadRun(w, r)
    PROVE  StoreIInv'
<1>1. StoreTypeOK'
    BY SMT DEF StoreIInv, StoreTypeOK, ReadRun, RunnerAt
<1>2. RunnersHaveARun'
    BY SMT DEF StoreIInv, StoreTypeOK, ReadRun, RunnerAt, RunnersHaveARun, Exists
<1>3. UsersHaveARun'
    BY SMT DEF StoreIInv, ReadRun, UsersHaveARun
<1>4. RowsAreRecorded'
    BY SMT DEF StoreIInv, ReadRun, RowsAreRecorded, NothingRecordedIsLost, Exists
<1>5. DeletedUnderARunner'
    BY SMT DEF StoreIInv, StoreTypeOK, ReadRun, RunnerAt, DeletedUnderARunner, Exists, Gone
<1>6. HiddenReports'
    BY SMT DEF StoreIInv, ReadRun, HiddenReports, Pending
<1>7. LeftoversHaveACause'
    BY SMT DEF StoreIInv, ReadRun, LeftoversHaveACause, Gone
<1> QED
    BY <1>1, <1>2, <1>3, <1>4, <1>5, <1>6, <1>7 DEF StoreIInv

LEMMA ClearDeletedIInv ==
    ASSUME StoreIInv, NEW w \in Runners, ClearDeleted(w)
    PROVE  StoreIInv'
<1>1. StoreTypeOK'
    BY SMT DEF StoreIInv, StoreTypeOK, ClearDeleted, RunnerAt
<1>2. RunnersHaveARun'
    BY SMT DEF StoreIInv, ClearDeleted, RunnerAt, RunnersHaveARun
<1>3. UsersHaveARun'
    BY SMT DEF StoreIInv, ClearDeleted, UsersHaveARun
<1>4. RowsAreRecorded'
    BY SMT DEF StoreIInv, ClearDeleted, RowsAreRecorded, NothingRecordedIsLost, Exists
<1>5. DeletedUnderARunner'
    BY SMT DEF StoreIInv, StoreTypeOK, ClearDeleted, RunnerAt, DeletedUnderARunner, Gone
<1>6. HiddenReports'
    BY SMT DEF StoreIInv, ClearDeleted, HiddenReports, Pending
<1>7. LeftoversHaveACause'
    BY SMT DEF StoreIInv, ClearDeleted, LeftoversHaveACause, Gone
<1> QED
    BY <1>1, <1>2, <1>3, <1>4, <1>5, <1>6, <1>7 DEF StoreIInv

LEMMA RecordResultIInv ==
    ASSUME StoreIInv, NEW w \in Runners, RecordResult(w)
    PROVE  StoreIInv'
<1>1. StoreTypeOK'
    BY SMT DEF StoreIInv, StoreTypeOK, RecordResult, RunnersHaveARun, RowsAreRecorded
<1>2. RunnersHaveARun'
    BY SMT DEF StoreIInv, RecordResult, RunnersHaveARun
<1>3. UsersHaveARun'
    BY SMT DEF StoreIInv, RecordResult, UsersHaveARun
<1>4. RowsAreRecorded'
    BY SMT DEF StoreIInv, StoreTypeOK, RecordResult, RowsAreRecorded, NothingRecordedIsLost, Exists
<1>5. DeletedUnderARunner'
    BY SMT DEF StoreIInv, RecordResult, DeletedUnderARunner, Gone
<1>6. HiddenReports'
    BY SMT DEF StoreIInv, RecordResult, HiddenReports, Pending
<1>7. LeftoversHaveACause'
    BY SMT DEF StoreIInv, RecordResult, DeletedUnderARunner, LeftoversHaveACause, Gone
<1> QED
    BY <1>1, <1>2, <1>3, <1>4, <1>5, <1>6, <1>7 DEF StoreIInv

LEMMA FinishRunIInv ==
    ASSUME StoreIInv, NEW w \in Runners, FinishRun(w)
    PROVE  StoreIInv'
<1>1. StoreTypeOK'
    BY SMT DEF StoreIInv, StoreTypeOK, FinishRun, RunnerAt, RunnersHaveARun
<1>2. RunnersHaveARun'
    BY SMT DEF StoreIInv, FinishRun, RunnerAt, RunnersHaveARun
<1>3. UsersHaveARun'
    BY SMT DEF StoreIInv, FinishRun, UsersHaveARun
<1>4. RowsAreRecorded'
    BY SMT DEF StoreIInv, FinishRun, RowsAreRecorded, NothingRecordedIsLost, Exists
<1>5. DeletedUnderARunner'
    BY SMT DEF StoreIInv, FinishRun, RunnerAt, DeletedUnderARunner, Gone
<1>6. HiddenReports'
    BY SMT DEF StoreIInv, FinishRun, HiddenReports, Pending
<1>7. LeftoversHaveACause'
    BY SMT DEF StoreIInv, FinishRun, DeletedUnderARunner, LeftoversHaveACause, Gone
<1> QED
    BY <1>1, <1>2, <1>3, <1>4, <1>5, <1>6, <1>7 DEF StoreIInv

LEMMA AbortRunIInv ==
    ASSUME StoreIInv, NEW w \in Runners, AbortRun(w)
    PROVE  StoreIInv'
<1>1. StoreTypeOK'
    BY SMT DEF StoreIInv, StoreTypeOK, AbortRun, RunnerAt, RunnerDone
<1>2. RunnersHaveARun'
    BY SMT DEF StoreIInv, StoreTypeOK, AbortRun, RunnerAt, RunnerDone, RunnersHaveARun
<1>3. UsersHaveARun'
    BY SMT DEF StoreIInv, AbortRun, UsersHaveARun
<1>4. RowsAreRecorded'
    BY SMT DEF StoreIInv, AbortRun, RowsAreRecorded, NothingRecordedIsLost, Exists
<1>5. DeletedUnderARunner'
    BY SMT DEF StoreIInv, StoreTypeOK, AbortRun, RunnerAt, RunnerDone, DeletedUnderARunner, Gone
<1>6. HiddenReports'
    BY SMT DEF StoreIInv, AbortRun, HiddenReports, Pending
<1>7. LeftoversHaveACause'
    BY SMT DEF StoreIInv, AbortRun, LeftoversHaveACause, Gone
<1> QED
    BY <1>1, <1>2, <1>3, <1>4, <1>5, <1>6, <1>7 DEF StoreIInv

LEMMA WriteReportIInv ==
    ASSUME StoreIInv, NEW w \in Runners, WriteReport(w)
    PROVE  StoreIInv'
<1>1. StoreTypeOK'
    BY SMT DEF StoreIInv, StoreTypeOK, WriteReport, RunnerAt, RunnerDone, RunnersHaveARun
<1>2. RunnersHaveARun'
    BY SMT DEF StoreIInv, StoreTypeOK, WriteReport, RunnerAt, RunnerDone, RunnersHaveARun
<1>3. UsersHaveARun'
    BY SMT DEF StoreIInv, WriteReport, UsersHaveARun
<1>4. RowsAreRecorded'
    BY SMT DEF StoreIInv, WriteReport, RowsAreRecorded, NothingRecordedIsLost, Exists
<1>5. DeletedUnderARunner'
    BY SMT DEF StoreIInv, StoreTypeOK, WriteReport, RunnerAt, RunnerDone, DeletedUnderARunner, Gone
<1>6. HiddenReports'
    BY SMT DEF StoreIInv, WriteReport, DeletedUnderARunner, HiddenReports, Pending
<1>7. LeftoversHaveACause'
    BY SMT DEF StoreIInv, WriteReport, DeletedUnderARunner, LeftoversHaveACause, Gone
<1> QED
    BY <1>1, <1>2, <1>3, <1>4, <1>5, <1>6, <1>7 DEF StoreIInv

LEMMA RunnerDiesIInv ==
    ASSUME StoreIInv, NEW w \in Runners, RunnerDies(w)
    PROVE  StoreIInv'
<1>1. StoreTypeOK'
    BY SMT DEF StoreIInv, StoreTypeOK, RunnerDies, RunnerAt, RunnerDone
<1>2. RunnersHaveARun'
    BY SMT DEF StoreIInv, StoreTypeOK, RunnerDies, RunnerAt, RunnerDone, RunnersHaveARun
<1>3. UsersHaveARun'
    BY SMT DEF StoreIInv, RunnerDies, UsersHaveARun
<1>4. RowsAreRecorded'
    BY SMT DEF StoreIInv, RunnerDies, RowsAreRecorded, NothingRecordedIsLost, Exists
<1>5. DeletedUnderARunner'
    BY SMT DEF StoreIInv, StoreTypeOK, RunnerDies, RunnerAt, RunnerDone, DeletedUnderARunner, Gone
<1>6. HiddenReports'
    BY SMT DEF StoreIInv, RunnerDies, HiddenReports, Pending
<1>7. LeftoversHaveACause'
    BY SMT DEF StoreIInv, RunnerDies, LeftoversHaveACause, Gone
<1> QED
    BY <1>1, <1>2, <1>3, <1>4, <1>5, <1>6, <1>7 DEF StoreIInv

LEMMA AskIInv ==
    ASSUME StoreIInv, NEW u \in Users, NEW r \in Runs,
           NEW what \in {"delete", "erase", "restore", "label", "archive"}, Ask(u, r, what)
    PROVE  StoreIInv'
<1>1. StoreTypeOK'
    BY SMT DEF StoreIInv, StoreTypeOK, Ask, UserAt
<1>2. RunnersHaveARun'
    BY SMT DEF StoreIInv, Ask, RunnersHaveARun
<1>3. UsersHaveARun'
    BY SMT DEF StoreIInv, StoreTypeOK, Ask, UserAt, UsersHaveARun, Exists
<1>4. RowsAreRecorded'
    BY SMT DEF StoreIInv, Ask, RowsAreRecorded, NothingRecordedIsLost, Exists
<1>5. DeletedUnderARunner'
    BY SMT DEF StoreIInv, Ask, DeletedUnderARunner, Gone
<1>6. HiddenReports'
    BY SMT DEF StoreIInv, Ask, UserAt, HiddenReports, Pending
<1>7. LeftoversHaveACause'
    BY SMT DEF StoreIInv, Ask, UserAt, LeftoversHaveACause, Gone
<1> QED
    BY <1>1, <1>2, <1>3, <1>4, <1>5, <1>6, <1>7 DEF StoreIInv

LEMMA LabelIInv ==
    ASSUME StoreIInv, NEW u \in Users, Label(u)
    PROVE  StoreIInv'
<1>1. StoreTypeOK'
    BY SMT DEF StoreIInv, StoreTypeOK, Label, UserAt, UserDone, UsersHaveARun
<1>2. RunnersHaveARun'
    BY SMT DEF StoreIInv, Label, RunnersHaveARun
<1>3. UsersHaveARun'
    BY SMT DEF StoreIInv, StoreTypeOK, Label, UserAt, UserDone, UsersHaveARun
<1>4. RowsAreRecorded'
    BY SMT DEF StoreIInv, Label, RowsAreRecorded, NothingRecordedIsLost, Exists
<1>5. DeletedUnderARunner'
    BY SMT DEF StoreIInv, Label, DeletedUnderARunner, Gone
<1>6. HiddenReports'
    BY SMT DEF StoreIInv, Label, UserAt, UserDone, HiddenReports, Pending
<1>7. LeftoversHaveACause'
    BY SMT DEF StoreIInv, Label, UserAt, UserDone, LeftoversHaveACause, Gone
<1> QED
    BY <1>1, <1>2, <1>3, <1>4, <1>5, <1>6, <1>7 DEF StoreIInv

LEMMA ArchiveIInv ==
    ASSUME StoreIInv, NEW u \in Users, Archive(u)
    PROVE  StoreIInv'
<1>1. StoreTypeOK'
    BY SMT DEF StoreIInv, StoreTypeOK, Archive, UserAt, UserDone, UsersHaveARun
<1>2. RunnersHaveARun'
    BY SMT DEF StoreIInv, Archive, RunnersHaveARun
<1>3. UsersHaveARun'
    BY SMT DEF StoreIInv, StoreTypeOK, Archive, UserAt, UserDone, UsersHaveARun
<1>4. RowsAreRecorded'
    BY SMT DEF StoreIInv, Archive, RowsAreRecorded, NothingRecordedIsLost, Exists
<1>5. DeletedUnderARunner'
    BY SMT DEF StoreIInv, Archive, DeletedUnderARunner, Gone
<1>6. HiddenReports'
    BY SMT DEF StoreIInv, Archive, UserAt, UserDone, HiddenReports, Pending
<1>7. LeftoversHaveACause'
    BY SMT DEF StoreIInv, Archive, UserAt, UserDone, LeftoversHaveACause, Gone
<1> QED
    BY <1>1, <1>2, <1>3, <1>4, <1>5, <1>6, <1>7 DEF StoreIInv

LEMMA RestoreIInv ==
    ASSUME StoreIInv, NEW u \in Users, Restore(u)
    PROVE  StoreIInv'
<1>1. StoreTypeOK'
    BY SMT DEF StoreIInv, StoreTypeOK, Restore, UserAt, UserDone, UsersHaveARun
<1>2. RunnersHaveARun'
    BY SMT DEF StoreIInv, Restore, RunnersHaveARun
<1>3. UsersHaveARun'
    BY SMT DEF StoreIInv, StoreTypeOK, Restore, UserAt, UserDone, UsersHaveARun
<1>4. RowsAreRecorded'
    BY SMT DEF StoreIInv, Restore, RowsAreRecorded, NothingRecordedIsLost, Exists
<1>5. DeletedUnderARunner'
    BY SMT DEF StoreIInv, Restore, DeletedUnderARunner, Gone
<1>6. HiddenReports'
    BY SMT DEF StoreIInv, Restore, UserAt, UserDone, HiddenReports, Pending
<1>7. LeftoversHaveACause'
    BY SMT DEF StoreIInv, Restore, UserAt, UserDone, LeftoversHaveACause, Gone
<1> QED
    BY <1>1, <1>2, <1>3, <1>4, <1>5, <1>6, <1>7 DEF StoreIInv

LEMMA SoftDeleteIInv ==
    ASSUME StoreIInv, NEW u \in Users, SoftDelete(u)
    PROVE  StoreIInv'
<1>1. StoreTypeOK'
    BY SMT DEF StoreIInv, StoreTypeOK, SoftDelete, UserAt, Meets, UsersHaveARun
<1>2. RunnersHaveARun'
    BY SMT DEF StoreIInv, SoftDelete, RunnersHaveARun
<1>3. UsersHaveARun'
    BY SMT DEF StoreIInv, SoftDelete, UserAt, UsersHaveARun
<1>4. RowsAreRecorded'
    BY SMT DEF StoreIInv, SoftDelete, RowsAreRecorded, NothingRecordedIsLost, Exists
<1>5. DeletedUnderARunner'
    BY SMT DEF StoreIInv, SoftDelete, Meets, Open, DeletedUnderARunner, Gone
<1>6. HiddenReports'
    BY SMT DEF StoreIInv, StoreTypeOK, SoftDelete, UserAt, Meets, HiddenReports, Pending
<1>7. LeftoversHaveACause'
    BY SMT DEF StoreIInv, SoftDelete, UserAt, Meets, LeftoversHaveACause, Gone
<1> QED
    BY <1>1, <1>2, <1>3, <1>4, <1>5, <1>6, <1>7 DEF StoreIInv

LEMMA HardDeleteIInv ==
    ASSUME StoreIInv, NEW u \in Users, HardDelete(u)
    PROVE  StoreIInv'
<1>1. StoreTypeOK'
  <2>1. urun[u] \in Runs /\ status[urun[u]] # "unused"
      BY SMT DEF StoreIInv, StoreTypeOK, UsersHaveARun, HardDelete
  <2>2. CASE Exists(urun[u])
    <3>1. EraseRows(urun[u])
        BY <2>2 DEF HardDelete
    <3>2. /\ status' \in [Runs -> {"unused", "running", "completed", "aborted", "gone"}]
          /\ deleted' \in [Runs -> BOOLEAN]
          /\ results' \in [Runs -> 0..MaxRows]
          /\ ranked' \in [Runs -> BOOLEAN]
        BY <2>1, <3>1, SMT DEF StoreIInv, StoreTypeOK, EraseRows
    <3>3. \A q \in Runs : q # urun[u] =>
             status'[q] = status[q] /\ results'[q] = results[q]
               /\ ranked'[q] = ranked[q] /\ deleted'[q] = deleted[q]
        BY <2>1, <3>1, SMT DEF StoreIInv, StoreTypeOK, EraseRows
    <3>4. status'[urun[u]] = "gone"
        BY <2>1, <3>1, SMT DEF StoreIInv, StoreTypeOK, EraseRows
    <3> QED
        BY <2>1, <3>2, <3>3, <3>4, SMT DEF StoreIInv, StoreTypeOK, HardDelete, UserAt, Meets
  <2>3. CASE ~Exists(urun[u])
    <3>1. UNCHANGED <<status, deleted, results, ranked>>
        BY <2>3 DEF HardDelete
    <3> QED
        BY <2>1, <3>1, SMT DEF StoreIInv, StoreTypeOK, HardDelete, UserAt, Meets
  <2> QED
      BY <2>2, <2>3
<1>2. RunnersHaveARun'
    BY SMT DEF StoreIInv, StoreTypeOK, HardDelete, EraseRows, RunnersHaveARun
<1>3. UsersHaveARun'
    BY SMT DEF StoreIInv, StoreTypeOK, HardDelete, UserAt, EraseRows, UsersHaveARun
<1>4. RowsAreRecorded'
    BY SMT DEF StoreIInv, StoreTypeOK, HardDelete, EraseRows, RowsAreRecorded, NothingRecordedIsLost, Exists
<1>5. DeletedUnderARunner'
    BY SMT DEF StoreIInv, StoreTypeOK, HardDelete, Meets, Open, EraseRows, DeletedUnderARunner, Gone
<1>6. HiddenReports'
    BY SMT DEF StoreIInv, StoreTypeOK, HardDelete, UserAt, Meets, EraseRows, HiddenReports, Pending
<1>7. LeftoversHaveACause'
    BY SMT DEF StoreIInv, StoreTypeOK, HardDelete, UserAt, Meets, EraseRows, LeftoversHaveACause, Gone
<1> QED
    BY <1>1, <1>2, <1>3, <1>4, <1>5, <1>6, <1>7 DEF StoreIInv

LEMMA RemoveReportIInv ==
    ASSUME StoreIInv, NEW u \in Users, RemoveReport(u)
    PROVE  StoreIInv'
<1>1. StoreTypeOK'
    BY SMT DEF StoreIInv, StoreTypeOK, RemoveReport, UserAt, UserDone, UsersHaveARun
<1>2. RunnersHaveARun'
    BY SMT DEF StoreIInv, RemoveReport, RunnersHaveARun
<1>3. UsersHaveARun'
    BY SMT DEF StoreIInv, StoreTypeOK, RemoveReport, UserAt, UserDone, UsersHaveARun
<1>4. RowsAreRecorded'
    BY SMT DEF StoreIInv, RemoveReport, RowsAreRecorded, NothingRecordedIsLost, Exists
<1>5. DeletedUnderARunner'
    BY SMT DEF StoreIInv, RemoveReport, DeletedUnderARunner, Gone
<1>6. HiddenReports'
    BY SMT DEF StoreIInv, StoreTypeOK, RemoveReport, UserAt, UserDone, HiddenReports, Pending
<1>7. LeftoversHaveACause'
    BY SMT DEF StoreIInv, StoreTypeOK, RemoveReport, UserAt, UserDone, RunnersHaveARun, UsersHaveARun, DeletedUnderARunner, HiddenReports, Pending, LeftoversHaveACause, Exists, Gone
<1> QED
    BY <1>1, <1>2, <1>3, <1>4, <1>5, <1>6, <1>7 DEF StoreIInv

LEMMA VacuumPlanIInv ==
    ASSUME StoreIInv, NEW u \in Users, VacuumPlan(u)
    PROVE  StoreIInv'
<1>1. StoreTypeOK'
    BY SMT DEF StoreIInv, StoreTypeOK, VacuumPlan, UserAt
<1>2. RunnersHaveARun'
    BY SMT DEF StoreIInv, VacuumPlan, RunnersHaveARun
<1>3. UsersHaveARun'
    BY SMT DEF StoreIInv, StoreTypeOK, VacuumPlan, UserAt, UsersHaveARun
<1>4. RowsAreRecorded'
    BY SMT DEF StoreIInv, VacuumPlan, RowsAreRecorded, NothingRecordedIsLost, Exists
<1>5. DeletedUnderARunner'
    BY SMT DEF StoreIInv, VacuumPlan, DeletedUnderARunner, Gone
<1>6. HiddenReports'
    BY SMT DEF StoreIInv, VacuumPlan, UserAt, HiddenReports, Pending
<1>7. LeftoversHaveACause'
    BY SMT DEF StoreIInv, VacuumPlan, UserAt, LeftoversHaveACause, Gone
<1> QED
    BY <1>1, <1>2, <1>3, <1>4, <1>5, <1>6, <1>7 DEF StoreIInv

LEMMA VacuumOneIInv ==
    ASSUME StoreIInv, NEW u \in Users, NEW r \in Runs, VacuumOne(u, r)
    PROVE  StoreIInv'
<1>1. StoreTypeOK'
  <2>1. r \in Runs /\ status[r] # "unused"
      BY SMT DEF StoreIInv, StoreTypeOK, UsersHaveARun, VacuumOne
  <2>2. CASE Exists(r)
    <3>1. EraseRows(r)
        BY <2>2 DEF VacuumOne
    <3>2. /\ status' \in [Runs -> {"unused", "running", "completed", "aborted", "gone"}]
          /\ deleted' \in [Runs -> BOOLEAN]
          /\ results' \in [Runs -> 0..MaxRows]
          /\ ranked' \in [Runs -> BOOLEAN]
        BY <2>1, <3>1, SMT DEF StoreIInv, StoreTypeOK, EraseRows
    <3>3. \A q \in Runs : q # r =>
             status'[q] = status[q] /\ results'[q] = results[q]
               /\ ranked'[q] = ranked[q] /\ deleted'[q] = deleted[q]
        BY <2>1, <3>1, SMT DEF StoreIInv, StoreTypeOK, EraseRows
    <3>4. status'[r] = "gone"
        BY <2>1, <3>1, SMT DEF StoreIInv, StoreTypeOK, EraseRows
    <3> QED
        BY <2>1, <3>2, <3>3, <3>4, SMT DEF StoreIInv, StoreTypeOK, VacuumOne, UserAt, Meets
  <2>3. CASE ~Exists(r)
    <3>1. UNCHANGED <<status, deleted, results, ranked>>
        BY <2>3 DEF VacuumOne
    <3> QED
        BY <2>1, <3>1, SMT DEF StoreIInv, StoreTypeOK, VacuumOne, UserAt, Meets
  <2> QED
      BY <2>2, <2>3
<1>2. RunnersHaveARun'
    BY SMT DEF StoreIInv, StoreTypeOK, VacuumOne, EraseRows, RunnersHaveARun
<1>3. UsersHaveARun'
    BY SMT DEF StoreIInv, StoreTypeOK, VacuumOne, EraseRows, UsersHaveARun
<1>4. RowsAreRecorded'
    BY SMT DEF StoreIInv, StoreTypeOK, VacuumOne, EraseRows, RowsAreRecorded, NothingRecordedIsLost, Exists
<1>5. DeletedUnderARunner'
    BY SMT DEF StoreIInv, StoreTypeOK, VacuumOne, Meets, Open, EraseRows, DeletedUnderARunner, Gone
<1>6. HiddenReports'
    BY SMT DEF StoreIInv, StoreTypeOK, VacuumOne, Meets, EraseRows, HiddenReports, Pending
<1>7. LeftoversHaveACause'
    BY SMT DEF StoreIInv, StoreTypeOK, VacuumOne, Meets, EraseRows, HiddenReports, Pending, LeftoversHaveACause, Gone
<1> QED
    BY <1>1, <1>2, <1>3, <1>4, <1>5, <1>6, <1>7 DEF StoreIInv

LEMMA VacuumEndsIInv ==
    ASSUME StoreIInv, NEW u \in Users, VacuumEnds(u)
    PROVE  StoreIInv'
<1>1. StoreTypeOK'
    BY SMT DEF StoreIInv, StoreTypeOK, VacuumEnds, UserAt, UserDone
<1>2. RunnersHaveARun'
    BY SMT DEF StoreIInv, VacuumEnds, RunnersHaveARun
<1>3. UsersHaveARun'
    BY SMT DEF StoreIInv, VacuumEnds, UserAt, UserDone, UsersHaveARun
<1>4. RowsAreRecorded'
    BY SMT DEF StoreIInv, VacuumEnds, RowsAreRecorded, NothingRecordedIsLost, Exists
<1>5. DeletedUnderARunner'
    BY SMT DEF StoreIInv, VacuumEnds, DeletedUnderARunner, Gone
<1>6. HiddenReports'
    BY SMT DEF StoreIInv, VacuumEnds, UserAt, UserDone, HiddenReports, Pending
<1>7. LeftoversHaveACause'
    BY SMT DEF StoreIInv, VacuumEnds, UserAt, UserDone, LeftoversHaveACause, Gone
<1> QED
    BY <1>1, <1>2, <1>3, <1>4, <1>5, <1>6, <1>7 DEF StoreIInv

LEMMA UserDiesIInv ==
    ASSUME StoreIInv, NEW u \in Users, UserDies(u)
    PROVE  StoreIInv'
<1>1. StoreTypeOK'
    BY SMT DEF StoreIInv, StoreTypeOK, UserDies, UserAt, UserDone, UsersHaveARun
<1>2. RunnersHaveARun'
    BY SMT DEF StoreIInv, UserDies, RunnersHaveARun
<1>3. UsersHaveARun'
    BY SMT DEF StoreIInv, StoreTypeOK, UserDies, UserAt, UserDone, UsersHaveARun
<1>4. RowsAreRecorded'
    BY SMT DEF StoreIInv, UserDies, RowsAreRecorded, NothingRecordedIsLost, Exists
<1>5. DeletedUnderARunner'
    BY SMT DEF StoreIInv, UserDies, DeletedUnderARunner, Gone
<1>6. HiddenReports'
    BY SMT DEF StoreIInv, UserDies, UserAt, UserDone, HiddenReports, Pending
<1>7. LeftoversHaveACause'
    BY SMT DEF StoreIInv, UserDies, UserAt, UserDone, LeftoversHaveACause, Gone
<1> QED
    BY <1>1, <1>2, <1>3, <1>4, <1>5, <1>6, <1>7 DEF StoreIInv

-----------------------------------------------------------------------------
LEMMA InitIInv == StoreInit => StoreIInv
<1> SUFFICES ASSUME StoreInit PROVE StoreIInv
    OBVIOUS
<1>1. StoreTypeOK
    BY SMT DEF StoreInit, StoreTypeOK
<1>2. RunnersHaveARun /\ UsersHaveARun /\ RowsAreRecorded
    BY SMT DEF StoreInit, RunnersHaveARun, UsersHaveARun, RowsAreRecorded, NothingRecordedIsLost
<1>3. DeletedUnderARunner /\ HiddenReports /\ LeftoversHaveACause
    BY SMT DEF StoreInit, DeletedUnderARunner, HiddenReports, LeftoversHaveACause, Gone
<1> QED
    BY <1>1, <1>2, <1>3 DEF StoreIInv

LEMMA StutterIInv ==
    ASSUME StoreIInv, UNCHANGED storeVars
    PROVE  StoreIInv'
<1>1. UNCHANGED <<rowVars, report, runnerVars, userVars, recorded, disturbed>>
    BY DEF storeVars
<1>2. StoreTypeOK' /\ RunnersHaveARun' /\ UsersHaveARun' /\ RowsAreRecorded'
    BY <1>1 DEF StoreIInv, StoreTypeOK, RunnersHaveARun, UsersHaveARun, RowsAreRecorded,
                NothingRecordedIsLost, Exists
<1>3. DeletedUnderARunner' /\ HiddenReports' /\ LeftoversHaveACause'
    BY <1>1 DEF StoreIInv, DeletedUnderARunner, HiddenReports, Pending, LeftoversHaveACause, Gone
<1> QED
    BY <1>2, <1>3 DEF StoreIInv

LEMMA StoreInvariance == StoreSpec => []StoreIInv
<1>1. ASSUME StoreIInv, NEW w \in Runners, Runner(w) PROVE StoreIInv'
    BY <1>1, StartRunIInv, ReadRunIInv, ClearDeletedIInv, RecordResultIInv, FinishRunIInv,
       AbortRunIInv, WriteReportIInv, RunnerDiesIInv DEF Runner
<1>2. ASSUME StoreIInv, NEW u \in Users, User(u) PROVE StoreIInv'
    BY <1>2, AskIInv, LabelIInv, ArchiveIInv, RestoreIInv, SoftDeleteIInv, HardDeleteIInv,
       RemoveReportIInv, VacuumPlanIInv, VacuumOneIInv, VacuumEndsIInv, UserDiesIInv
       DEF User, Vacuum
<1>3. StoreIInv /\ [StoreNext]_storeVars => StoreIInv'
    BY <1>1, <1>2, StutterIInv DEF StoreNext
<1> QED
    BY InitIInv, <1>3, PTL DEF StoreSpec

-----------------------------------------------------------------------------
(* The theorems *)

\* The state of the store, its runners and its users keeps its shape.
THEOREM StoreTypeCorrect == StoreSpec => []StoreTypeOK
<1>1. StoreIInv => StoreTypeOK
    BY DEF StoreIInv
<1> QED
    BY <1>1, StoreInvariance, PTL

\* A run that has its row has every result that was ever committed for it,
\* whatever was deleted, restored, resumed and vacuumed around it.
THEOREM RecordsAreKept == StoreSpec => []NothingRecordedIsLost
<1>1. StoreIInv => NothingRecordedIsLost
    BY DEF StoreIInv, RowsAreRecorded
<1> QED
    BY <1>1, StoreInvariance, PTL

\* Rows and files that outlive their run are explained by a deletion that met
\* an open runner, a run given back, or the death of the deleting process.
THEOREM LeftoversExplained == StoreSpec => []LeftoversHaveACause
<1>1. StoreIInv => LeftoversHaveACause
    BY DEF StoreIInv
<1> QED
    BY <1>1, StoreInvariance, PTL

\* What a run was found to be changes only under a runner that has it open.
\* No lifecycle operation, in any order with others, edits a verdict.
THEOREM MeasurementsAreImmutable == StoreSpec => OnlyARunnerMeasures
<1> DEFINE Same(r) == status'[r] = status[r] /\ results'[r] = results[r] /\ ranked'[r] = ranked[r]
           Kept(r) == Open(r) \/ Gone(r)' \/ status[r] = "unused" \/ Same(r)
<1>1. ASSUME StoreIInv, NEW w \in Runners, Runner(w), NEW r \in Runs PROVE Kept(r)
  <2>1. CASE rpc[w] = "idle"
      BY <1>1, <2>1, SMT DEF Runner, StartRun, ReadRun, ClearDeleted, RecordResult, FinishRun,
                             AbortRun, WriteReport, RunnerDies, StoreIInv, StoreTypeOK
  <2>2. CASE rpc[w] # "idle" /\ rrun[w] = r
      BY <2>2 DEF Open
  <2>3. CASE rpc[w] # "idle" /\ rrun[w] # r
      BY <1>1, <2>3, SMT DEF Runner, StartRun, ReadRun, ClearDeleted, RecordResult, FinishRun,
                             AbortRun, WriteReport, RunnerDies, StoreIInv, StoreTypeOK
  <2> QED
      BY <2>1, <2>2, <2>3
<1>2. ASSUME StoreIInv, NEW u \in Users, User(u), NEW r \in Runs PROVE Kept(r)
  <2>1. ASSUME NEW q \in Runs, EraseRows(q) PROVE Kept(r)
    <3>1. CASE r = q
      <4>1. status'[r] = "gone"
          BY <1>2, <2>1, <3>1, SMT DEF StoreIInv, StoreTypeOK, EraseRows
      <4> QED
          BY <4>1 DEF Gone
    <3>2. CASE r # q
      <4>1. Same(r)
          BY <1>2, <2>1, <3>2, SMT DEF StoreIInv, StoreTypeOK, EraseRows
      <4> QED
          BY <4>1
    <3> QED
        BY <3>1, <3>2
  <2>2. CASE HardDelete(u)
      BY <1>2, <2>1, <2>2, SMT DEF HardDelete, StoreIInv, UsersHaveARun
  <2>3. CASE \E q \in Runs : VacuumOne(u, q)
      BY <2>1, <2>3, SMT DEF VacuumOne
  <2>4. CASE UNCHANGED <<status, results, ranked>>
      BY <2>4
  <2> QED
      BY <1>2, <2>2, <2>3, <2>4 DEF User, Vacuum, Ask, Label, Archive, Restore, SoftDelete,
         RemoveReport, VacuumPlan, VacuumEnds, UserDies
<1>3. StoreIInv /\ [StoreNext]_storeVars =>
        [\A r \in Runs :
            Open(r) \/ Gone(r)' \/ status[r] = "unused"
              \/ (status'[r] = status[r] /\ results'[r] = results[r] /\ ranked'[r] = ranked[r])]_storeVars
    BY <1>1, <1>2 DEF StoreNext
<1> QED
    BY StoreInvariance, <1>3, PTL DEF StoreSpec, OnlyARunnerMeasures
=============================================================================
