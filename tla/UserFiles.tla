----------------------------- MODULE UserFiles -----------------------------
(***************************************************************************)
(* The files that belong to the person and not to a project: settings.json *)
(* with its provider profiles (service/settings.py, service/providers.py)  *)
(* and the fallback key store (core/secrets.py), under several request     *)
(* threads or commands at once and a person with an editor.                *)
(*                                                                         *)
(* No lock covers these files.  An operation is a list of stages, each one *)
(* call on the file system; others fall between, and it may die anywhere.  *)
(* The settings are reduced to one preference and the profiles, a profile  *)
(* to where its key is.  The operating system's key stores are left out.   *)
(***************************************************************************)
EXTENDS Naturals, Sequences, FiniteSets

CONSTANTS
    Clients,    \* requests and commands that may be under way at once
    Providers,  \* ids of provider profiles
    MaxEdits,   \* bound: times the person breaks the file in an editor
    MaxJobs     \* bound: operations begun

ASSUME UserFilesAssumption == Providers # {} /\ MaxEdits \in Nat /\ MaxJobs \in Nat

VARIABLES
    file,       \* settings.json
    rescue,     \* settings.json.corrupt
    keys,       \* the ids that the key file holds, when it is whole
    keyfile,    \* is the key file whole, truncated, or not JSON?
    todo,       \* the stages each client has before it
    job,        \* what each client is doing
    got,        \* the settings a client will write
    entries,    \* the keys a client will write
    jobs,       \* operations begun
    edits,      \* texts the person typed
    believed,   \* history: the settings, had each save been one step
    typed,      \* history: the last text the person typed and did not give up
    disowned,   \* history: ids whose key the person removed by itself
    tornKeys,   \* history: a client died with the key file truncated
    overlapped  \* history: two operations were under way at once

clientVars == <<todo, job, got, entries>>
history == <<believed, typed, disowned, tornKeys, overlapped>>
vars == <<file, rescue, keys, keyfile, clientVars, jobs, edits, history>>

Actions == {"save", "save_reference", "remove", "remove_and_purge", "set_key",
            "drop_key", "prefer", "reset_preference", "list"}
Job == [do : Actions, id : Providers]

\* A profile refers to a key that save_provider stored, or has one of its own.
Content == [preference : BOOLEAN, profiles : [Providers -> {"none", "stored", "own"}]]
Defaults == [preference |-> FALSE, profiles |-> [p \in Providers |-> "none"]]

\* What may be at the path: nothing, settings, or text that is not JSON.
File == [kind : {"absent", "settings", "text"}, edit : 0..MaxEdits, holds : Content]
Absent == [kind |-> "absent", edit |-> 0, holds |-> Defaults]
Settings(content) == [kind |-> "settings", edit |-> 0, holds |-> content]
Text(n) == [kind |-> "text", edit |-> n, holds |-> Defaults]

Stage == {"keys", "truncate", "write_keys", "parse", "profiles", "merge",
          "quarantine_profiles", "quarantine_merge", "replace"}

TypeOK ==
    /\ file \in File
    /\ rescue \in File
    /\ file.kind = "text" <=> file.edit # 0
    /\ rescue.edit # 0 => rescue.kind = "text" /\ rescue.edit # file.edit
    /\ keys \subseteq Providers
    /\ keyfile \in {"whole", "empty", "garbled"}
    /\ keyfile # "whole" => keys = {}
    /\ todo \in [Clients -> Seq(Stage)]
    /\ job \in [Clients -> Job]
    /\ got \in [Clients -> Content]
    /\ entries \in [Clients -> SUBSET Providers]
    /\ jobs \in 0..MaxJobs
    /\ edits \in 0..MaxEdits
    /\ believed \in Content
    /\ typed \in 0..edits
    /\ disowned \subseteq Providers
    /\ tornKeys \in BOOLEAN
    /\ overlapped \in BOOLEAN

Busy(c) == todo[c] # <<>>
At(c, stage) == Busy(c) /\ Head(todo[c]) = stage
Leave(c) == todo' = [todo EXCEPT ![c] = <<>>]
GoOn(c) == todo' = [todo EXCEPT ![c] = Tail(@)]

\* Mutant: the profile is saved before its key is stored.
StagesKeyLast(do) ==
    CASE do = "save" ->
            <<"parse", "profiles", "merge", "replace", "keys", "truncate", "write_keys">>
      [] do = "remove_and_purge" ->
            <<"profiles", "merge", "replace", "keys", "truncate", "write_keys">>
      [] do = "save_reference" -> <<"parse", "profiles", "merge", "replace">>
      [] do = "remove" -> <<"profiles", "merge", "replace">>
      [] do \in {"set_key", "drop_key"} -> <<"keys", "truncate", "write_keys">>
      [] do \in {"prefer", "reset_preference"} -> <<"merge", "replace">>
      [] do = "list" -> <<"profiles">>

\* The order in which each operation touches the files: the key file is read,
\* truncated and written; the settings are loaded for the profiles, loaded once
\* more to merge what changes into them, and replaced.
Stages(do) ==
    CASE do = "save" ->
            <<"keys", "truncate", "write_keys", "parse", "profiles", "merge", "replace">>
      [] do = "save_reference" -> <<"parse", "profiles", "merge", "replace">>
      [] do = "remove" -> <<"profiles", "merge", "replace">>
      [] do = "remove_and_purge" ->
            <<"profiles", "merge", "replace", "keys", "truncate", "write_keys">>
      [] do \in {"set_key", "drop_key"} -> <<"keys", "truncate", "write_keys">>
      [] do \in {"prefer", "reset_preference"} -> <<"merge", "replace">>
      [] do = "list" -> <<"profiles">>

Init ==
    /\ file = Absent
    /\ rescue = Absent
    /\ keys = {}
    /\ keyfile = "whole"
    /\ todo = [c \in Clients |-> <<>>]
    /\ job \in [Clients -> {[do |-> "list", id |-> CHOOSE p \in Providers : TRUE]}]
    /\ got = [c \in Clients |-> Defaults]
    /\ entries = [c \in Clients |-> {}]
    /\ jobs = 0
    /\ edits = 0
    /\ believed = Defaults
    /\ typed = 0
    /\ disowned = {}
    /\ tornKeys = FALSE
    /\ overlapped = FALSE

Begin(c) ==
    /\ ~Busy(c)
    /\ jobs < MaxJobs
    /\ jobs' = jobs + 1
    /\ \E j \in Job :
          /\ job' = [job EXCEPT ![c] = j]
          /\ todo' = [todo EXCEPT ![c] = Stages(j.do)]
    /\ got' = [got EXCEPT ![c] = Defaults]
    /\ entries' = [entries EXCEPT ![c] = {}]
    /\ overlapped' = (overlapped \/ \E d \in Clients : Busy(d))
    /\ UNCHANGED <<file, rescue, keys, keyfile, edits, believed, typed, disowned, tornKeys>>

-----------------------------------------------------------------------------
(* The key file: read it, open it with O_TRUNC, write it *)

Storing(c) == job[c].do \in {"save", "set_key"}

\* A file that is not JSON raises; a key that is not there is not removed.  A
\* file that another client has just truncated reads as an empty store.
ReadKeys(c) ==
    /\ At(c, "keys")
    /\ IF keyfile = "garbled" \/ (~Storing(c) /\ job[c].id \notin keys)
       THEN Leave(c) /\ UNCHANGED entries
       ELSE /\ GoOn(c)
            /\ entries' = [entries EXCEPT ![c] =
                  IF Storing(c) THEN keys \cup {job[c].id} ELSE keys \ {job[c].id}]
    /\ UNCHANGED <<file, rescue, keys, keyfile, job, got, jobs, edits, history>>

Truncate(c) ==
    /\ At(c, "truncate")
    /\ keyfile' = "empty"
    /\ keys' = {}
    /\ GoOn(c)
    /\ UNCHANGED <<file, rescue, job, got, entries, jobs, edits, history>>

\* A text written over a longer one leaves that one's tail behind it.
WriteKeys(c) ==
    /\ At(c, "write_keys")
    /\ \/ keyfile' = "whole" /\ keys' = entries[c]
       \/ keyfile # "empty" /\ entries[c] # keys /\ keyfile' = "garbled" /\ keys' = {}
    /\ disowned' = IF job[c].do = "drop_key" THEN disowned \cup {job[c].id}
                   ELSE IF Storing(c) THEN disowned \ {job[c].id} ELSE disowned
    /\ GoOn(c)
    /\ UNCHANGED <<file, rescue, job, got, entries, jobs, edits, believed, typed, tornKeys,
                   overlapped>>

-----------------------------------------------------------------------------
(* The settings file: load it, perhaps put it aside, replace it *)

\* ProviderSpec.parse of the new profile: a ConfigError ends the operation.
Parse(c) ==
    /\ At(c, "parse")
    /\ GoOn(c) \/ Leave(c)
    /\ UNCHANGED <<file, rescue, keys, keyfile, job, got, entries, jobs, edits, history>>

\* Mutant: the profiles of the file give way to the one that is saved.
PatchedAlone(j, profiles, content) ==
    IF j.do \in {"save", "save_reference"}
    THEN [content EXCEPT !.profiles = [Defaults.profiles EXCEPT ![j.id] = "stored"]]
    ELSE content

\* What an operation makes of the settings: the profiles it patches are those
\* of its first load, everything else comes from its second.
Patched(j, profiles, content) ==
    CASE j.do = "prefer" -> [content EXCEPT !.preference = TRUE]
      [] j.do = "reset_preference" -> [content EXCEPT !.preference = FALSE]
      [] j.do = "save" -> [content EXCEPT !.profiles = [profiles EXCEPT ![j.id] = "stored"]]
      [] j.do = "save_reference" -> [content EXCEPT !.profiles = [profiles EXCEPT ![j.id] = "own"]]
      [] OTHER -> [content EXCEPT !.profiles = [profiles EXCEPT ![j.id] = "none"]]

\* What the person who asked for it expects of the settings afterwards.
Meant(j, content) ==
    [preference |-> j.do = "prefer" \/ (content.preference /\ j.do # "reset_preference"),
     profiles |-> [p \in Providers |->
        IF p # j.id \/ j.do \in {"prefer", "reset_preference"} THEN content.profiles[p]
        ELSE IF j.do = "save" THEN "stored"
        ELSE IF j.do = "save_reference" THEN "own" ELSE "none"]]

\* What the operation does with what a load returned it.
Loaded(c, stage, content) ==
    IF stage = "merge"
    THEN /\ got' = [got EXCEPT ![c] = Patched(job[c], @.profiles, content)]
         /\ GoOn(c)
    ELSE /\ got' = [got EXCEPT ![c] = content]
         /\ IF job[c].do \in {"remove", "remove_and_purge"}
                /\ content.profiles[job[c].id] = "none"
            THEN Leave(c)
            ELSE GoOn(c)

\* The stage in which a load puts aside what it could not read.
Aside(stage) == IF stage = "merge" THEN "quarantine_merge" ELSE "quarantine_profiles"

\* load(): no file is the defaults; text that is not JSON is to be put aside.
Load(c, stage) ==
    /\ At(c, stage)
    /\ IF file.kind = "text"
       THEN /\ todo' = [todo EXCEPT ![c] = <<Aside(stage)>> \o Tail(@)]
            /\ UNCHANGED got
       ELSE Loaded(c, stage, file.holds)
    /\ UNCHANGED <<file, rescue, keys, keyfile, job, entries, jobs, edits, history>>

\* Mutant: the unreadable file is left where it is.
LoadDefaults(c, stage) ==
    /\ At(c, Aside(stage))
    /\ Loaded(c, stage, Defaults)
    /\ UNCHANGED <<file, rescue, keys, keyfile, job, entries, jobs, edits, history>>

\* os.replace moves whatever is at the path by now, if anything is.
Quarantine(c, stage) ==
    /\ At(c, Aside(stage))
    /\ rescue' = IF file.kind = "absent" THEN rescue ELSE file
    /\ file' = Absent
    /\ believed' = IF file.kind = "settings" THEN Defaults ELSE believed
    /\ Loaded(c, stage, Defaults)
    /\ UNCHANGED <<keys, keyfile, job, entries, jobs, edits, typed, disowned, tornKeys,
                   overlapped>>

\* _write: the new text is renamed over the old.
Replace(c) ==
    /\ At(c, "replace")
    /\ file' = Settings(got[c])
    /\ believed' = Meant(job[c], believed)
    /\ GoOn(c)
    /\ UNCHANGED <<rescue, keys, keyfile, job, got, entries, jobs, edits, typed, disowned,
                   tornKeys, overlapped>>

\* reset() of everything: the file is unlinked, whatever is in it.
ResetAll ==
    /\ file' = Absent
    /\ believed' = Defaults
    /\ typed' = IF file.kind = "text" THEN 0 ELSE typed
    /\ overlapped' = (overlapped \/ \E d \in Clients : Busy(d))
    /\ UNCHANGED <<rescue, keys, keyfile, clientVars, jobs, edits, disowned, tornKeys>>

-----------------------------------------------------------------------------
(* The world outside *)

\* The process dies or the disk refuses: what it renamed or wrote stays.
ClientDies(c) ==
    /\ Busy(c)
    /\ tornKeys' = (tornKeys \/ At(c, "write_keys"))
    /\ Leave(c)
    /\ UNCHANGED <<file, rescue, keys, keyfile, job, got, entries, jobs, edits,
                   believed, typed, disowned, overlapped>>

\* The person saves a slip of the pen, while nothing else is at the file.
HandEdit ==
    /\ \A c \in Clients : ~Busy(c)
    /\ edits < MaxEdits
    /\ edits' = edits + 1
    /\ file' = Text(edits')
    /\ typed' = edits'
    /\ believed' = Defaults
    /\ UNCHANGED <<rescue, keys, keyfile, clientVars, jobs, disowned, tornKeys, overlapped>>

-----------------------------------------------------------------------------
Client(c) ==
    \/ Begin(c)
    \/ ReadKeys(c) \/ Truncate(c) \/ WriteKeys(c)
    \/ Parse(c)
    \/ \E stage \in {"profiles", "merge"} : Load(c, stage) \/ Quarantine(c, stage)
    \/ Replace(c)
    \/ ClientDies(c)

Next == (\E c \in Clients : Client(c)) \/ ResetAll \/ HandEdit

Spec == Init /\ [][Next]_vars

-----------------------------------------------------------------------------
(* What must hold *)

\* One operation at a time, each dying anywhere: the settings are what the
\* saves, removals and resets that got to replacing the file made of them, one
\* after the other.  No save touches a profile or a preference it is not about.
SavesAreKept ==
    ~overlapped /\ file.kind # "text" => file.holds = believed

\* save_provider stores the key and then the reference, delete_provider drops
\* the reference and then the key: one at a time, wherever one dies (but with
\* the key file truncated), no profile refers to a key that is not there,
\* unless the person removed that key by itself.
ReferencesHaveKeys ==
    ~overlapped /\ ~tornKeys /\ keyfile = "whole" /\ file.kind = "settings" =>
        \A p \in Providers :
            file.holds.profiles[p] = "stored" => p \in keys \cup disowned

\* One operation at a time, what a person typed last is still in the file, or put
\* aside next to it.
EditsSurviveOneAtATime ==
    ~overlapped /\ typed # 0 => file.edit = typed \/ rescue.edit = typed
=============================================================================
