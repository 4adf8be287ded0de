----------------------------- MODULE TestCases -----------------------------
(***************************************************************************)
(* Test files and the cases they hold (core/testcase.py).  A file is its   *)
(* stem, its defaults and its records; a record's absent keys are None,    *)
(* and the spellings of one key are one field.  The text "stem-007", which *)
(* is also what a case without an id is called, is the pair <<stem, 7>>.   *)
(***************************************************************************)
EXTENDS Integers, Sequences, FiniteSets, SequencesExt

CONSTANT None   \* None, and a function that raises

\* A case takes what it does not say from the defaults of its file.
ParseCase(file, n, defaultType) ==
    LET record == file.records[n + 1]
        Say(key) == IF record[key] = None THEN file.defaults[key] ELSE record[key]
    IN IF record.input = None \/ Say("weight") < 0 THEN None
       ELSE [id |-> IF record.id = None THEN <<file.stem, n>> ELSE record.id,
             type |-> IF Say("type") = None THEN defaultType ELSE Say("type"),
             reference |-> record.reference, tags |-> Say("tags")]

\* A record that is switched off still counts for the numbers of the others.
LoadTestFile(file, defaultType) ==
    LET on == SelectSeq([i \in DOMAIN file.records |-> i - 1],
                        LAMBDA n : ~file.records[n + 1].off)
    IN [i \in DOMAIN on |-> ParseCase(file, on[i], defaultType)]

\* Every filter narrows what the one before it left; the limit comes last.
FilterTestCases(cases, filter) ==
    LET Kept(case) ==
            /\ filter.ids = {} \/ case.id \in filter.ids
            /\ filter.tags = {} \/ case.tags \cap filter.tags # {}
            /\ filter.all_tags \subseteq case.tags
            /\ case.tags \cap filter.exclude_tags = {}
        kept == SelectSeq(cases, Kept)
        first == IF filter.limit = 0 \/ filter.limit >= Len(kept) THEN kept
                 ELSE SubSeq(kept, 1, filter.limit)
        idle == \A key \in DOMAIN filter \ {"limit"} : filter[key] = {}
    IN IF \/ ~(filter.ids \subseteq {case.id : case \in ToSet(cases)})
          \/ first = <<>> /\ ~(idle /\ filter.limit = 0)
       THEN None ELSE first

LoadTestCases(files, defaultType, filter) ==
    LET cases == FlattenSeq([i \in DOMAIN files |-> LoadTestFile(files[i], defaultType)])
    IN IF None \in ToSet(cases) \/ Cardinality({case.id : case \in ToSet(cases)}) # Len(cases)
       THEN None ELSE FilterTestCases(cases, filter)
=============================================================================
