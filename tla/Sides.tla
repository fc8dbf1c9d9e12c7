-------------------------------- MODULE Sides --------------------------------
(***************************************************************************)
(* A comparison up to the values (run in src/src/bin/wavediff.rs, and      *)
(* diff_wave_sets in src/src/diff.rs).  The first side is open; the files  *)
(* of the second are merged and filtered (SignalMaps); the names and the   *)
(* metadata of the sides are compared (MetaCompare); then the handles of   *)
(* the first side are mapped to those of the second (HandleMapping).       *)
(***************************************************************************)
EXTENDS SignalMaps

CONSTANTS FirstSides,    \* what the first side may be
          Implicit       \* the direction that was not declared

ASSUME FirstSideOpened == \A side \in FirstSides : IsHierarchy(side)

VARIABLES first,                                    \* the first side
          reported,                                 \* what was printed about names and metadata, None before
          comparing,                                \* build_handle_mapping runs
          unindexed, index, unmapped, mapping       \* its state

mappingVars == << unindexed, index, unmapped, mapping >>
allVars == << vars, first, reported, comparing, mappingVars >>

Second == [map |-> map, tree |-> tree]

Mapping == INSTANCE HandleMapping WITH a <- first, b <- Second
Meta == INSTANCE MetaCompare

SidesInit ==
    /\ Init
    /\ first \in FirstSides
    /\ reported = None /\ comparing = FALSE
    /\ unindexed = {} /\ unmapped = {}
    /\ index = Mapping!Empty /\ mapping = Mapping!Empty

OpenSecond == Next /\ UNCHANGED << first, reported, comparing, mappingVars >>

(* With --no-attrs the metadata is not compared.                           *)
CompareNames(noAttrs) ==
    /\ phase = "reading" /\ reported = None
    /\ \E order1 \in SetToSeqs(DOMAIN first.map), order2 \in SetToSeqs(DOMAIN map) :
         reported' = [only1 |-> Meta!OnlyIn(first, Second),
                      only2 |-> Meta!OnlyIn(Second, first),
                      meta  |-> IF noAttrs THEN {}
                                ELSE Meta!MetaDiffs(Meta!Lookup(first, order1),
                                                    Meta!Lookup(Second, order2)),
                      noAttrs |-> noAttrs]
    /\ UNCHANGED << vars, first, comparing, mappingVars >>

StartMapping ==
    /\ reported # None
    /\ ~comparing
    /\ comparing' = TRUE
    /\ Mapping!Start
    /\ UNCHANGED << vars, first, reported >>

MapHandles ==
    /\ comparing
    /\ Mapping!Next
    /\ UNCHANGED << vars, first, reported, comparing >>

SidesNext ==
    \/ OpenSecond
    \/ \E noAttrs \in BOOLEAN : CompareNames(noAttrs)
    \/ StartMapping
    \/ MapHandles

SidesSpec == SidesInit /\ [][SidesNext]_allVars

-----------------------------------------------------------------------------
(* A handle of the first side is mapped to exactly the handles of the      *)
(* second that share a path with it: through two trees that number their   *)
(* nodes differently, offsets, aliases, and a filter that dropped          *)
(* variables but left their paths in the tree; each once (diff.rs:170-202). *)
MappingExact == comparing => Mapping!MappingExact

(* Differences of metadata, whatever the order in which the tables are     *)
(* filled (diff.rs:634-655): one that is reported is one between two       *)
(* variables that are displayed by that name, a direction counting only    *)
(* where both declare one; and one that every such pair has is reported.   *)
(* Where a side displays a name once the two say "exactly".                *)
Pairs(name) ==
    {pair \in Meta!VarsOf(first) \X Meta!VarsOf(Second) :
        Meta!Displayed(first, pair[1]) = name /\ Meta!Displayed(Second, pair[2]) = name}

Disagree(pair, field) ==
    IF field = "direction" /\ (pair[1].direction = Implicit \/ pair[2].direction = Implicit)
    THEN FALSE
    ELSE pair[1][field] # pair[2][field]

MetaExact ==
    (reported # None /\ ~reported.noAttrs) =>
        \A name \in Meta!NamesShown(first) \cup Meta!NamesShown(Second), field \in Meta!Fields :
            /\ << name, field >> \in reported.meta => \E pair \in Pairs(name) : Disagree(pair, field)
            /\ (Pairs(name) # {} /\ \A pair \in Pairs(name) : Disagree(pair, field))
                 => << name, field >> \in reported.meta

(* No signal is left out of the comparison in silence: a variable of the   *)
(* first side whose path is not found in the second is reported as a name  *)
(* mismatch, unless the second displays another path by the same name; and *)
(* a name reported as only in the first side is compared through no other  *)
(* variable than its aliases (wavediff.rs:193-194, diff.rs:170-202).       *)
MappedPath(h, var) ==
    \E g \in DOMAIN map : Segments(first.tree, var.name) \in Mapping!Paths(Second, g)

MismatchReported ==
    (comparing /\ unmapped = {}) =>
        \A h \in DOMAIN first.map : \A k \in DOMAIN first.map[h] :
            LET var  == first.map[h][k]
                name == Meta!Displayed(first, var)
            IN  /\ name \in reported.only1 => ~MappedPath(h, var)
                /\ h \notin DOMAIN mapping =>
                     \/ name \in reported.only1
                     \/ \E w \in Meta!VarsOf(Second) : Meta!Displayed(Second, w) = name
                                                       /\ Segments(tree, w.name)
                                                            # Segments(first.tree, var.name)
=============================================================================
