# Verification of wavetools

wavetools compares (`wavediff`), prints and converts (`wavecat`) waveform files in
two formats, FST and VCD. This directory holds TLA+ models of its code, TLC
configurations that check them on small instances, and proofs, checked by TLAPS, of what
holds for every instance. Paths below are those of the repository; `diff.rs` is
`src/diff.rs`, `parser.rs` is `src/vcd/parser.rs`, and so on. `PROJECT.json` lists for every
definition the lines it stands for, for every property a mutation of the code's
model that breaks it, and for every hazard the properties that would show it.

Run a check with `tlc -workers 2 -config X.cfg M`, a proof with `tlapm M.tla`.

## 1. The system

```
 file --> VCD parser / FST reader --> hierarchy (signal map + name tree) --+
                 |                                                         |
                 |     one set of files: merged hierarchy, offsets <-------+
                 |                       filter, include sets, mapping
                 v                                                         |
          value changes --> reader threads --> batches --> k-way merge     |
                                                             |             |
                       wavediff: comparison of two sets <----+-------------+
                       wavecat:  text, or an exported file <-+
```

| Component | Source | State | Operations | Hard because | Correct means |
|---|---|---|---|---|---|
| VCD parser | `parser.rs` | input buffer, line number, open simulation command, token being read | `next`, `parse_*`, the buffered path for vector values, skipping of unknown attributes | two ways to consume bytes (buffer and byte by byte) share the line count; inputs end anywhere; words that do not say what they are | commands, errors and error lines depend on the text only, not on buffering |
| Identifier codes | `idcode.rs` | none | read, write, next | a positional numeration without a zero, in a machine word | a code that is written is read as the same number |
| VCD writer | `write.rs` | depth of scopes, next identifier code | one method per command | nothing is checked that is written | what is written is read as it was, or not at all |
| Name arena | `lib.rs` `NameTree` | nodes with parent, segment, children | `intern`, `child`, `segments`, `find` | long sequences of calls; ids are kept everywhere | ids and paths name each other |
| FST hierarchy | `lib.rs` `build_hierarchy` | scope, last variable, pending annotations, tables | one entry of the hierarchy | a callback that cannot stop; annotations known to belong to a variable or a scope only later | each variable gets its own annotations |
| VCD hierarchy | `lib.rs` `walk`, `parser.rs` `parse_scope` | the same per recursive call, handle numbers | one item | nesting; aliases | the same, and dense handles |
| Merged hierarchies | `lib.rs` `merge_signal_maps`, `apply_filter`; `diff.rs` `reader_include_sets` | offsets, names seen, merged tree | merge a handle, next file, filter | unordered maps, offsets at boundaries | merged handles describe their originals; readers read what is left |
| Handle mapping | `diff.rs` `build_handle_mapping` | index, mapping | index a handle, map a handle | two numberings, aliases, filtered names left in the tree | two handles are compared iff they share a path |
| Readers of a side | `diff.rs` `send_merged_wave_changes` | pending batch, inner channels, heads | send, receive, deliver, return | threads, bounded channels, reader failures, receiver gone | the batches depend on the files only |
| Comparison | `diff.rs` `compare_signal_channels`, `diff_wave_sets` | look-ahead buffer, matched keys, previous time, rows | look up, read ahead, compare, report leftovers, join | streams in different batching, repeated values, errors on three sides | each difference once, "same" only if so, errors never hidden, it returns |
| Names and metadata | `diff.rs` `compare_signal_names`, `compare_signal_meta` | tables by displayed name | fill, compare | unordered maps, names displayed alike | what is reported is so; no signal is left out in silence |
| Two values | `diff.rs` `approx_eq` | none | compare | numbers against texts, tolerance | reals by distance, vectors by digit |
| Merge for wavecat | `cat.rs` `merge_changes`, `lib.rs` `kway_merge_channels` | heads, channels | receive, deliver, fail, join | threads, failures, dropped receivers | sorted, complete, terminates |
| Text output | `cat.rs` printers | lines held back, write error | a change, the end | three loops for one job; sorting; failures in a callback | all print the same |
| Exported changes | `output.rs` `write_wave_file` | initial values, last time, open `$dumpvars` | a change before, in, after the window; the end | the window's edges; two output formats | the output's state is the source's |
| Exported values | `output.rs` `Body::change` | none | write one value | four ways from source to output, each with its own texts and widths | what is read back is what was exported, or it is refused |
| Creation of the output | `output.rs` `write_wave_file`, `create_fst_body` | open scopes, signal ids | check, create, declare | a file is replaced; sorted paths against a stack of scopes | created only if it can be written; the paths are those of the hierarchy |
| Exported declarations | `output_header.rs` | pending annotations, renumbered ids, two passes | a command | ids of several files clash; dropped variables | what is selected keeps its annotations |
| Not modelled | see section 7 | | | | |

The components share little state: each stage hands a finished value to the next, except
for the threads, which share bounded channels. Nothing is stored between runs, so there is
no crash recovery to model; failure means a reader, a writer or a file that ends early.

## 2. Modules

**Two change streams.** `DiffCompare` models the comparison with both senders and channels:
`Send`, `Finish` (sender threads), `TakeBatch1` ... `DrainEnd` (one action per step of
`compare_signal_channels` at which another thread may act or the branch taken is visible),
`WriteError`, `Join` (the precedence of errors in `diff_wave_sets`). A sender is here a fixed
stream of batches. `DiffSpec` is the abstract comparison: it reports differences of the
two inputs, all of them if it gets to an answer, and answers once. `Implements` instantiates
it with the differences computed from the two inputs directly.

**One side.** `SendMerged` models where these streams come from: the threads of
`send_wave_changes` and `read_and_send_signals`, their batches, inner channels and the merging
thread. `BatchSource` is what `DiffCompare` assumes of a side, a fixed stream sent in order;
`SendPlan` states that `SendMerged` implements it, with the stream determined by the files.
So the two detailed modules meet at `BatchSource`, and neither has to be
checked inside the other's state space.

**wavecat's merge.** `KWayMerge` models `merge_changes` with its reader threads and
`kway_merge_channels`. `CatOutput` models the three printers, `WaveExport` the writer of
a file (`visit_changes` and the closure of `write_wave_file`); both take the order that
`KWayMerge` shows as their input.

**Hierarchies.** `NameTree` holds the arena as operators on a tree. `Declarations` has the
entries that both formats declare, the operators that record them, and a second reading
of annotations by positions alone, against which the builders are checked; `EntryStream` is what positions alone say: which
scopes are open at an entry, and which annotations belong to a variable; `Ordering` is the elements
of a set in order, counted, not sorted, so that it can be reasoned about. `FstHierarchy` is
`build_hierarchy`, `VcdHierarchy` is the parser's nesting followed by
`VcdHierarchyBuilder::walk`, its recursion being a sequence of frames. `Hierarchies` composes
the two as `open_wave_file_with_format` does. `HeaderExport` uses the same entries for
`write_header`, whose commands are those of either format.

**Files of a side.** `SignalMaps` is `merge_signal_maps`, `apply_filter` and the include sets
of wavediff and wavecat. `HandleMapping` is `build_handle_mapping`. `Sides` composes
them: the second side of a comparison is opened, merged, filtered; names and metadata are
compared with those of a first side (`MetaCompare`), and then the handles of the first side
are mapped to it. `MCFiles` builds small files for it.

**An exported file.** `OutputFile` is how an export begins: the time scales of the inputs, what
the format cannot express, the creation of the file, and the declarations of an FST file; those
of a VCD file are `HeaderExport`, which it extends. `ExportedValue` takes a value
from its source through `Body::change`, the output file and its reader back to a comparison
with the original, which is `ValueCompare`.

**Values and text.** `ValueCompare` is `approx_eq` with floats of both formats. `VcdParser`
reads bytes, in buffers of any length, as `parser.rs` does, with the meaning of every
field; `IdCode` reads and writes identifier codes. `VcdParserReference` says token by
token what should come out. `VcdWriter` writes commands as `write.rs` does and gives the text to
the parser.

`DiffCompareProofs` (with the comparison of two values), `InputProofs` (merge and parser), `SendMergedProofs`,
`WaveExportProofs`, `HierarchiesProofs`, `SidesProofs`, `OutputFileProofs` (with the printers) and, for the data they
share, `DataProofs` hold the proofs. Modules `MC*` define the instances.

Operators whose comment begins with *Mutant* are not part of a model. Each is
a plausible bug of the definition after it; substituted for it, TLC finds the property that
`PROJECT.json` names violated.

## 3. What is abstracted

* A signal is its handle, a value a number, a name a model value. Where text matters
  it is modelled by what tells texts apart: in `ValueCompare` the float that a text parses as
  and its spelling; in `SignalMaps` a path and, as a constant operator, how it is displayed;
  in `Declarations` the base of a name, its kind of brackets and the space before them; in
  `VcdParser` single bytes, a keyword being one capital letter, a number as its digits, and
  the limit of 256 bytes of a word of an annotation one of a few; in `ExportedValue` characters, the text
  of a real being one.
* Identifier codes have a base of 20 and overflow past 100; what the code does at the
  overflow of 64 bits happens there.
* In `OutputFile` a variable whose type or width FST does not have is one of certain names.
* A channel is what was sent and how much of it was received; sending blocks at its
  bound. The operating system may schedule the threads in any order.
* A reader's failure is chosen at the start and happens after its last change. A prefix of
  a file is another input, so this covers a failure at any place. The failure of a writer may
  come at any line.
* HashMap iteration is a choice of the next handle (`MergeHandle`, `IndexHandle`, `MapHandle`).
* Sums and differences of finite floats are exact.

## 4. Runs

Bounds are in the `.cfg` files and in the `MC*` modules, where a comment says what inputs they
allow. Each is large enough for every action to fire and for each mutant to be found.

| Run | Modules | Shows | Bounds |
|---|---|---|---|
| `diff` | `MCDiffCompare` | `Implements`: for orderly inputs (times increase, at most one value per signal and time) exactly the differences are reported whatever the batching and the threads; `RowsTrue`: each once, and a row says that file 2 has the time only if it has; `NothingLost`: a received change of set 2 is buffered, reported or met; `SameIsSound`; `ErrorNeverHidden`; `Termination` | two handles per side with an alias, two values, three times, channel bound 1; readers and writer may fail |
| `diff_self` | `MCDiffCompare` | a violation, section 6 | the same inputs on both sides, direct mapping |
| `send_merged` | `MCSendMerged` | `Implements` (refinement of `BatchSource`, with its fairness: the batches are those that the files determine), `WindowComplete`, `SentInOrder`: at every moment what was sent is in order, in batches of one time | up to two readers, three changes each (a lone one four), `BATCH_SIZE` and channel bound scaled to 2 and 1, a window 1..2 or open |
| `kway_merge` | `MCKWayMerge` | `MergeSorted`, `NothingDropped`, `FailureReturned`, `Termination` | three readers of up to two items, channel bound 1, any readers fail, output fails anywhere |
| `cat_output` | `MCCatOutput` | `PrintsWanted`: at any moment what is printed begins the wanted text, and at the end is all of it, also of times that decrease | streams of up to three changes, also with times that decrease, three printers, sorted or not |
| `export` | `MCWaveExport` | `TimesIncrease` (stay in the window, and one `$dumpvars` at the first), `Faithful`: replaying the output gives the state of the sources at each time of the window; `EndsAtLastTime` | up to four items, times 0..3, windows 1.., 1..2, 0.. and 0..0, either format |
| `header_export` | `MCHeaderExport` | `CreatedIfWritable`, `FstDeclares`, `DeclarationsKept`, `AnnotationsKeptIfClosed` | files of up to five entries, two files of up to four, any selection; FST hierarchies of up to four of 22 paths; pairs of 20 time scales around the bounds |
| `hierarchies` | `MCHierarchies` | `AsDeclared`, `ConflictReported`, `TreeLinked`, `RoundTrip` for both formats | every stream of up to five entries, badly nested too, both settings of `no_range_space` |
| `sides` | `MCSides` | `MergedFaithful` (and the handle ranges of files do not meet), `RefusedIffShared`: files that are opened display no name in two of them, and an error names two files that share one; `SelectionExact`, `MappingExact`, `MetaExact`: the differences of metadata, whatever the order of the maps; `MismatchReported`: a signal without counterpart is reported | one to three files of up to two handles, each without conflicting enums of its own; any filter, several first sides |
| `sides_enums` | `MCSides` | a violation, section 6 | as `sides` |
| `vcd_parser` | `MCVcdParser` | `ParsedByTokens` (with the begin that each `$end` closes), `LineExact`; `WrittenIsRead`: what the writer wrote is read as it was | any six bytes out of ten, and continuations of commands; buffers of any length; all pairs of 40 commands |
| `exported_value` | `MCExportedValue` | `RealsByDistance`, `VectorsExact`; `ExportFaithful`: what is read back is what was exported, `ConvertedSame`: a comparison with the original finds no difference | numbers -1..2 with infinities, NaN and -0, tolerances 0..2; widths 0..3, six strings, either format on either side |

Why the bounds are enough to be of interest: a difference between two runs of the
comparison needs two signals at one time in different order or batches, two times to
evict, and an alias, and no more; one slot per channel is the tightest, and blocks soonest; a
window of two times has a time before, inside and after; six bytes hold two
commands with a buffer boundary inside either of them; two clashing files are what renumbering is about;
four paths open and close scopes at two depths; identifier codes 0, 19, 20 and 99 have one and two digits.

`CHECK_DEADLOCK FALSE` is set where a model simply ends when its answer is there. The models with
threads (`diff`, `kway_merge`, `send_merged`, `export`) have an explicit last step instead, so
that a deadlock among threads is an error.

## 5. Fairness

`DiffCompare` and `KWayMerge` assume weak fairness of each thread: of each sender and of the
main thread, as any preemptive scheduler gives. Nothing is assumed of a particular branch or
of which thread is first. `SendMerged` needs the same to implement the weak fairness of
`BatchSource`. There are no timeouts in the code, hence none in the models. `Termination`
holds because dropping the receivers makes sends return: in `KWayMerge` and
`DiffCompare` the main thread drops them before it joins (`cat.rs:409`, `diff.rs:218`).

## 6. Disagreements with the documentation

Two are shown by a run whose property is what the documentation says.

* `diff_self`: **a file can differ from itself.** If a signal changes twice at one time and a
  look-up of another signal reads the batch ahead, only the second value stays in
  `buffered2` (`diff.rs:393`), against which the first one of set 1 is compared. README.md
  promises exit code 0 for identical files, and the unit test at `diff.rs:851` expects repeated values to match.
* `sides_enums`: **conflicting enums of two files are not refused.** Each of the two files can be
  opened (`TablesChecked`: the check of a single file is made, and works), and they differ on one table. `merge_signal_maps` takes
  the name of the enum to be the text before the first colon (`lib.rs:1009`); of `pkg::T`
  that is `pkg`, which is never qualified, so nothing is checked. Its doc (`lib.rs:964`)
  says it errors.

Others were met while the models were written. The models have the code's behaviour; no
run is about them, for the properties are stated for the inputs on which code and documentation agree.

* `diff.rs:427` explains a missing row by what one look-up saw; the doc of the reasons
  (README.md:202) speaks of the file. `RowsTrue` states one direction only.
* `diff.rs:376`: read-ahead is said to stop a batch past the target; each
  later missing change reads one more, so the buffer is not bounded by it.
* `lib.rs:829`: a VCD bit select keeps its space under `no_range_space`, the same name of an FST
  file does not.
* `lib.rs:991`: a name that one file displays twice is refused if another file is opened along,
  and reported as found in two files; README.md:31 and the docs at `lib.rs:963` and `lib.rs:1058` speak of
  a name in more than one file. `RefusedIffShared` has the premise `OnceInEach` where it is about
  the error; what is opened is stated without a premise.
* `diff.rs:183`: names are compared as displayed, values by path; an escaped name with and
  without the space before its range is reported as common and never compared.
* `output.rs:489`: an FST file exported up to time 0 ends at 1, past the end that was asked for
  (the exception of `TimesIncrease`).
* `output.rs:450`: the check for times that decrease does not see a decrease to before Start.
* `output_header.rs:355`: annotations that are not closed before a declaration that is left
  out are lost with it (hence the premise of `AnnotationsKeptIfClosed`); `output_header.rs:320`:
  with several inputs the annotations before a file's first declaration are hoisted away from
  their scope (the exception of `DeclarationsKept`).
* `diff.rs:87`: equal infinities differ under a tolerance, also of zero. `diff.rs:55`: an FST
  NaN differs from itself. `RealsByDistance` is about finite numbers.

## 7. What is not modelled

* In `OutputFile`: date and version, which are copied from the first input; directions of
  variables, which are copied; aliases of one handle that are declared with different widths, of
  which an FST signal has the first one's in the order of paths and a value is written for the first one declared.
* In `VcdWriter`: names and comments with white space or `$end` in them, written as they are; a
  range whose text differs from its meaning. `header` and `scope` of the writer, and `find_var`, `Header` and
  `Scope` of `vcd/mod.rs` and `scope.rs`, serve other programs: they visit a tree in order.
* In `IdCode`: bytes outside the range of code characters, which are refused.
* Names of keywords, units and types are tables; the models have what reading and writing tell apart.
* The command line programs: they call the library in sequence.
* The crates `fst-reader` and `fst-writer` are external and appear as sources and sinks.
* The wording of messages; rounding.

## 8. Proofs

Every theorem is for all values of the constants under the module's named assumptions: any
number of handles, times, batches, files, entries, any mapping and any channel bound. Of the
properties that the passing runs check, these are stated by a theorem:

| Module | Theorems |
|---|---|
| `DiffCompareProofs` | `TypeCorrect`, `ErrorsReported`, `BufferComplete`, `SameSound`, `RowsAreTrue`, `Refines` (the refinement `Implements`), `ByDistance`, `VectorsByDigit`, `ExportedFaithfully`, `ConversionExact` |
| `InputProofs` | `MergeTyped`, `MergeIsSorted`, `MergeIsComplete`, `MergeReportsFailure`, `LinesExact` |
| `SendMergedProofs` | `NothingLost` (`WindowComplete`), `SentOrdered` (`SentInOrder`) |
| `WaveExportProofs` | `TimestampsIncrease`, `ExportIsFaithful`, `EndIsReached` |
| `HierarchiesProofs` | `TreesLinked`, `TreeTyped`, `PathsLeadBack` (`RoundTrip`), `ConflictsReported`, `DeclaredExactly` (`AsDeclared`), `HierarchyTyped` (`TypeOK`): all of `Hierarchies` |
| `SidesProofs` | `MergedExactly`, `RefusedExactly`, `SelectedExactly`, `MappedToShared`, `NothingLeftOut`, `MetaCompared`: all of `Sides` |
| `OutputFileProofs` | `CreatedExactly`, `HierarchyDeclared` (`FstDeclares`), `DeclarationsCopied` (`DeclarationsKept`), `AnnotationsCopied` (`AnnotationsKeptIfClosed`), `PrintedExactly` (`PrintsWanted`) |
| `DataProofs` | of the arena alone: `SiblingsDiffer`, `FindExact`, `InternPaths` |

* **Comparison** (`DiffCompareProofs`). `DiffAssumption` gives the types of the constants. `BatchesNotEmpty`:
  a thread sends a batch only if it holds a change, which `SentOrdered` proves of the senders.
  `MappedOnce`: a handle is mapped to a counterpart once, which `MappedToShared` proves of the mapping.
  `SameIsSound`, `NothingLost` and `ErrorNeverHidden`
  are not inductive: they speak of what was received, when the code knows only its buffer. The
  invariant `IInv` adds `PhaseOK` (what is over in each phase, and that an answer is that of
  the join), `ProvenanceOK` (a buffered value and a matched key were received, at that time),
  `MatchedOK` (a key is marked matched only by an equal value) and `ForwardOK` (as long as
  there is no difference, every comparison so far found an equal value). `ForwardOK`
  is where the argument lies: at the end, no difference and an empty buffer give
  agreement in both directions. Streams are arbitrary here: repeated values and decreasing times are covered.
  `RowsTrue` and the refinement of `DiffSpec` need to know what every row is about. `RInv` says so:
  each row comes from one comparison that was made, or one leftover (`RowOrigins`); and for orderly streams that
  a change that was read is buffered until its time has passed (`StillBuffered`), that a comparison made
  has read its target and taken it from the buffer or marked it (`Settled`), and that each comparison made and
  each leftover has left its row (`PairsReported`, `LeftoversReported`). With it every step of the
  comparator is a step of `DiffSpec` or a stutter: a row that is written is a difference of the
  inputs, and at the answer all of them are written.
* **One side** (`SendMergedProofs`; `SendAssumption`: the types, and that the times of a reader do not
  decrease). `WindowComplete` follows a change from its file to the comparison: `AllPlaced` says that
  a selected change is not read yet, in the batch of its thread, in its channel, in a head
  or sent, and `AllRead`, `AllFlushed`, `Refilled`, `Drained` which of these are empty when each loop
  ends. `SentInOrder` is about the merge. What a reader has on its way, heads before channel
  before batch, is a row of batches in the order of its file (`Rows`); all that was sent precedes
  all that may still come from any reader (`Frontier`), because the head with the least time and reader is sent.
  It holds when readers fail, too. It is what the comparison relies on: batches that are not empty, of one time,
  in increasing order, no change twice.
* **Merge** (`InputProofs`; `MergeAssumption`: the times of each file do not decrease).
  `HeadsOK` ties heads to positions, `OutOK` says that what came out is a prefix of each
  file, `Frontier` that all that is to come is behind what came out. From them
  `MergeIsSorted`, `MergeIsComplete`, `MergeReportsFailure`.
* **Export** (`WaveExportProofs`). `ExportAssumption` gives the types of the constants.
  `EndsWithTime`: an FST file has an end time and each thread of merged readers sends its final time last,
  so only a lone VCD file can end with a change. `TimesIncrease` speaks of
  the file alone; the invariant `Good` ties it to what the code remembers: no time is past
  `current`, and `initialOpen` says exactly whether `$dumpvars` is open. The commands of a step
  are taken one at a time, so that a failure between them is covered (`PartOrdered`). Source times may
  decrease: the check in the code is what makes the theorem true, and the proof shows that a
  decrease to before the window, which the check does not see, does no harm.
  `Faithful` and `EndsAtLastTime` need the values. `FInv` says that `initial` holds the last value of every
  signal before the window, and, through `Shown`, that the output so far gives every signal at every
  time of the window, also at those after `current`, the value that the items read so far give it. A further
  item then changes values at its own time and later only, in the file as in the sources.
* **Parser** (`InputProofs`, second half; `ParserBounds`: an input has a beginning and a length). `LineExact`
  says that `line` lags one byte behind. Every action reads one byte, or one run of bytes without a newline, or the end;
  `LInv` adds that nothing is read after the end. Newlines are counted as a cardinality, so no induction over the input is needed.
* **Name arena** (`DataProofs`, no assumption). What `intern` preserves: an
  arena stays an arena, ids stay ids and keep their paths, the links agree in both directions.
  `SiblingsDiffer` and `FindExact` draw the conclusion: one path, one id, and `find` gives it.
  `segments` and `find` are recursive functions; that the recursion has a solution
  is proved by the least argument at which it fails, as the induction theorems cannot be used.
* **Hierarchies** (`HierarchiesProofs`; `NamesAssumption`: the
  names of the entries are in the set of names; `NoneAssumption`: what stands for no variable is no handle). `TreesLinked` carries the arena through every entry of
  either format. Its invariant `IInv` adds where the
  reader is: `scope` of the FST reader, which follows a parent link at an up, and the scope of
  every frame of the VCD walk are ids of the tree, also while deeper calls make it grow. `RoundTrip`
  is then `FindExact`. `ConflictReported` has an invariant of its own, `EInv`: until a conflict, what is known is exactly
  the tables read so far, so that comparing with the first table of a name compares with all.
  `AsDeclared` says what a reader has recorded at the end; its invariant says the same of every moment.
  After the entries so far the map is a book (`Booked`): for every signal a row of its variables in
  order, each with the annotations that are settled by now (`Given`), while those that wait for what they
  describe are pending and the last handle is that of the variable before (`Good`). Each
  entry changes what the positions say and what is recorded in the same way: an annotation joins the row of the
  variable that is its `Owner` (`BookMarked`), a scope makes what waits void, an up, a close or a variable gives it
  to the last variable (`BookSettled`, `BookEntered`). That later entries do not change what earlier ones
  mean is most of the work: who owns an annotation, where it is settled, in which order. For FST the handle is the
  code; for VCD it is the number of codes before it (`Numbered`), which gives `TypeOK`, and the pending
  annotations of a frame are void before a deeper call is made (`Walked`), so that one list does for all frames.
* **Files of a side and their comparison** (`SidesProofs`). The assumptions say what an opened file is.
  `OpenedFiles`: its tree is linked, which `TreesLinked` proves of both readers; its handles are
  0, 1, ... without a gap and each has a variable, as the sizing of the include sets needs
  (`reader_signal_count`, test `native_reader_counts_match_unfiltered_hierarchies` at `diff.rs:914`).
  `TablesChecked`: the tables of one file agree, as `ConflictReported` has it of both readers.
  `FirstSideOpened` says the same of the tree and the variables of the first side. `NoneAndAll`: the
  values for *absent* and *everything* are no error and no set.
  Files, handles and variables are taken in any order; each step of the code walks a
  sequence, and is a fold whose lemmas are an instance of `DataProofs` (`FoldSteps`: what a fold
  has at each element). `SInv` is the invariant up to the filter: the merged
  tree is a linked arena, the ranges of two files do not meet (`OffsetsApart`), the map has a faithful copy of each
  handle that was taken (`MapFilled`, after the filter `MapKept`), and the names seen are those of the
  variables taken, each with its file and all different (`SeenTaken`). After an error `refusal` names
  two variables displayed alike and their files (`Blamed`). `MergedFaithful` and `RefusedIffShared`
  follow. `SelectionExact` compares sets of handles while the code compares counts: the counts agree
  exactly if no handle was dropped, since the ranges are apart and gapless. `MInv` is about the mapping:
  the index has, for each path of a handle taken, the handles that have it (`IndexOf`), and a handle mapped
  is mapped exactly (`MappedExactly`); ids of the second tree stand for paths because of
  `FindExact`, although filtered names are still in it. `MismatchReported` comes from the same invariant.
  `KInv` is about metadata: which variable a lookup table has for a name depends on the order
  of the map, but it is one of that name; what is reported is a difference of two such entries.
* **Creation of the output** (`OutputFileProofs`; `OutputAssumption`: there is an input, no
  time scale is no number, a hierarchy is finite, and its paths are not empty and made of the names that are in order). `CreatedExactly` shows `CreatedIfWritable`, both ways: `VcdScalesExact` says
  that `vcd_timescale` finds a scale exactly for the exponents -15 to 2 and that it means that
  exponent; `Stages` says of which format each stage is. What the export of declarations does
  between the steps leaves the choice of variables alone (`SelectionStays`). `HierarchyDeclared` shows
  `FstDeclares`. The code opens and closes scopes by comparing each path with those that are open, so
  all depends on the order of the paths. The invariant `HInv` follows it: what was declared comes before what is
  to do, the scopes that the calls leave open are those around the last variable, and a scope that was left is around
  none of those to do. The last holds because what is sorted between two paths of a scope is in that scope
  (`Between`). That each variable has one call and that names share an id exactly if they share a handle then follows.
* **Declarations of a VCD file** (`OutputFileProofs`, last part; `InputAssumption`: the inputs are hierarchies,
  whose scopes are closed as they are opened, and in which a table or a source path has one definition, before
  its uses. The readers do not check the last, but it is what the attributes mean: a second table under one number
  would be hoisted in front of the first, if its variable is left out). Nothing is assumed about
  numbers of two inputs, which may clash. `DeclarationsCopied` and `AnnotationsCopied` compare the output with the
  inputs by positions. What the emitter does with an entry depends on what it has seen; the invariant `XInv` says that this is
  what the entry's place tells (`Catching`): the scopes around it, whether its file has declared anything yet, and
  whether the variable before it is exported. So each pass has a set of places to write (`PlacesIn`), and what is
  written so far is those before the first entry not emitted, each once and in order (`Laid`), as copies with the
  numbers known by now (`CopyOf`), in the scopes of the input (`ScopesCopied`). The list held back makes that first
  entry lag behind the position read (`PendingEmitted`). A lone input without definitions to hoist skips the first
  pass, which is right as it would write nothing (`NothingHoisted`). In the end a position of the output corresponds to a place of the
  input, in the same order (`CorrespondsOrder`): between an annotation and its variable nothing is inserted (`OwnerKept`)
  and nothing that separated them is left out (`OwnerRead`), where it takes effect is written too
  (`EffectiveWritten`), and a number means one definition, hoisted or not (`DefinitionWritten`). Equal order then
  makes equal sequences (`OrderMapped`).
* **Printers** (`OutputFileProofs`, second part; `PrintAssumption`: a stream is a sequence, times and places of names are
  numbers). `PrintsWanted` compares the text with that of the whole stream. The invariant `PInv` says that what
  is written and the lines held back are those of the changes so far (`WroteOf`), the first of them sorted; that the held
  lines have the current time; and that a VCD file is read only until a change past the window is seen (`NotPast`). A flush sorts one
  batch; that this gives the sorted whole (`FlushExact`) rests on facts about sorting by counting: it permutes its
  lines (`SortedKeeps`), and where all lines of one part are earlier than those of another, sorting both is
  sorting each (`SortedJoined`). A write that fails leaves a first part of it. `Continues` and `FlattenSteps` say that the
  lines of a stream are those of its first changes followed by those of the rest; for this the flattening of the library is
  taken apart by the least length at which it could fail.
* **Values** (`DiffCompareProofs`, last part; `FloatsAssumption`: the special floats are no numbers).
  The verdict is that of `approx_eq`, which is by distance on finite reals and by digit on vectors.
  `ExportAssumption` says of Rust's texts what the conversions rely on: no two floats have one text, and
  none has a blank. `ExportInv` says that what was written is the conversion (`Result`) of the value exported, that
  nothing refused is ever given, and that the second value of the comparison is what reading back gives; that
  the first token of a line is the value is `ValueIsFirst`. `VcdText` and `FstDigits` say what is in either file,
  `ConvertibleWritten` that a convertible value is written with its own text.

Only model-checked:

* liveness: `Termination` of the comparison and of the merge, and with it the fairness
  that `Implements` of `SendPlan` asks for; provers have no rule for it.
* the steps of `SendPlan`. Its stream is sorted and cut by folds over all readers at once; the order and
  completeness that make it the right one are proved directly (`SentOrdered`, `NothingLost`).
* `ParsedByTokens` and `WrittenIsRead`: `VcdParserReference` has recursive operators, for which there is no
  prover.

## 9. Plan

Order of the modules, most important behaviour first: comparison; merge; one side;
export; names, merged hierarchies and mapping; hierarchies; text output; declarations;
parser; values; then the metadata, the values and declarations of an exported file, the writer.
All of these are written. Next:

1. Prove: that the steps of `SendMerged` map to steps of `BatchSource`, from `SentOrdered` and
   `NothingLost`.
2. Model: larger instances of `VcdWriter` (three commands, so that depth and codes interact), and the
   widths of aliases in `OutputFile`.
