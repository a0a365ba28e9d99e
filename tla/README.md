# Serene in TLA+

A verification development of the Serene compiler (C++): TLA+ models of its
reader, source manager, namespaces, JIT, REPL with its line editor, error table
generator and builder script, the configurations that check them with TLC, and
proofs for TLAPS. Line numbers refer to the sources beside it; a file named
without a directory is the one of that name there.

## The system

Serene is a Lisp compiler under construction. A *source manager* finds the file
of a namespace in the load paths, keeps its text, and has a *reader* turn the
text into an AST; the AST is put into a *namespace* with its *environments*,
and a *JIT* is to compile it. A REPL over a bundled *line editor*, a generator
for error tables and shell scripts for the development environment stand around
it. Nothing in the compiler runs concurrently; what is hard about it is state
that one call leaves for another (flags, caches, tables, moved-from objects),
pointers that run ahead of the position, fixed-width counters, and the outside
world (files, bytes behind a buffer, failing steps).

| component | state | operations | interacts with | correct when |
|---|---|---|---|---|
| Reader (`reader.cpp`, `reader.h`) | position, location, end-of-line flag, call stack, AST | read, readExpr, readList, readSymbol, readNumber, advance, nextChar | given a text by SourceMgr or a caller, returns AST or one error | text is tokenised maximally, the forest is that of the parentheses, locations are right, no byte outside the text is used, it returns |
| Source manager (`source_mgr.*`) | buffers, table, load paths, offset caches | readNamespace, setLoadPaths, getBufferInfo, getMemoryBuffer, getPointerForLineNumber | calls the reader; reads files | first file in the path wins, names lead to their text, lines are found, caches are owned once, texts never move |
| Namespaces, environments (`namespace.*`, `environment.h`, `ast.cpp`) | environments, bindings, tree | createEnv, insert_symbol, lookup, ExpandTree | filled with the reader's AST | lookups are lexically scoped, forms arrive once and in order |
| AST (`ast/`) | nodes with ranges | construct, copy, append, cast | built by the reader | one owner, right type tags, copies keep their data |
| JIT (`jit/`, `options.h`) | object cache, dylib table, engine | makeJIT, make, notifyObjectCompiled, getObject, dumpToObjectFile, pushJITDylib | LLVM ORC calls the cache back while it compiles | what is delivered is whole, lent objects live, it is known whose code a module gets, failures leave nothing |
| Errors, options, utilities | none, or plain data | constructors | everywhere | - |
| Driver (`serene.cpp`, `commands`) | options | run, cc | - | - |
| Line editor (`serene-repl/serene/linenoise.h`) | history, edited line, what it knows of the screen, terminal mode | Readline, keys, history and its file, drawing | terminal, history file | history keeps what it promises, line and cursor agree, the screen shows them, the terminal is given back |
| REPL (`serene-repl.cpp`) | the history file between processes | main: load, read, evaluate, save | line editor, disk | a session resumes from the last one's history, quitting ends the process |
| Error table generator (`serene-tblgen/`) | records | createNSBody | TableGen | numbers and names agree |
| Scripts (`builder`, `scripts/`) | archives, trees, mounts | setup-dev, destroy-devfs, pull_toolchain | the machine | an interrupted step can be repeated; nothing foreign is deleted |
| serenec, core, devtools, build files | - | - | disabled or empty | - |

PROJECT.json lists every component with its status, and under "hazards" each
place where the code can go wrong in a way that a test hardly reaches, with the
properties that watch over it.

## The modules

**Reader** models `serene::Reader` completely. The C++ stack is explicit: `pc`
is the function or loop body that runs next, `ret` what follows an
`advance(true)`, `stack` the lists whose `readList()` has not returned, `word`
the locals of `readSymbol()` and `readNumber()`. One action is one call-free
stretch of a function, a loop one action per iteration, so every state in which
the code looks at the buffer is visible. Characters are abstracted to the
classes that the code's own tests tell apart. `currentChar`, `currentPos`,
`currentLocation` and `readEOL` are the fields of these names, with offsets for
pointers (1 is the first byte; the constructor's `buf.begin() - 1` is 0).
`advanceByOne` is the whole function. Nodes are entries of `heap`; a `text` is
the list of the offsets of its characters, so a property can say which
characters of the input a token holds. The buffer is followed by one byte
`after` that may be the terminator (`llvm::MemoryBuffer` guarantees it) or not
(a `StringRef` does not). The counters wrap at `LocMod`. Not kept: the text of
messages, logging, and the namespace and filename that every location carries.
An error goes through every pending `readList()` unchanged (351-353, 409) and drops
what it holds; `fails` does this in one step, so that nothing is said of a
`readList()` that would forget to pass it on.
The Extra-paren "error" is `InvalidCharacterForSymbol` with its own message.

**SExpr** is what a reader promises, without its control flow: a token is a
maximal run of certain characters, taken whole; tokens build a forest, or the
first bad one ends the read with a named error and nothing delivered.
**ReaderForest** gives the refinement mapping from Reader to it, **MCReader** the
inputs.

**LineIndex** holds the pure functions of the source manager's line lookup
(vector of newline offsets in the narrowest type that fits the size, start of a
line), with a definition of "line" that knows no index.

**SourceMgr** models loads step by step (`pc`: find, add, index, read), because
files change meanwhile: `edit` may happen anywhere. `buffers` are the
`SrcBuffer`s with the address of their offset cache, `caches` the vectors on the
heap with their element type and whether they were deleted, and `capacity` the
vector's, since `push_back` into a full vector moves and destroys. `nsTable`
is updated where the code does it, before the text is read. `setLoadPaths` swaps
with the caller's vector `dirs`. Whether the reader accepts a text is the
constant `Readable`. Ghosts: `changed` (did the outside change since the call),
`namespaces` (what callers got), and the name in a buffer. Not kept: import
locations, the lifetime of strings, and the branch behind a failing `ExpandTree()`
(source_mgr.cpp:117-120), since the only body there is always succeeds.

**Diagnosis** composes Reader and LineIndex: a location that the reader kept by
counting is looked up in the index built by searching. MCReader checks it.

**Namespace** models environments and the tree; both classes of that name have
the same code for them (the one exception is `ExpandTree`, of which there is the body in
`namespace.cpp:76`, of `serene::Namespace`; `ast::Namespace`, whose `ExpandTree`
the source manager calls, only declares it, and is taken to do the same). A pointer to an
environment is its place in the vector: they are owned through `unique_ptr`s and none is
removed.

**Linenoise** models the line editor of the REPL for any caller of its API:
`history` and its limit, the edited line (`buf`, with `len` as its length; `pos`;
`history_index`), and the terminal (`rawmode`, `orig_termios`, and `terminal`, the
mode it really is in). One action is one call or one key, each with everything
the code does for it: `enter` pops the placeholder entry, leaves the raw mode and
returns the line. Bytes are kept where they matter: cursor movements and deletions
compute lengths forwards and backwards over UTF-8 bytes, with characters that
combine. `keyboard` says what is at stdin (terminal or pipe), which keys and
characters it sends and up to what length. `lf` is the byte 10 of Ctrl-J, which is
not ENTER and goes into the line (2436); `linesOf` is what `std::getline` makes of
the bytes of a file. Not kept here: drawing (Display), saving (Repl), completion (its
callback is never set), escape sequences as such (their keys are), zero bytes in a
line or in the file, and the cut at the buffer's length when a history entry is copied
into the line (2222): entries longer than the buffer are not among the inputs. The REPL is disabled in the build at present
(CMakeLists.txt:199).

**LineEditor** is what the user of such an editor counts on, in characters instead
of bytes, without buffers or copies: a list of texts, one of them shown, and a
cursor between its characters; a text left and shown again is unchanged, also one
that was being edited. **LineCharacters** gives the refinement mapping: bytes become
characters, and the shown text is `buf`, whose history entry is stale in the code until
the user leaves it.

**Display** models how the editor draws, in both modes, against a terminal with cells
and a cursor: `getColumns`, measuring (`unicodeColumnPos`,
`unicodeColumnPosForMultiLine`), `refreshSingleLine` loop by loop (`window` is its
`buf` and `len`), `refreshMultiLine` with `oldcolpos` and `maxrows`, the short cut of
`linenoiseEditInsert`, Ctrl-L and Enter. Ctrl-C is left out: it does not move the
cursor to the end first (2340-2342), so in the multi line mode its newline (2492) may
end up in the middle of the line. So are control characters in a line, a TAB or a line
feed, which the editor measures as one column each (1638) whatever the terminal does. What the edit itself does is Linenoise's
matter, so `edit` takes any line and any cursor between graphemes. The terminal is
external: rows without end, a wrap that is put off until the next character, relative
movements that stop at the margins. Two outcomes end what is followed: `"hung"` (a
byte that decodes to nothing keeps the measuring loops in their place) and
`"unknown"` (the width was assumed).

**Repl** is `main()` of serene-repl over the line editor (it extends Linenoise,
whose actions are its steps), the history file that `SaveHistory()` and
`LoadHistory()` share between processes, kills at any step, failing writes, and
restarts. The file is bytes: an entry is written as it is, with a line feed behind it,
and flushed (`std::endl`). A write that fails leaves any beginning of the entry;
`pending` is what the stream (libc++'s, which the CMake files choose by default) still holds of
it, the whole or the rest: later entries are ignored, since the stream is bad, and its
destructor tries once more. A kill in the middle of a write leaves a beginning as well.
`left` and `broken` are history variables: the lines that a session left to the next
one, and whether its save came to a good end. `usable` says whether the path can be
opened: the default path begins with `~`, which nobody expands.

**Jit** models `serene::jit`: `make()` stage by stage with each failure (`fail`
returns an error, `engineFails` is `cantFail()`, which aborts), the object cache, which
LLVM's compiler asks before and notifies after it compiles, and the dylib table. An
object is a buffer with the code of a module; `getObject` lends the cache's memory,
`notifyObjectCompiled` replaces an entry and frees its buffer. Links nest, because
linking a module may look up symbols of another that is then compiled. Assertions
are taken to be active: `dumpToObjectFile` on a cache without exactly one entry ends
the process, behind the point at which the file is truncated. `usePerf` says whether
LLVM was built with its perf listener (CMakeLists.txt:49 has the option off, and
Dockerfile.source_base does not set it): if not, `createPerfJITEventListener()` gives
a null pointer, which `make()` does not register (jit.cpp:222), and the option is silently
without effect. `fn_counter`,
`ns_counter` and the functions that jit.h only declares have no behaviour. The target
machine builder that `makeJIT` prepares is not handed to the engine, which asks the
host again.

**ErrorTable** is `createNSBody()` of the generator: both loops over `errorsIndex`, and
what each writes, down to the number that each description gets. That a help text
is followed by a semicolon within the parentheses is kept as `compiles`.

**Builder** models the commands that prepare a machine: `setup-dev`, `destroy-devfs`
and the pull of the toolchain, step by step, over what they leave on disk and mounted.
`breakOff` is a step that fails (all run under `set -e`) or the user's Ctrl-C, `reboot`
takes the mounts. Downloading and unpacking are alike for both packages, except for
the test that decides whether it is done: `etc/shadow`, or the directory.

**ReaderProofs**, **LineIndexProofs**, **SourceMgrProofs**, **NamespaceProofs**,
**LinenoiseProofs** (of Repl too), **DisplayProofs**, **JitProofs** and
**ErrorTableProofs** hold the proofs.
Definitions named `X_Something` just before `X` are deliberately wrong variants
of `X`, used to see that the properties notice.

## The runs

| run | shows |
|---|---|
| `reader` | all reader properties, and that it implements SExpr, for every terminated text within the bounds |
| `reader_unterminated` | finding: numbers run on behind an unterminated buffer |
| `source_mgr` | all source manager properties, with edits anywhere |
| `source_mgr_stale_table` | finding: a failed re-read takes over the name of the good text |
| `namespace` | lexical scoping, locality of bindings, forms kept |
| `line_editor` | cursor, bytes, history, terminal; implements LineEditor |
| `line_editor_limit` | finding: lowering the limit drops the newest lines |
| `display` | the screen shows the line and the cursor after any edits, and drawing ends |
| `repl` | sessions resume from their predecessors through kills and failing disks; quitting ends |
| `jit` | JITs are delivered whole, lent objects live, whose code a module gets |
| `error_table` | the two loops agree, and when ids are the enumerators' values |
| `builder` | interrupted commands, run again, and what a removal can reach |

What the `reader` run says: at every step the location equals the geometry of the
consumed text (`LocationExact`) and leads through the line index to the
character (`LocationFindsCharacter`); no byte behind the terminator is
dereferenced (`StaysInBuffer`); the parenthesis asserted at reader.cpp:326 is
there (`DispatchAgrees`); the recursion is as deep as the open parentheses
(`StackMirrorsNesting`); each identifier character is in exactly one token
and each node has one owner and children keep the order of the text
(`NothingLost`); the read returns (`Termination`), although the loop
counter of `read()` never moves.

What the `display` run says: in the multi line mode the editor moves relatively, by
columns that it counts itself, and forgets everything but `oldcolpos` and `maxrows`
between two refreshes; after any sequence of edits the screen is nevertheless as if
prompt and line had been written once (`ScreenShowsLine`), provided the width is known
and the prompt leaves room in its row. In the single line mode the row shows the part
around the cursor, if the prompt takes a column (`RowShowsCursor`), the loops that choose it end (`RefreshReturns`),
and after Enter the next prompt has its own row (`NextRowFree`).

What the `repl` run says: `SessionResumes` relates the steps of three processes. The
history that a session starts with is that of the last session that quit, cut to the
limit and without repetitions. It need not have the same entries: one that holds line
feeds comes back in the pieces between them (`comesBack`), which also count for the limit
and the repetitions. Only a save that a kill or the disk broke off loses entries, always
the later ones, and leaves of the first lost one a part, or two parts if the stream could
write again when it was closed (`tornOff`); both are taken for lines. The model lets lines
fail to evaluate, so they are not added, and lets Ctrl-C leave the editor's placeholder,
an empty line, in the history that is saved.

What the `jit` run says: an entry of the cache is only ever asked for by identifier, so
a module whose identifier was compiled before is linked with that object whatever its
own code is; `ObjectMatchesModule` says exactly when. `BorrowedAlive` holds because an
entry, once there, makes the compiler skip compiling for its identifier, so it is never
replaced while lent; the mutant that looks at the module breaks it.

What the `builder` run says: what is there decides what the next run does, and of an
unpacking or a removal that was broken off enough may be there to be taken for the
whole; that is the one exception in `ReadyMeansWhole`, and everything else that may be
broken off is made up for. `DevicesKept`: since mounts are not made twice, one umount each
is enough, so `rm -rf` gets into the mounted devices only if umount failed on them.

### Bounds

- Reader: every text of up to 3 of the 9 classes; up to 6 of parentheses, newline
  and letter (nesting to depth 6, lists and siblings in all arrangements, enough
  newlines that both counters wrap at `LocMod` = 4); up to 5 of sign, digit, dot,
  letter and space (two dots, a sign before a number, numbers that touch
  symbols). A look-ahead of the code is at most two characters or to the next
  non-space, so longer texts repeat these situations. The finding runs need two
  characters.
- SourceMgr: three buffers, so the vector grows twice (capacity 1, 2, 4) with
  caches present or not; two names of one path, two directories, two path lists;
  element types of 2, 4 and 8 values with one text at a boundary size and one
  whose last newline does not fit the smaller type. `IdMod` is above the number
  of buffers, as 2^32 is, so a wrapped id is modelled and not reached.
  The run may stop once the manager is destroyed and the files no longer
  change, so deadlock is not checked there.
- Namespace: three environments (root, nested, siblings, second roots), two
  names, two values and null, three forms. With the bounds used up the run stops,
  so deadlock is not checked. The names, like the values, are interchangeable,
  which the symmetry uses; no liveness is checked in that run.

- Linenoise: five keyboards: a pipe; two characters (one the space) with every key
  and lines up to two; one character up to a full line (`MaxLine` = 5 leaves
  four); ASCII and combining characters up to three bytes, wide and combining up
  to four. The last two are without Ctrl-T, which swaps bytes (2356-2365) and so
  tears longer characters apart, and stay clear of the buffer's end, where such a
  character leaves no room for the terminator (2141): `WholeCharacters` does not hold
  beyond that. Histories of up to three entries, so a walk has two ends and a middle;
  the limit may fall to two; the loaded file repeats lines and outgrows the history.
  Restoring the terminal never fails in `line_editor`, because `TerminalRestored` is
  false otherwise (see below); it may in `repl`. Lines that are longer than the buffer
  do not get into the history.
- Display: widths of three and four columns, prompts without, within and beyond a row
  and with an escape sequence, and texts of up to five characters that fill up to five
  rows: every short line of narrow and wide characters, and some with marks. A wide
  character meets the margin in every way; a longer line only repeats rows. Twelve rows
  hold any of this. A byte that is no character is in one text.
- Repl: three processes, so that what a broken-off save leaves is loaded, saved and
  loaded again; a history of two, lines of up to three characters, letters and line
  feeds in any order (so an entry may come back in four pieces and evict others); files
  that repeat lines, outgrow the history and end within a line; keys that walk, quit and
  break off, and on another keyboard more characters instead. Characters of several bytes,
  which a torn line may cut, are left to the proofs (`TornWhole`, below).
- Jit: two modules of one identifier beside a third with its own, links nested to depth
  two (deep enough for one to hold a buffer while another compiles), two dylibs of a
  namespace; every phase of compilation, each with some of the flags; LLVM with and without perf.
- ErrorTable: lists of up to four of three records, also repeated; the records are
  interchangeable, which the symmetry uses.
- Builder: no bound; two files per package, so that something can be half there. One
  command runs at a time: two terminals at once are not modelled.

### Fairness

The reader and a load run on the caller's thread and never wait, so the step
that is enabled is eventually taken: `WF_vars(Step)` and `WF_vars(Inside)`.
Nobody is obliged to call, to edit a file or to look up a line, and no fairness
is assumed of that. A load returns even if files change forever, because it
looks at each load path once. In Display the two loops of `refreshSingleLine` run
without waiting (`WF_vars(Loops)`), the user's keys may stop. In Repl `main()`'s own steps
do (`WF_vars(run)`: evaluate, save, return), Readline waits for the user. Jit, Namespace,
Linenoise, ErrorTable and Builder state no liveness: each operation is a few steps that
do not wait, and whether another follows is the caller's affair.

## The proofs

`ReaderProofs` proves, for every set of texts, terminated or not, and every
counter width above 1, that `IInv` is inductive, and from it type correctness,
`LocationExact`, `StaysInBuffer`, `DispatchAgrees` and `StackMirrorsNesting`. None
of these is inductive alone. `IInv` adds where a list is surely open
(`Control`), how far the position can be (`Position`), what each function knows
of the characters ahead when it is entered (`Ahead`; after a look-ahead over
spaces, that the spaces are followed by the parenthesis that was seen), and
that the flag is set exactly behind a newline (`Geometry`). The lemma per
conjunct goes through the actions once; `AdvanceGeometry` is the arithmetic of
one step of the location, with `WrappingCounter` (a counter that wraps counts
modulo its width), `ConsumedStep` the cardinality of the consumed characters of a
class. `NextNonSpace` shows that the unbounded whitespace scan stops, from the
fact that a bounded set of naturals has a least element. Assumed are the
constants' assumptions only: texts and the foreign byte are made of the
character classes, and `LocMod` is a natural above 1.

With `LineIndexProofs` it also proves `LocationFindsCharacter`: what the reader counts
and what the source manager searches agree. That module is about one text:
`LineIndexFindsLines` says that the search in the vector of offsets, which the loop
fills newline by newline (`LoopIndexes`), gives for each line what the definition of
"line" gives, for every text whose size the widest element type holds.

It goes on from there to what the reader builds. `Words` is inductive
relative to `IInv`: between two atoms the locals are clear, the finished tokens and the
one being read are disjoint, do not run ahead of the reader, and cover what it has
consumed; every step leaves them, adds the next character, or finishes the token
(`WordStep`). `Tree` is the ownership: each place refers to a node, each node has one
place (`Single`), every holder's nodes increase (`Sorted`), and whatever a pending list or
the AST holds is older than the lists pending above it (`Nested`), which is why a closed
list can be appended behind it. `NothingLost` follows for terminated buffers
(`Foreign = {"nul"}`). It needs that: where the byte after the buffer is not a terminator
`readExpr()` can come to the end with a list pending and hand it the null pointer.
`ExprAhead` excludes it.

It ends with the refinement, `ReaderKeepsPromise`: on terminated buffers Reader
implements SExpr. Three invariants carry it. `Upcoming` is what is ahead when a
function is called (the next token is a parenthesis, an atom, the end); `Scan` says of
the token under way that its characters are exactly those that SExpr's maximal run has
had so far, so the character that ends it in the code ends it there; `Waiting` says that
there is no result before the read returns. `Keeper` says who has a node by its place alone,
which relates the mapping's `ownerOf` (a search) to the tree (`Parents`). Each step that
SExpr sees has a lemma of its own: `FinishStep`, `OpenStep`, `CloseStep`, `SymbolStep`,
`NumberStep`, `RejectStep`; every other step leaves the mapped state as it is
(`WalkStutters`, `TokenStutters`). That the read ends is left to the run.

`SourceMgrProofs` proves `TypeOK`, `TextsStay`, `CachesOwnedOnce`, `TableLeadsToNewest`,
`FirstInLoadPath` and `LookupExact` for every set of names, texts and load paths and
every number of buffers. All rest on `Shape`, the types of buffers and caches and what a
call in progress knows of its argument. An added buffer's move deletes no cache, because
the buffer moved from no longer has one; a lookup adds a cache only to a buffer without
one. The table needs `Table`, which says that between `indexNamespace` and `read` the
name leads to the buffer just added, and the hypothesis `MaxBuffers < IdMod`: without it
an id wraps and the table leads to an older buffer. `LookupExact` needs that a cache,
whenever it was filled, is the index of its owner's text, which never changes; the rest
is `LineIndexFindsLines`. It is assumed that the widest element type holds every text's
size (uint64_t in the code).

`NamespaceProofs` proves, whatever names and values are, that scopes stay a tree
(a parent exists before its children, which ends the recursion of `lookup`), that forms are held once, and
what lookups return: the recursive `lookup` is the binding of the innermost scope that
has one (`InnermostWins`), and `insert_symbol` changes what a name means only where its
environment is the innermost (`ShadowingIsLocal`). The recursion descends to older
environments, so the proofs take the oldest environment for which the claim fails.

`LinenoiseProofs` proves `TerminalRestored`, if `tcsetattr()` does not fail when the
mode is restored, for every keyboard, history and number of sessions. The
inductive invariant ties `rawmode` and `terminal` to the session and says that
`orig_termios` always holds the user's mode: that is what a failed restore breaks.
It also proves `TypeOK`, with the cursor in the line and the index in the history
(`TypesHold`), `HistoryBounded` and `WholeCharacters`, if what is typed and
loaded consists of whole characters, and of characters of one byte if Ctrl-T may be
pressed, since it swaps bytes (`WholeInput`, which TLC checks of the runs' inputs). The
invariant `Session` says that the cursor is at a `Boundary`. `NextGrapheme` and
`PrevGrapheme` show that the lengths that the editor computes forwards and backwards
over the bytes, whatever the number of marks, lead from one boundary to another, and
`CutText`, `InsertedText` that texts put together at boundaries are whole.

It ends with a refinement too, `LineEditorKeepsPromise`: Linenoise implements LineEditor,
if moreover a key gives one character (`SingleCharacters`, checked on the runs' inputs).
No further invariant is needed than `Session`; the work is to read bytes as characters.
`Spelled` unfolds the recursive function `characters`, `JoinedCharacters` and `Split` say
that it respects `\o` at boundaries, `SameCharacters` that it loses nothing (the history
compares bytes, LineEditor characters). A position in the bytes has its place among the
characters (`Cursor`), in the same order (`SameOrder`), and every place is one
(`CursorReaches`), so what the code finds by scanning bytes is what LineEditor defines as
the nearest or the last place with a property: `StepBack` and `StepForth` say exactly where
the two scans over marks stop, `PreviousCharacter`, `NextCharacter` and `PreviousWord` what
that is in characters. Then every key has a lemma (`TypeKey` to `SwapKey`), the walk
(`WalkKeys`), the ways out (`EndKeys`) and the calls (`CallKeepsPromise`).

Over the same editor, `SessionsResume` proves `SessionResumes` of the REPL, for every
keyboard of whole input, every file of it, every limit of the history and number of
sessions. The invariant `RInv` has, beside the editor's `Session`: that the file is the
bytes of the first entries that the last session left, of all of them unless a save went
wrong, and then a torn part of the next (`Begins`); how far a save has come and what its
stream holds (`Saving`); that a loading session has nothing yet and its limit set
(`Loading`); that the stream that saves is a new one (`Unsaved`); and the kinds of the
bytes (`Kinds`). `FileBegins` is what that says of the disk at any moment. That the bytes
come back as `SessionResumes` says is about `linesOf` alone: `GotBoth` (reading two texts,
of which the first ends with a line, one after the other), `SavedComesBack` (entries
without line feeds come back as they are, others in pieces) and `FileComesBack`. The loop
of `LoadHistory()` is a lemma of its own: after each line the history holds the latest
lines that repeat none before them, at increasing places of the file (`Places`), and its
last entry is the last line, repeated or not (`Loaded`).

A hypothesis remains, `TornWhole`: no session loads a part of a character that a kill or
a full disk has left. It is not a property of the code. Where it fails, `Session` does
too: with a part of a character in the line, `unicodeUTF8CharLen()` leads beyond the end of
the line, and what the editor then does is undefined (see the divergences below). Where
all characters have one byte nothing can be cut: `OneByteResumes` proves that `TornWhole`
then always holds, and `SessionResumes`, `HistoryBounded` and `WholeCharacters` with no
assumption about the disk.

The two parts meet in `SessionsKeepCharacters`. About Linenoise alone, the files that are
loaded are assumed to hold whole characters; in the REPL they are those that sessions have
saved, perhaps in the middle of a walk through the history, after a kill or on a full
disk. Every step of the REPL is one of the editor, loads or starts anew (`EditorStep`), so
`Session` holds in it, hence what is saved is whole, hence, under `TornWhole`, what is
loaded: line feeds are characters of one byte, so pieces of whole entries are whole. In the
same way `ReplGivesBack` carries `TerminalRestored` over to all processes.

`DisplayProofs` proves the invariants of Display: `ScreenShowsLine` in the multi line mode,
`RowShowsCursor` in the single line mode, `NextRowFree`, and `TypeOK` as long as the
editor knows the width and the prompt leaves room in a row (`Fits`; otherwise the drawing
is wrong by itself, see below). They hold for all prompts and texts, on terminals of
any width, under three hypotheses, which TLC checks of the run's constants
(`MCAssumption`): the terminal has more than two columns (`NoneFillsARow`), a line that
is not empty takes a column, or its prompt does (`LinesAreSeen`), and, the bound, the
model has rows for every text (`EnoughRows`). The attempt to do without the first two
found the cases in which the code goes wrong, also below.

The argument has three parts. `InStep` relates what the editor counts over a text,
`unicodeColumnPosForMultiLine` with its padding at the margin, to where the terminal
stands after the same text, whose wrap is put off: they differ only at the margin, where
the counter is already in the next row (`AlwaysInStep`, one character at a time, by
`StepInStep`). Hence the relative movements, which are differences of such counts, lead
where they should (`PlaceCounted`, `RowsCounted`). Erasing the rows that were used leaves
the rows from the prompt's on empty, whatever was in them (`Cleared`, `ErasedIsClean`), if
`maxrows` counts all that were used and `oldcolpos` tells the cursor's row: that is what
`Laid` says of a screen and what `LayOut` gives again for the next line. In the single line
mode a part of the line is shown that fits into the row (`ShowsPart`); it is
`refreshSingleLine`'s loops that find one (`ScrollLeftStep`, `CutRightStep`, `DrawStep`),
and writing a typed character at the end keeps it (`Inserted`). The inductive invariant
`IInv` puts these together with the types, what is known before the prompt
(`AtStart`), what the loops have found out (`Scrolling`) and what Enter leaves
(`Finished`); it says nothing where the prompt does not fit. What `write`, the
counting and the erasing do to a text is defined by folds. Their recursion is unfolded by
`FoldEnds`, and statements about all texts are proved by `SequenceInduction`, in which the
set of the texts with the property takes the place of an operator.

`JitProofs` proves all the invariants of Jit and its action property, for every set of
modules, identifiers, options and namespaces and every depth of nesting. The core of
`IInv` is that nothing is freed while a JIT lives, since a compilation only happens for
an identifier without an entry; that with a cache the entry of a compiled module's
identifier has that module's code; and that a lent buffer is the entry (`Linking`).
Where `make()` is in `pc` fixes what of the JIT is there.

`ErrorTableProofs` proves `VariantsMatchEnumerators` for every list of every length: the
invariant says after each round of each loop that the enumerators so far are exactly the
places of Errors, in order (`Enumerates`), and that the second loop repeats them
(`Follows`); the claim about ids needs in addition that as long as all records are Errors
there are as many enumerators as records.

Beyond the hypotheses named above, assumed are the named assumptions of the modules only.

Only model-checked: termination and all liveness (outside the prover's reach:
`Termination`, `CallsReturn`, `RefreshReturns`, `QuitEnds`, and of `ImplementsSExpr` that
the promised end comes); Builder, `ReadyMeansWhole` and `DevicesKept`, where the run is
complete anyway, since it has neither constants nor bounds, so that a proof for every value
of them would say the same.

## Divergences that no run is kept for

Met while modelling, in the models as the code has them, and not claimed otherwise by a
property:

- A symbol's range starts at 0:0: `readSymbol()` never sets its start (reader.cpp:263).
- A null value does not shadow: `lookup` takes it for a missing one (environment.h:47),
  although `insert_symbol` stores it (58-63).
- Ctrl-T swaps bytes, not characters (linenoise.h:2356-2365); a long character at the end
  of a full line takes the terminator's place (2141, 2146).
- After one failed `tcsetattr()` in `disableRawMode()`, `rawmode` stays set and the next
  `enableRawMode()` saves the raw mode as the original one (1753), to which the exit
  handler then "restores".
- `SaveHistory()` returns true although writes failed (2573-2577). An empty line stays in
  the saved history after Ctrl-C, and a full history loses its oldest entry to the
  placeholder of the line that is being edited (2299).
- Ctrl-J puts a line feed into the line (2436), `SaveHistory()` writes it raw (2574), and
  `LoadHistory()` splits at it (2589): after a restart the entry is two, or more.
- A disk that fills up, or a kill in the middle of a write, leaves a part of an entry in
  the file, which the next session takes for an entry; the retry of the stream's destructor
  may put the entry behind that part once more, so that the line may also be longer than
  the editor's buffer. If the part ends within a character and the user walks to it,
  `unicodeUTF8CharLen()` (1505-1519) counts bytes that are not there: the cursor may get
  beyond the end of the line, where `memmove` is called with a length below zero (2160,
  2233), and the measuring loops (1627, 1655) may stay in their place.
- The perf listener is silently not registered if LLVM was built without it (jit.cpp:141,
  222).
- Ctrl-C in the multi line mode prints its newline where the cursor is (2340-2342, 2492), so
  the next prompt may overwrite rows of the line. A TAB or a line feed in a line is
  measured as one column (1638).
- With a redirected input, or on a terminal on the list of unsupported ones, the REPL
  never sees the end of the input: Readline returns false with an empty line.
- If the prompt fills the row or more, `refreshSingleLine` does not end and the multi line
  measuring starts behind the margin; in the single line mode a prompt that takes no
  column, empty or only an escape sequence, puts the cursor one column to the right if it
  belongs in the first, since `ESC[0C` moves by one; in a full row the last
  character is erased. A terminal that answers only once leaves the cursor at the right
  margin.
- On a terminal of two columns the multi line mode counts a column too many behind a wide
  character that does not fit into the rest of a row: it fills the next one, but
  `unicodeColumnPosForMultiLine` sets `colwid` to its width instead of to 0 (1665-1667).
  With the prompt `a`, a wide character and a narrow one, and the cursor between
  them, the screen is not as if the line had been written once.
- If a line consists of combining marks only and its prompt is empty, the multi line
  mode takes the cursor at column 0 for one at the margin and moves it down a row
  (2094-2100).
- `Number`'s copy constructor leaves `isNeg` and `isFloat` uninitialised (ast.cpp:66).
- The nodes' locations refer to the name given to `readNamespace` and to a local string
  of it (source_mgr.cpp:106).
- The generator ends a help text with `";` inside parentheses, so an Error with a help
  text does not compile, and counts foreign records in `NUMBER_OF_ERRORS`.
- A failed `wget -O` leaves a file, which the next `setup-dev` takes for the archive
  (builder:372); no command ever removes it.

## Plan

Done, in this order: Reader with SExpr and its first proofs; LineIndex, SourceMgr,
Diagnosis; Namespace with proofs; Linenoise with LineEditor; Jit with proofs; Display;
Repl; ErrorTable with proofs; Builder; the proofs about SourceMgr and the
reader's tree; lookups, of names and of lines; whole characters in the editor; the
implementations of SExpr and LineEditor; the history across processes; the screen.
Next:

1. The REPL's line with its screen: Linenoise and Display over one line.
2. `Ast`: type tags, casts, copies. `Builder`: the images of the file system.

## Not modelled, and why

serenec, core and devtools are disabled in the build, empty, or depend on
headers that are not in the tree. The driver only parses its command line with
LLVM's library. `errors.*`, and `utils.h` keep no state. Build files configure.
The editor's Windows console is another platform's; its completion is never reached,
because nobody sets the callback. What is not there yet is in the plan above.
