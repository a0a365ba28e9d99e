-------------------------------- MODULE Repl --------------------------------
(***************************************************************************)
(* The REPL (serene-repl/serene-repl.cpp): main() reads lines with the line*)
(* editor and evaluates them until the user quits, and keeps the history of*)
(* lines in a file that outlives the process.                              *)
(*                                                                         *)
(* What serene::read() and eval() make of a line is their success or their *)
(* failure.  The process may be killed at any moment and started again.    *)
(* Each entry is written to the file as soon as it is complete (std::endl),*)
(* and the disk may take a part of it only.                                *)
(***************************************************************************)
EXTENDS Linenoise

CONSTANTS
  HistoryLength,   \* what main() limits the history to
  MaxStarts        \* bound: how often the REPL is started

VARIABLES
  main,      \* where main() is
  file,      \* the bytes of the history file
  usable,    \* can the file be opened?  ("~" in its path is not expanded)
  written,   \* SaveHistory(): how many entries it has dealt with
  pending,   \* its stream: the bytes of a write that has failed
  left,      \* history: the entries that the last session left to the next
  broken,    \* history: has a save begun and not, or not well, come to its end?
  starts     \* history: how often the REPL was started

ASSUME ReplAssumption ==
  /\ HistoryLength \in Lengths \ {0} /\ MaxStarts \in Nat \ {0}

editor   == vars
disk     == <<file, usable, written, pending>>
past     == <<left, broken, starts>>
replVars == <<editor, main, disk, past>>

(***************************************************************************)
(* main()                                                                  *)
(***************************************************************************)

setHistoryMaxLen ==
  /\ main = "started"
  /\ main' = "loading"
  /\ SetHistoryMaxLen(HistoryLength)
  /\ UNCHANGED <<disk, past>>

loadHistory ==
  /\ main = "loading"
  /\ main' = "read"
  /\ LoadHistory(IF usable THEN file ELSE <<>>)
  /\ UNCHANGED <<disk, past>>

\* Readline() begins; without an editing session it also returns.
readline ==
  /\ main = "read"
  /\ \/ linenoiseEdit /\ main' = "editing"
     \/ (readPlainLine \/ cannotEdit) /\ main' = "returned"
  /\ UNCHANGED <<disk, past>>

type ==
  /\ main = "editing"
  /\ KeyStroke
  /\ main' = IF pc' = "idle" THEN "returned" ELSE "editing"
  /\ UNCHANGED <<disk, past>>

\* A line that cannot be read or evaluated is reported and forgotten.
evaluate ==
  /\ main = "returned" /\ ~quit
  /\ main' = "read"
  /\ AddHistory \/ UNCHANGED editor
  /\ UNCHANGED <<disk, past>>

\* The bytes that SaveHistory() writes.
entryOut == Append(history[written + 1], "lf")
saved(h) == FlattenSeq([i \in DOMAIN h |-> Append(h[i], "lf")])

openFile_Appends ==
  /\ main = "returned" /\ quit
  /\ main' = IF usable THEN "saving" ELSE "leaving"
  /\ left' = history /\ broken' = usable
  /\ UNCHANGED <<editor, disk, starts>>

\* SaveHistory() opens the file, which empties it.
openFile ==
  /\ main = "returned" /\ quit
  /\ main' = IF usable THEN "saving" ELSE "leaving"
  /\ file' = IF usable THEN <<>> ELSE file
  /\ left' = history /\ broken' = usable
  /\ UNCHANGED <<editor, usable, written, pending, starts>>

saveLine_Retries ==
  /\ main = "saving" /\ written < Len(history)
  /\ \/ /\ pending = <<>> /\ file' = file \o entryOut
        /\ written' = written + 1 /\ UNCHANGED pending
     \/ pending' = entryOut /\ UNCHANGED <<file, written>>
  /\ UNCHANGED <<editor, main, usable, past>>

\* A write that fails leaves any beginning of the entry, and the stream keeps
\* all of it or the rest.  From then on the stream ignores what it is given.
saveLine ==
  /\ main = "saving" /\ written < Len(history)
  /\ \/ pending # <<>> /\ UNCHANGED <<file, pending>>
     \/ pending = <<>> /\ file' = file \o entryOut /\ UNCHANGED pending
     \/ /\ pending = <<>>
        /\ \E n \in 0 .. Len(entryOut) - 1 :
             /\ file' = file \o SubSeq(entryOut, 1, n)
             /\ pending' \in {entryOut, SubSeq(entryOut, n + 1, Len(entryOut))}
  /\ written' = written + 1
  /\ UNCHANGED <<editor, main, usable, past>>

\* The destructor of the stream tries again what it has kept.
closeFile ==
  /\ main = "saving" /\ written = Len(history)
  /\ main' = "leaving"
  /\ file' \in {file \o part : part \in Prefixes(pending)}
  /\ broken' = (pending # <<>>)
  /\ UNCHANGED <<editor, usable, written, pending, left, starts>>

exit ==
  /\ main = "leaving"
  /\ main' = "ended"
  /\ linenoiseAtExit
  /\ UNCHANGED <<disk, past>>

over == main \in {"ended", "killed"}

\* By a signal, in the middle of a write too: no destructor and no exit
\* handler runs.
kill ==
  /\ ~over
  /\ main' = "killed"
  /\ \/ UNCHANGED file
     \/ /\ main = "saving" /\ written < Len(history) /\ pending = <<>>
        /\ file' \in {file \o part : part \in Prefixes(entryOut)}
  /\ UNCHANGED <<editor, usable, written, pending, past>>

\* A new process, with new globals; the shell has put the terminal in order.
restart ==
  /\ over /\ starts < MaxStarts
  /\ main' = "started" /\ starts' = starts + 1
  /\ history' = <<>> /\ history_max_len' = DefaultMaxLen
  /\ buf' = <<>> /\ pos' = 0 /\ history_index' = 0
  /\ line' = <<>> /\ quit' = FALSE /\ pc' = "idle"
  /\ rawmode' = FALSE /\ orig_termios' = "cooked" /\ terminal' = "cooked"
  /\ written' = 0 /\ pending' = <<>>
  /\ UNCHANGED <<keyboard, file, usable, left, broken>>

(***************************************************************************)
(* The specification.                                                      *)
(***************************************************************************)

ReplInit ==
  /\ Init
  /\ main = "started" /\ starts = 1
  /\ file \in Files /\ usable \in BOOLEAN /\ written = 0 /\ pending = <<>>
  /\ left = linesOf(file) /\ broken = (file # saved(left))

\* What main() does without waiting for a user.
run == evaluate \/ openFile \/ saveLine \/ closeFile \/ exit

ReplNext ==
  \/ setHistoryMaxLen \/ loadHistory \/ readline \/ type
  \/ run \/ kill \/ restart
  \/ (over /\ UNCHANGED replVars)

ReplSpec == ReplInit /\ [][ReplNext]_replVars /\ WF_replVars(run)

(***************************************************************************)
(* Properties.                                                             *)
(***************************************************************************)

\* A history holds of some lines the latest ones that repeat no line before
\* them: all of these, or as many as it has room for.
holdsLatest(h, lines) ==
  LET kept == {i \in DOMAIN lines : i = 1 \/ lines[i] # lines[i - 1]}
  IN /\ Len(h) <= HistoryLength
     /\ \E at \in [DOMAIN h -> kept] :
          /\ \A k, l \in DOMAIN h : k < l => at[k] < at[l]
          /\ \A k \in DOMAIN h : h[k] = lines[at[k]]
          /\ \A i \in kept \ Range(at) : Len(h) = HistoryLength /\ i < at[1]

\* What getline makes of saved entries: each as it was, but for one that holds
\* line feeds, of which the pieces between them come back.
pieces(s)    == IF Contains(s, "lf") THEN linesOf(Append(s, "lf")) ELSE <<s>>
comesBack(h) == FlattenSeq([i \in DOMAIN h |-> pieces(h[i])])

\* What may follow the first n entries of h in the file, where the next is missing:
\* a beginning of its bytes, and another one if the stream has tried again.
tornOff(h, n) ==
  IF n = Len(h) THEN {<<>>}
  ELSE LET begun == Prefixes(Append(h[n + 1], "lf")) IN {p \o q : p, q \in begun}

\* A session resumes from what the one before left, whatever that one's user
\* has typed, edited in old entries or broken off: from its history when it has
\* quit, from what it found itself when it was killed before.  Entries that hold
\* a line feed come back in pieces.  Only of a save that a kill or the disk
\* breaks off, the later entries are lost, and of the first of these a part or
\* two are there.  (main(), SaveHistory() and LoadHistory() together, across
\* processes.)
SessionResumes ==
  [][main = "loading" /\ main' = "read" /\ usable =>
       \E n \in 0 .. Len(left) :
         /\ n < Len(left) => broken
         /\ \E torn \in tornOff(left, n) :
              holdsLatest(history', comesBack(SubSeq(left, 1, n)) \o linesOf(torn))]_replVars

\* Once the user quits, the process ends, even if the disk takes no line.
QuitEnds == (main = "returned" /\ quit) ~> over
=============================================================================
