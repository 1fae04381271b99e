------------------------------ MODULE Research ------------------------------
(***************************************************************************)
(* A search (research/autoresearch.py or research/feature_search.py): one  *)
(* trial of the gate for each configuration, then one append of all rows   *)
(* to a CSV leaderboard that other searches append to as well, without a   *)
(* lock.  "this" search is followed trial by trial; the "other" one brings *)
(* rows of its own.  A file is a sequence of half lines, since what a      *)
(* buffered writer flushes may end anywhere.                               *)
(***************************************************************************)
EXTENDS Gate, SequencesExt

CONSTANTS
  Presets, Grid,     \* configurations to mutate, and <<key, values>> to mutate them by
  Features, Shapes,  \* feature_search: the features and the book shapes
  OtherRows          \* the rows of the other search

ASSUME RowsAssumption == OtherRows \in Seq(ToSet(OtherRows))

VARIABLES
  program,    \* the program of this search
  results,    \* the rows of its finished trials
  created,    \* there is a leaderboard file
  board,      \* what is in it
  writer,     \* writer[p]: how far search p is with its append
  disturbed   \* two appends overlapped, or one was killed half-way

boardVars == <<created, board, writer, disturbed>>
researchVars == <<vars, program, results, boardVars>>

Searches == {"this", "other"}
Header == <<"header">>
Programs == {"autoresearch", "feature_search"}

-----------------------------------------------------------------------------
\* Every preset under every combination of the grid, the last key fastest.
MutationGrid ==
  LET Override(configs, kv) ==
        FlattenSeq([i \in DOMAIN configs |-> [j \in DOMAIN kv[2] |->
                      [configs[i] EXCEPT ![kv[1]] = kv[2][j]]]])
  IN  FlattenSeq([i \in DOMAIN Presets |-> FoldLeft(Override, <<Presets[i]>>, Grid)])

\* Every feature, with both signs, in every shape of the book.
Candidates ==
  FlattenSeq([f \in DOMAIN Features |-> FlattenSeq([g \in 1..2 |-> [c \in DOMAIN Shapes |->
    [feature |-> Features[f], sign |-> 3 - 2 * g, config |-> Shapes[c]]]])])

Configs == IF program = "autoresearch" THEN MutationGrid ELSE Candidates

Searching == writer["this"].pc = "search"

\* run_trial: the gate on both splits.
Trial ==
  /\ Searching /\ Len(results) < Len(Configs)
  /\ Train \/ Test \/ RunWindow \/ NextCell \/ Reject \/ Promote
  /\ UNCHANGED <<program, results, boardVars>>

\* The result of a trial is kept in memory, and the next one begins.
Collect ==
  /\ Searching /\ NextTrial
  /\ results' = Append(results, [config |-> Configs[Len(results) + 1],
       promoted |-> verdict["test"].promote,
       score |-> GeneralizationScore(verdict["train"].worst, verdict["test"].worst)])
  /\ UNCHANGED <<program, boardVars>>

-----------------------------------------------------------------------------
(* append_to_leaderboard, _append *)

\* A higher score comes first; of equal ones, the earlier trial (sort is stable).
Ahead(i, j) ==
  \/ results[i].score > results[j].score
  \/ results[i].score = results[j].score /\ i < j
Rank(i) == Cardinality({j \in DOMAIN results : Ahead(j, i)}) + 1

\* feature_search ranks its rows before it appends them, autoresearch after.
Ranked ==
  IF program = "feature_search"
  THEN [k \in DOMAIN results |-> results[CHOOSE i \in DOMAIN results : Rank(i) = k]]
  ELSE results

Rows(p) ==
  LET rows == IF p = "this" THEN Ranked ELSE OtherRows
  IN  [i \in DOMAIN rows |-> <<p, rows[i]>>]

\* Lines cut in two: a first half is marked 1, a second 0.
Halves(lines) == [h \in 1..(2 * Len(lines)) |-> <<lines[(h + 1) \div 2], h % 2>>]

Text(p) == Halves((IF writer[p].header THEN <<Header>> ELSE <<>>) \o Rows(p))
Appending(p) == writer[p].pc \in {"open", "write"}

\* Mutant of CheckBoard: the file is looked for after it was opened.
CheckBoardOpened(p) ==
  /\ writer[p].pc = "search" /\ Len(results) = Len(Configs)
  /\ writer' = [writer EXCEPT ![p].pc = "open", ![p].header = FALSE]
  /\ disturbed' = (disturbed \/ \E q \in Searches : Appending(q))
  /\ UNCHANGED <<vars, program, results, created, board>>

\* The search is over: does the file exist?  Bound: the other search ends
\* after this one's last trial; before, its steps would change nothing here.
CheckBoard(p) ==
  /\ writer[p].pc = "search" /\ Len(results) = Len(Configs)
  /\ writer' = [writer EXCEPT ![p].pc = "open", ![p].header = ~created]
  /\ disturbed' = (disturbed \/ \E q \in Searches : Appending(q))
  /\ UNCHANGED <<vars, program, results, created, board>>

\* Mutant of OpenBoard: open("w").
OpenBoardTruncating(p) ==
  /\ writer[p].pc = "open"
  /\ created' = TRUE /\ board' = <<>>
  /\ writer' = [writer EXCEPT ![p].pc = "write", ![p].buffer = Text(p)]
  /\ UNCHANGED <<vars, program, results, disturbed>>

\* open("a") creates the file; the rows go to a buffer.
OpenBoard(p) ==
  /\ writer[p].pc = "open"
  /\ created' = TRUE
  /\ writer' = [writer EXCEPT ![p].pc = "write", ![p].buffer = Text(p)]
  /\ UNCHANGED <<vars, program, results, board, disturbed>>

\* The buffer runs over, or is flushed when the file is closed.
Flush(p) ==
  /\ writer[p].pc = "write" /\ writer[p].buffer # <<>>
  /\ \E n \in 1..Len(writer[p].buffer) :
       /\ board' = board \o SubSeq(writer[p].buffer, 1, n)
       /\ writer' = [writer EXCEPT ![p].buffer = SubSeq(@, n + 1, Len(@))]
  /\ UNCHANGED <<vars, program, results, created, disturbed>>

CloseBoard(p) ==
  /\ writer[p].pc = "write" /\ writer[p].buffer = <<>>
  /\ writer' = [writer EXCEPT ![p].pc = "done"]
  /\ UNCHANGED <<vars, program, results, created, board, disturbed>>

\* Bound: a search that is killed before its append leaves nothing behind.
Kill(p) ==
  /\ Appending(p)
  /\ writer' = [writer EXCEPT ![p].pc = "dead", ![p].buffer = <<>>]
  /\ disturbed' = (disturbed \/ writer[p].buffer # <<>>)
  /\ UNCHANGED <<vars, program, results, created, board>>

ResearchInit ==
  /\ Init /\ program \in Programs /\ results = <<>>
  /\ created = FALSE /\ board = <<>> /\ disturbed = FALSE
  /\ writer = [p \in Searches |-> [pc |-> "search", header |-> FALSE, buffer |-> <<>>]]

ResearchNext ==
  \/ Trial \/ Collect
  \/ \E p \in Searches :
       CheckBoard(p) \/ OpenBoard(p) \/ Flush(p) \/ CloseBoard(p) \/ Kill(p)

ResearchSpec == ResearchInit /\ [][ResearchNext]_researchVars

-----------------------------------------------------------------------------
(* Properties *)

\* What a search that has returned appended stays on the leaderboard: no half
\* of its rows is lost, changed or written twice, and they are in its own
\* order, whatever other searches append and wherever they are killed.  A row
\* need not be in one piece: a flush of another search may come between its
\* halves.
SearchIsOnBoard ==
  \A p \in Searches : writer[p].pc = "done" =>
    LET own == {i \in DOMAIN board : board[i][1] \in ToSet(Rows(p))}
    IN  /\ Cardinality(own) = Len(Halves(Rows(p)))
        /\ \A i \in own : board[i] = Halves(Rows(p))[Cardinality(own \cap 1..i)]

\* As long as appends do not overlap and none is killed half-way, a leaderboard
\* has one header, its first line, and no broken line (append_to_leaderboard,
\* autoresearch.py:162-174).
HeaderOnce ==
  ~disturbed /\ created /\ (\A p \in Searches : writer[p].pc # "write") =>
    LET lines == [i \in 1..(Len(board) \div 2) |-> board[2 * i][1]]
    IN  /\ board = Halves(lines) /\ lines # <<>>
        /\ \A i \in DOMAIN lines : (lines[i] = Header) = (i = 1)
=============================================================================
