---------------------------- MODULE DecisionRecall ----------------------------
(***************************************************************************)
(* The bounded recall of earlier decisions at a historical cutoff.         *)
(*                                                                         *)
(* A row holds its run, symbol, the date and the instant it was made, and  *)
(* the availability timestamps its payload carries.  Rows are in the order *)
(* of their sequence numbers.                                              *)
(***************************************************************************)
EXTENDS Instants, Sequences, FiniteSets, SequencesExt

\* The elements of a sequence that are in a set, in their order.
Kept(s, S) == FoldLeft(LAMBDA kept, x : IF x \in S THEN Append(kept, x) ELSE kept, <<>>, s)

\* A row may be recalled: created by the cutoff, of no later day, and with
\* no later timestamp in its payload (_contains_post_cutoff_availability).
Visible(row, cutoff) ==
  /\ row.created <= cutoff
  /\ row.as_of <= Day(cutoff)
  /\ \A t \in row.stamps : t <= cutoff

\* _entry: a decision with the outcomes observed by the cutoff.
Entry(row, outcomes, cutoff) ==
  [run |-> row.run,
   outcomes |-> Kept(outcomes, {o \in Range(outcomes) : o.run = row.run /\ o.observed <= cutoff})]

\* _visible_entries, over rows from the newest on.
\* Variant with a fault: the limit is applied to the rows before the filter.
VisibleEntries_as_limited_first(rows, outcomes, limit, cutoff) ==
  FoldLeft(LAMBDA entries, row :
             IF Visible(row, cutoff) THEN Append(entries, Entry(row, outcomes, cutoff)) ELSE entries,
           <<>>, SubSeq(rows, 1, limit))

VisibleEntries(rows, outcomes, limit, cutoff) ==
  FoldLeft(LAMBDA entries, row :
             IF Len(entries) < limit /\ Visible(row, cutoff)
             THEN Append(entries, Entry(row, outcomes, cutoff)) ELSE entries,
           <<>>, rows)

\* The two statements of recall: the published rows of the symbol, and those
\* of the other symbols, the newest first.
SameSymbol(decisions, symbol) ==
  Reverse(Kept(decisions, {row \in Range(decisions) : row.published /\ row.symbol = symbol}))
CrossSymbol(decisions, symbol) ==
  Reverse(Kept(decisions, {row \in Range(decisions) : row.published /\ row.symbol # symbol}))

\* append_decision: one row for each run, staged until it is published; a
\* repeated call keeps the row, and another decision of the run is refused.
Refused(decisions, row) ==
  \E i \in DOMAIN decisions :
    /\ decisions[i].run = row.run
    /\ [decisions[i] EXCEPT !.published = row.published, !.created = row.created] # row

StagedIn(decisions, row) ==
  IF \E i \in DOMAIN decisions : decisions[i].run = row.run THEN decisions
  ELSE Append(decisions, row)

PublishedIn(decisions, run) ==
  [i \in DOMAIN decisions |->
     IF decisions[i].run = run THEN [decisions[i] EXCEPT !.published = TRUE] ELSE decisions[i]]

=============================================================================
