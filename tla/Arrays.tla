------------------------------- MODULE Arrays -------------------------------
(***************************************************************************)
(* The array methods the parsers and extractors are written with.  Reduce   *)
(* is FoldLeft of SequencesExt as a recursive function on the indices: TLC  *)
(* then evaluates what is constant once, and a fold in as many steps as     *)
(* there are elements; and a proof goes by induction on the index.          *)
(***************************************************************************)
EXTENDS Naturals, Sequences, FiniteSets, SequencesExt

Reduce(Op(_, _), base, s) ==
  LET upTo[i \in 0 .. Len(s)] == IF i = 0 THEN base ELSE Op(upTo[i - 1], s[i])
  IN  upTo[Len(s)]
ReduceIndices(Op(_, _), base, s) ==
  LET upTo[i \in 0 .. Len(s)] == IF i = 0 THEN base ELSE Op(upTo[i - 1], i)
  IN  upTo[Len(s)]

Mapped(s, Op(_)) == [i \in DOMAIN s |-> Op(s[i])]

\* A stable sort: before holds the pairs of items of which the first goes before
\* the second.
Sorted(items, before) ==
  ReduceIndices(LAMBDA done, n :
      InsertAt(done, 1 + Cardinality({ k \in DOMAIN done : <<items[n], done[k]>> \notin before }), items[n]),
    <<>>, items)

\* The distinct elements of a sequence, in the order they first appear.
Distinct(s) == Mapped(SelectSeq([i \in DOMAIN s |-> i], LAMBDA i : \A j \in 1 .. i - 1 : s[j] # s[i]),
                      LAMBDA i : s[i])
=============================================================================
