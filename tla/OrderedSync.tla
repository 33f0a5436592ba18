----------------------------- MODULE OrderedSync -----------------------------
(***************************************************************************)
(* The ordered-sync extension for one topic.  Resolutions are confirmed in *)
(* any order; a data point names the point before it, and a point is       *)
(* handed to the topic's callback once all the points before it have been. *)
(*                                                                         *)
(* topic.pending is the table pending_data (rows are never deleted),       *)
(* topic.last the column last_processed_point.  Point 0 stands for NULL.   *)
(* topic.given is a history of the callbacks.                              *)
(***************************************************************************)
EXTENDS Integers, Sequences, FiniteSets, SequencesExt, Functions

EmptyTopic == [pending |-> {}, last |-> 0, given |-> <<>>]

\* storeDataPoint for each of the confirmed data points: a point below the one
\* before it is an error, a point equal to it is skipped, a second row with the
\* same point breaks the primary key, so that the first resolution with it wins.
\* An error undoes the nested transaction of the resolution and nothing else.
StoreDataPoints(topic, dps) ==
  LET valid == {dp \in dps : /\ dp.prev < dp.point
                            /\ \A p \in topic.pending : p.point # dp.point}
      first(point) == CHOOSE dp \in valid : dp.point = point
  IN [topic EXCEPT !.pending = @ \cup {first(dp.point) : dp \in valid}]

\* Mutant: every point above the last one, whatever point precedes it.
FinalizedAbove(topic) == {p \in topic.pending : p.point > topic.last}

\* A set of rows that has the rows that continue the last processed point, and
\* the rows that continue its own.
Continued(topic, rows) ==
  \A p \in topic.pending :
    p.prev = topic.last \/ (\E q \in rows : p.prev = q.point) => p \in rows

\* finalized.sql: the recursive query yields the least such set.
Finalized(topic) ==
  {p \in topic.pending :
     \A rows \in SUBSET topic.pending : Continued(topic, rows) => p \in rows}

\* ORDER BY point.
InOrder(points) ==
  CHOOSE s \in SetToSeqs(points) : \A i, j \in DOMAIN s : i < j => s[i] < s[j]

\* resolve: the end-block hook calls the topic back for each finalized row,
\* ordered by point, and then sets last_processed_point to the last of them.
Resolve(topic) ==
  LET points == InOrder({p.point : p \in Finalized(topic)})
  IN [topic EXCEPT !.given = @ \o points,
                   !.last = IF points = <<>> THEN @ ELSE points[Len(points)]]
=============================================================================
