---------------------------- MODULE MCWorkQueue -----------------------------
(* Small instances of WorkQueue: two clients, up to eight rows. *)
EXTENDS WorkQueue, TLC

CONSTANTS c1, c2, i1, i2, i3, i4, i5, i6, i7, i8, alice, none, bad, free

Row(i, o, s) == [id |-> i, owner |-> o, priority |-> 1, status |-> "pending", seq |-> s]

\* No rows; three writers that raced; the same, two later rows and a row of a bad owner;
\* a writer that was overtaken by all others.
MCLegacy ==
  {<<>>,
   <<Row(i1, alice, 1), Row(i2, none, 1), Row(i3, none, 1)>>,
   <<Row(i1, alice, 1), Row(i2, none, 1), Row(i3, none, 1), Row(i4, none, 2), Row(i5, bad, 3)>>,
   <<Row(i1, alice, 1), Row(i2, none, 1), Row(i3, none, 2), Row(i4, none, 3), Row(i5, bad, 1)>>}

Put(i, o, n) == [op |-> "enqueue", id |-> i, owner |-> o, priority |-> n]
MCCalls == {DequeueCall, Put(i1, none, 0), Put(i5, none, 1), Put(i5, bad, 1)}

\* Four writers that raced, then one by one; the seventh had read the maximum before the
\* fifth inserted.
MCOvertaken ==
  {<<Row(i1, none, 1), Row(i2, none, 1), Row(i3, none, 1), Row(i4, none, 1),
     Row(i5, none, 2), Row(i6, none, 3), Row(i7, none, 2), Row(i8, none, 4)>>}

MCRaced == {<<Row(i1, alice, 1), Row(i2, none, 1), Row(i3, none, 1)>>}
MCFewCalls == {DequeueCall, Put(i4, none, 1)}
=============================================================================
