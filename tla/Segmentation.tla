---------------------------- MODULE Segmentation ----------------------------
(***************************************************************************)
(* How a prompt that is too long for one model call is cut into segments.  *)
(* A window of at most MaxChars characters is closed at its last paragraph *)
(* or sentence mark, trimmed, and cut again with half the window when it   *)
(* still holds too many tokens.  The recursion of the code is a stack of   *)
(* frames; a character is its class, a text a sequence of them.            *)
(***************************************************************************)
EXTENDS Integers, Sequences, FiniteSets

CONSTANTS
  MaxChars,       \* the longest window
  MaxTokens,      \* the most tokens a segment should have
  FloorChars,     \* a window this short is not halved any more
  MinTail,        \* a mark this close to the start of a window does not close it
  CharsPerToken   \* of ASCII text

Classes == {"word", "wide", "space", "newline", "stop"}

ASSUME MaxCharsType == MaxChars \in Nat \ {0}
ASSUME FloorCharsType == FloorChars \in Nat \ {0}
ASSUME MinTailType == MinTail \in Nat
ASSUME MaxTokensType == MaxTokens \in Nat
ASSUME CharsPerTokenType == CharsPerToken \in Nat \ {0}

VARIABLES
  text,     \* the prompt
  frames,   \* what is left to cut: the ranges of the calls in progress, the innermost last
  cuts      \* the segments, as ranges <<from, to>>: from the first character to behind the last

segVars == <<text, frames, cuts>>

Larger(m, n) == IF m > n THEN m ELSE n
Smaller(m, n) == IF m < n THEN m ELSE n

Class(p) == text[p + 1]
IsBlank(p) == Class(p) \in {"space", "newline"}
Wides == {"wide", "stop"}
Marks == <<"newline", "stop">>   \* in the order in which they are looked for

TokensOf(wide, all) == Larger(1, wide + (all - wide) \div CharsPerToken)
EstimateTokens(lo, hi) ==
  TokensOf(Cardinality({p \in lo .. hi - 1 : Class(p) \in Wides}), hi - lo)

Frames == [start : Nat, to : Nat, window : Nat \ {0}]
WholeText == [start |-> 0, to |-> Len(text), window |-> MaxChars]
Top == frames[Len(frames)]
Below == SubSeq(frames, 1, Len(frames) - 1)

-----------------------------------------------------------------------------
\* A definition whose name starts with Bug is a slip the code could have had; it is not
\* part of the model.

\* A mark closes the window when it is in its second half.
Closes(p, mark, lo, hi) ==
  /\ p \in lo .. hi - 1
  /\ Class(p) = mark
  /\ p - lo > Larger(MinTail, (hi - lo) \div 2)

\* b is where the window lo .. hi of frame f ends: at the end of its text, behind the last
\* mark of the first kind that closes it, or at its full length.
IsBoundary(b, f, lo, hi) ==
  \/ hi = f.to /\ b = hi
  \/ /\ hi < f.to
     /\ \/ \E i \in DOMAIN Marks :
             /\ Closes(b - 1, Marks[i], lo, hi)
             /\ \A p \in b .. hi - 1 : ~Closes(p, Marks[i], lo, hi)
             /\ \A j \in 1 .. i - 1 : \A p \in lo .. hi - 1 : ~Closes(p, Marks[j], lo, hi)
        \/ b = hi /\ \A i \in DOMAIN Marks : \A p \in lo .. hi - 1 : ~Closes(p, Marks[i], lo, hi)

\* The range a .. c is what strip leaves of lo .. hi.
IsTrimmed(a, c, lo, hi) ==
  /\ lo <= a /\ a < c /\ c <= hi
  /\ ~IsBlank(a) /\ ~IsBlank(c - 1)
  /\ \A p \in lo .. a - 1 : IsBlank(p)
  /\ \A p \in c .. hi - 1 : IsBlank(p)

BugSplitReturn ==
  /\ frames # <<>>
  /\ Top.start > Top.to
  /\ frames' = Below
  /\ UNCHANGED <<text, cuts>>

\* The call that is done returns to the one that made it.
SplitReturn ==
  /\ frames # <<>>
  /\ Top.start >= Top.to
  /\ frames' = Below
  /\ UNCHANGED <<text, cuts>>

TooLong(a, c, window) == EstimateTokens(a, c) > MaxTokens /\ window > FloorChars
Halved(window) == Larger(FloorChars, window \div 2)

BugRest(b) == Append(Below, [Top EXCEPT !.start = Smaller(Top.to, Top.start + Top.window)])

\* The code goes on at max(boundary, start + 1); a boundary is behind the start anyway.
Rest(b) == Append(Below, [Top EXCEPT !.start = Larger(b, Top.start + 1)])

SkipBlank(b) ==
  /\ \A p \in Top.start .. b - 1 : IsBlank(p)
  /\ frames' = Rest(b)
  /\ UNCHANGED <<text, cuts>>

KeepSegment(a, c, b) ==
  /\ ~TooLong(a, c, Top.window)
  /\ cuts' = Append(cuts, <<a, c>>)
  /\ frames' = Rest(b)
  /\ UNCHANGED text

CutAgain(a, c, b) ==
  /\ TooLong(a, c, Top.window)
  /\ frames' = Append(Rest(b), [start |-> a, to |-> c, window |-> Halved(Top.window)])
  /\ UNCHANGED <<text, cuts>>

CutWindow ==
  /\ frames # <<>>
  /\ Top.start < Top.to
  /\ LET hi == Smaller(Top.to, Top.start + Top.window)
     IN  \E b \in Top.start + 1 .. hi :
           /\ IsBoundary(b, Top, Top.start, hi)
           /\ \/ SkipBlank(b)
              \/ \E a, c \in Top.start .. b :
                   /\ IsTrimmed(a, c, Top.start, b)
                   /\ KeepSegment(a, c, b) \/ CutAgain(a, c, b)

Split == SplitReturn \/ CutWindow

-----------------------------------------------------------------------------
SegTypeOK ==
  /\ text \in Seq(Classes)
  /\ frames \in Seq(Frames)
  /\ cuts \in Seq(Nat \X Nat)

\* The segments do not overlap and come in the order of the text; what is left to cut comes
\* behind them, the inner calls first.
Ordered ==
  /\ \A i \in DOMAIN cuts : cuts[i][1] < cuts[i][2] /\ cuts[i][2] <= Len(text)
  /\ \A i, j \in DOMAIN cuts : i < j => cuts[i][2] <= cuts[j][1]
  /\ \A i \in DOMAIN cuts, j \in DOMAIN frames : cuts[i][2] <= frames[j].start
  /\ \A j \in DOMAIN frames : frames[j].to <= Len(text)
  /\ \A i, j \in DOMAIN frames : i < j => frames[j].to <= frames[i].start

InCut(p) == \E i \in DOMAIN cuts : cuts[i][1] <= p /\ p < cuts[i][2]
ToCut(p) == \E j \in DOMAIN frames : frames[j].start <= p /\ p < frames[j].to

\* Every character that is not blank is in a segment or still to be cut.
Covered == \A p \in 0 .. Len(text) - 1 : IsBlank(p) \/ InCut(p) \/ ToCut(p)

\* A segment with too many tokens is no longer than the shortest window.
Fitting == \A i \in DOMAIN cuts :
  EstimateTokens(cuts[i][1], cuts[i][2]) > MaxTokens => cuts[i][2] - cuts[i][1] <= FloorChars
=============================================================================
