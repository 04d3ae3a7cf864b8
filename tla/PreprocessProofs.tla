-------------------------- MODULE PreprocessProofs --------------------------
(***************************************************************************)
(* Theorems about what happens to a prompt and to a conversation before    *)
(* the host sees them, for any of them and any limits.  Planner: its       *)
(* types, that the segments of a prompt tile it, and that the words of the *)
(* user are in the plan or in the bundle, whatever mode was chosen.        *)
(* ContextCompress: its types, that the running count is true, and that    *)
(* what is pinned is kept.                                                 *)
(***************************************************************************)
EXTENDS Planner, ContextCompress,
        FiniteSetTheorems, SequenceTheorems, WellFoundedInduction, TLAPS

-----------------------------------------------------------------------------
(* Planning. *)

Tiling == Ordered /\ Covered /\ Fitting

\* Only a plan with a queue is cut, and it is cut before anything else happens to it.
IsCut == pc \in {"split", "admit", "persist", "failed", "out", "loop"} /\ QueueRequired(request)
Stripped == pc \in {"idle", "refused"} \/ (text # <<>> /\ ~IsBlank(0))
PlanInv ==
  /\ SegTypeOK
  /\ pc \in {"idle", "plan", "split", "admit", "persist"} \cup PlanEnded
  /\ resource \in Decisions
  /\ bundle \in {"none", "stored", "refused"}
  /\ Stripped
  /\ IF IsCut THEN Tiling ELSE frames = <<>> /\ cuts = <<>>
  /\ pc # "split" => frames = <<>>
  /\ pc = "split" => QueueRequired(request)
  /\ pc \in {"out", "loop"} /\ QueueRequired(request) => bundle = "stored"
  /\ bundle = "stored" => pc \in {"out", "loop"} /\ QueueRequired(request)

-----------------------------------------------------------------------------
(* What the expressions of the planner depend on. *)

\* Tokens and blanks are those of the text.
LEMMA SameText ==
  ASSUME text' = text
  PROVE  /\ \A a, c : EstimateTokens(a, c)' = EstimateTokens(a, c)
         /\ \A p : IsBlank(p)' = IsBlank(p)
         /\ Tokens' = Tokens
         /\ SplitRequired' = SplitRequired
  BY DEF EstimateTokens, IsBlank, Class, Tokens, SplitRequired

\* Whether a plan has a queue is decided by the request and its stripped text.
LEMMA SameMode ==
  ASSUME text' = text, request' = request
  PROVE  QueueRequired(request)' = QueueRequired(request)
<1>1. Tokens' = Tokens /\ SplitRequired' = SplitRequired
  BY SameText
<1>2. Questions(request)' = Questions(request)
  BY DEF Questions, Asks, NeedsDirection, Category, Confidence, NoTarget, Conflicting, LocalRequested
<1>3. Policy(request)' = Policy(request)
  BY <1>1 DEF Policy, VerificationFastPath, Category, LocalRequested, ExplicitLocalRoute
<1>4. QED
  BY <1>2, <1>3 DEF QueueRequired, Mode, Clarifying

\* A plan with a queue asks nothing, and its prompt has to be split; no other prompt has.
LEMMA QueueIsSplit ==
  ASSUME ~Clarifying(request)
  PROVE  /\ QueueRequired(request) <=> SplitRequired
         /\ Mode(request) \in {"queued", "standard", "verification_answer", "simple_answer"}
<1>1. Mode(request) = Policy(request)
  BY DEF Mode
<1>2. CASE SplitRequired
  BY <1>1, <1>2 DEF QueueRequired, Policy
<1>3. CASE ~SplitRequired
  <2>1. Policy(request) \in {"standard", "verification_answer", "simple_answer"}
    BY <1>3 DEF Policy
  <2>2. QED
    BY <1>1, <1>3, <2>1 DEF QueueRequired
<1>4. QED
  BY <1>2, <1>3

-----------------------------------------------------------------------------
(* The stack of frames. *)

\* The innermost call is one of the frames.
LEMMA TopFrame ==
  ASSUME SegTypeOK, frames # <<>>
  PROVE  /\ Len(frames) \in Nat \ {0} /\ Len(frames) \in DOMAIN frames
         /\ DOMAIN frames = 1 .. Len(frames)
         /\ Top \in Frames
         /\ Top.start \in Nat /\ Top.to \in Nat /\ Top.window \in Nat \ {0}
         /\ \A j \in DOMAIN frames : frames[j] \in Frames /\ frames[j].start \in Nat /\ frames[j].to \in Nat
<1>1. Len(frames) \in Nat \ {0} /\ DOMAIN frames = 1 .. Len(frames)
  BY EmptySeq, LenProperties DEF SegTypeOK
<1>2. \A j \in DOMAIN frames : frames[j] \in Frames
  BY <1>1, ElementOfSeq DEF SegTypeOK
<1>3. QED
  BY <1>1, <1>2 DEF Top, Frames

\* Without the innermost call the others are as they were.
LEMMA BelowFrames ==
  ASSUME SegTypeOK, frames # <<>>
  PROVE  /\ Below \in Seq(Frames)
         /\ Len(Below) = Len(frames) - 1
         /\ \A j \in 1 .. Len(frames) - 1 : Below[j] = frames[j]
<1>1. \A j \in 1 .. Len(frames) - 1 : frames[j] \in Frames
  BY TopFrame
<1>2. /\ SubSeq(frames, 1, Len(frames) - 1) \in Seq(Frames)
      /\ Len(SubSeq(frames, 1, Len(frames) - 1))
           = IF 1 <= Len(frames) - 1 THEN Len(frames) - 1 - 1 + 1 ELSE 0
      /\ \A j \in 1 .. Len(frames) - 1 - 1 + 1 :
           SubSeq(frames, 1, Len(frames) - 1)[j] = frames[1 + j - 1]
  <2>1. 1 \in Int /\ Len(frames) - 1 \in Int
    BY TopFrame
  <2>2. QED
    BY <1>1, <2>1, SubSeqProperties
<1>3. QED
  BY <1>2, TopFrame DEF Below

\* The innermost call goes on at b.
LEMMA RestFrames ==
  ASSUME SegTypeOK, frames # <<>>, NEW b \in Nat, Top.start < b
  PROVE  /\ Rest(b) \in Seq(Frames)
         /\ Len(Rest(b)) = Len(frames)
         /\ \A j \in 1 .. Len(frames) - 1 : Rest(b)[j] = frames[j]
         /\ Rest(b)[Len(frames)].start = b
         /\ Rest(b)[Len(frames)].to = Top.to
<1>. DEFINE top == [Top EXCEPT !.start = Larger(b, Top.start + 1)]
<1>1. Larger(b, Top.start + 1) = b
  BY TopFrame DEF Larger
<1>2. top \in Frames /\ top.start = b /\ top.to = Top.to
  BY <1>1, TopFrame DEF Frames
<1>. HIDE DEF top
<1>3. /\ Append(Below, top) \in Seq(Frames)
      /\ Len(Append(Below, top)) = Len(Below) + 1
      /\ \A j \in 1 .. Len(Below) : Append(Below, top)[j] = Below[j]
      /\ Append(Below, top)[Len(Below) + 1] = top
  BY <1>2, BelowFrames, AppendProperties
<1>4. Rest(b) = Append(Below, top)
  BY DEF Rest, top
<1>5. QED
  BY <1>2, <1>3, <1>4, BelowFrames, TopFrame

-----------------------------------------------------------------------------
(* Cutting keeps the tiling. *)

\* A call that is done has nothing left to cut.
LEMMA SplitReturnKeeps ==
  ASSUME SegTypeOK, Tiling, SplitReturn
  PROVE  SegTypeOK' /\ Tiling'
<1>1. /\ frames # <<>> /\ Top.start >= Top.to
      /\ frames' = Below /\ text' = text /\ cuts' = cuts
  BY DEF SplitReturn
<1>2. /\ Below \in Seq(Frames) /\ DOMAIN Below = 1 .. Len(frames) - 1
      /\ \A j \in DOMAIN Below : Below[j] = frames[j] /\ j \in DOMAIN frames
  BY <1>1, BelowFrames, TopFrame, LenProperties
<1>3. SegTypeOK'
  BY <1>1, <1>2 DEF SegTypeOK
<1>4. Ordered'
  BY <1>1, <1>2 DEF Tiling, Ordered
<1>5. Covered'
  <2>1. ASSUME NEW p \in 0 .. Len(text) - 1, ToCut(p) PROVE \E j \in DOMAIN Below : Below[j].start <= p /\ p < Below[j].to
    <3>1. PICK j \in DOMAIN frames : frames[j].start <= p /\ p < frames[j].to
      BY <2>1 DEF ToCut
    <3>2. j # Len(frames)
      BY <1>1, <3>1, TopFrame DEF Top
    <3>3. j \in DOMAIN Below
      BY <1>1, <1>2, <3>2, TopFrame
    <3>4. QED
      BY <1>2, <3>1, <3>3
  <2>2. \A p : IsBlank(p)' = IsBlank(p)
    BY <1>1, SameText
  <2>3. \A p : InCut(p)' = InCut(p)
    BY <1>1 DEF InCut
  <2>4. \A p \in 0 .. Len(text) - 1 : ToCut(p) => ToCut(p)'
    BY <1>1, <2>1 DEF ToCut
  <2>5. QED
    BY <1>1, <2>2, <2>3, <2>4 DEF Tiling, Covered
<1>6. Fitting'
  <2>1. \A a, c : EstimateTokens(a, c)' = EstimateTokens(a, c)
    BY <1>1, SameText
  <2>2. QED
    BY <1>1, <2>1 DEF Tiling, Fitting
<1>7. QED
  BY <1>3, <1>4, <1>5, <1>6 DEF Tiling

\* What the window of the innermost call gives is in that call's range, and no longer than the
\* window.
LEMMA WindowBounds ==
  ASSUME SegTypeOK, Tiling, frames # <<>>, Top.start < Top.to,
         NEW hi, hi = Smaller(Top.to, Top.start + Top.window),
         NEW b \in Top.start + 1 .. hi
  PROVE  /\ b \in Nat /\ Top.start < b /\ b <= Top.to /\ b - Top.start <= Top.window
         /\ Top.to <= Len(text)
         /\ Len(text) \in Nat
<1>1. Top.to <= Len(text)
  BY TopFrame DEF Tiling, Ordered, Top
<1>2. Len(text) \in Nat
  BY LenProperties DEF SegTypeOK
<1>3. QED
  BY <1>1, <1>2, TopFrame DEF Smaller

\* The range that is left for later is that behind b.
LEMMA RestKeeps ==
  ASSUME SegTypeOK, Tiling, frames # <<>>,
         NEW b \in Nat, Top.start < b, b <= Top.to
  PROVE  /\ DOMAIN Rest(b) = DOMAIN frames
         /\ \A j \in DOMAIN frames :
              /\ Rest(b)[j] \in Frames /\ Rest(b)[j].start \in Nat /\ Rest(b)[j].to \in Nat
              /\ Rest(b)[j].to = frames[j].to
              /\ frames[j].start <= Rest(b)[j].start
              /\ b <= Rest(b)[j].start
         /\ \A j \in DOMAIN frames : frames[j].start < Rest(b)[j].start => j = Len(frames)
<1>. DEFINE n == Len(frames)
<1>1. n \in Nat \ {0} /\ DOMAIN frames = 1 .. n /\ n \in DOMAIN frames /\ Top = frames[n]
  BY TopFrame DEF Top
<1>2. /\ Rest(b) \in Seq(Frames) /\ Len(Rest(b)) = n
      /\ \A j \in 1 .. n - 1 : Rest(b)[j] = frames[j]
      /\ Rest(b)[n].start = b /\ Rest(b)[n].to = Top.to
  BY RestFrames
<1>3. DOMAIN Rest(b) = 1 .. n
  BY <1>2, LenProperties
<1>4. \A j \in 1 .. n - 1 : Top.to <= frames[j].start
  <2>1. SUFFICES ASSUME NEW j \in 1 .. n - 1 PROVE Top.to <= frames[j].start
    OBVIOUS
  <2>2. j \in DOMAIN frames /\ j < n
    BY <1>1
  <2>3. QED
    BY <1>1, <2>2 DEF Tiling, Ordered
<1>5. \A j \in DOMAIN Rest(b) : Rest(b)[j] \in Frames
  BY <1>2, <1>3, ElementOfSeq
<1>6. \A j \in DOMAIN frames : frames[j].start \in Nat /\ frames[j].to \in Nat
  BY TopFrame
<1>. HIDE DEF n
<1>7. ASSUME NEW j \in DOMAIN frames
      PROVE  /\ Rest(b)[j] \in Frames /\ Rest(b)[j].start \in Nat /\ Rest(b)[j].to \in Nat
             /\ Rest(b)[j].to = frames[j].to
             /\ frames[j].start <= Rest(b)[j].start
             /\ b <= Rest(b)[j].start
             /\ frames[j].start < Rest(b)[j].start => j = n
  <2>1. Rest(b)[j] \in Frames /\ Rest(b)[j].start \in Nat /\ Rest(b)[j].to \in Nat
    BY <1>1, <1>3, <1>5 DEF Frames
  <2>2. CASE j = n
    <3>1. Rest(b)[j].start = b /\ Rest(b)[j].to = frames[j].to /\ frames[j].start < b
      BY <1>1, <1>2, <2>2
    <3>2. frames[j].start <= b /\ b <= b
      BY <1>6, <3>1
    <3>3. QED
      BY <2>1, <2>2, <3>1, <3>2
  <2>3. CASE j # n
    <3>1. j \in 1 .. n - 1
      BY <1>1, <2>3
    <3>2. Rest(b)[j] = frames[j] /\ Top.to <= frames[j].start
      BY <1>2, <1>4, <3>1
    <3>3. QED
      BY <1>1, <1>6, <2>1, <3>2
  <2>4. QED
    BY <2>2, <2>3
<1>8. QED
  BY <1>1, <1>3, <1>7 DEF n

\* What was still to be cut is in the window now, or still to be cut.
LEMMA RestCovers ==
  ASSUME SegTypeOK, Tiling, frames # <<>>,
         NEW b \in Nat, Top.start < b, b <= Top.to,
         NEW p \in Nat, ToCut(p)
  PROVE  p \in Top.start .. b - 1 \/ \E j \in DOMAIN frames : Rest(b)[j].start <= p /\ p < Rest(b)[j].to
<1>1. PICK j \in DOMAIN frames : frames[j].start <= p /\ p < frames[j].to
  BY DEF ToCut
<1>2. /\ Rest(b)[j].to = frames[j].to
      /\ Rest(b)[j].start \in Nat /\ frames[j].start \in Nat
      /\ frames[j].start <= Rest(b)[j].start
      /\ frames[j].start < Rest(b)[j].start => j = Len(frames)
  BY RestKeeps, TopFrame
<1>3. CASE frames[j].start = Rest(b)[j].start
  BY <1>1, <1>2, <1>3
<1>4. CASE frames[j].start < Rest(b)[j].start
  <2>1. j = Len(frames) /\ Rest(b)[j].start = b /\ frames[j] = Top
    BY <1>2, <1>4, RestFrames DEF Top
  <2>2. p < b \/ b <= p
    OBVIOUS
  <2>3. Top.start \in Nat
    BY TopFrame
  <2>4. QED
    BY <1>1, <1>2, <2>1, <2>2, <2>3
<1>5. QED
  BY <1>2, <1>3, <1>4

\* The segments so far come before the window.
LEMMA CutsBefore ==
  ASSUME SegTypeOK, Tiling, frames # <<>>
  PROVE  /\ Len(cuts) \in Nat /\ DOMAIN cuts = 1 .. Len(cuts)
         /\ \A i \in DOMAIN cuts :
              /\ cuts[i] \in Nat \X Nat /\ cuts[i][1] \in Nat /\ cuts[i][2] \in Nat
              /\ cuts[i][2] <= Top.start
<1>1. Len(cuts) \in Nat /\ DOMAIN cuts = 1 .. Len(cuts)
  BY LenProperties DEF SegTypeOK
<1>2. \A i \in DOMAIN cuts : cuts[i] \in Nat \X Nat
  BY <1>1, ElementOfSeq DEF SegTypeOK
<1>3. \A i \in DOMAIN cuts : cuts[i][2] <= Top.start
  BY TopFrame DEF Tiling, Ordered, Top
<1>4. QED
  BY <1>1, <1>2, <1>3

\* What is left for later comes behind the segments, the inner calls first.
LEMMA RestOrdered ==
  ASSUME SegTypeOK, Tiling, frames # <<>>,
         NEW b \in Nat, Top.start < b, b <= Top.to
  PROVE  /\ \A i \in DOMAIN cuts, j \in DOMAIN Rest(b) : cuts[i][2] <= Rest(b)[j].start
         /\ \A j \in DOMAIN Rest(b) : Rest(b)[j].to <= Len(text)
         /\ \A i, j \in DOMAIN Rest(b) : i < j => Rest(b)[j].to <= Rest(b)[i].start
<1>1. \A i \in DOMAIN cuts, j \in DOMAIN Rest(b) : cuts[i][2] <= Rest(b)[j].start
  <2>1. SUFFICES ASSUME NEW i \in DOMAIN cuts, NEW j \in DOMAIN frames
                 PROVE  cuts[i][2] <= Rest(b)[j].start
    BY RestKeeps
  <2>2. cuts[i][2] \in Nat /\ cuts[i][2] <= frames[j].start
    BY CutsBefore DEF Tiling, Ordered
  <2>3. frames[j].start <= Rest(b)[j].start /\ frames[j].start \in Nat /\ Rest(b)[j].start \in Nat
    BY RestKeeps, TopFrame
  <2>4. QED
    BY <2>2, <2>3
<1>2. \A j \in DOMAIN Rest(b) : Rest(b)[j].to <= Len(text)
    BY RestKeeps DEF Tiling, Ordered
<1>3. \A i, j \in DOMAIN Rest(b) : i < j => Rest(b)[j].to <= Rest(b)[i].start
  <2>1. SUFFICES ASSUME NEW i \in DOMAIN frames, NEW j \in DOMAIN frames, i < j
                 PROVE  Rest(b)[j].to <= Rest(b)[i].start
    BY RestKeeps
  <2>2. frames[j].to <= frames[i].start
    BY <2>1 DEF Tiling, Ordered
  <2>3. /\ Rest(b)[j].to = frames[j].to /\ frames[i].start <= Rest(b)[i].start
          /\ frames[j].to \in Nat /\ frames[i].start \in Nat /\ Rest(b)[i].start \in Nat
    BY RestKeeps, TopFrame
  <2>4. QED
    BY <2>2, <2>3
<1>4. QED
  BY <1>1, <1>2, <1>3

\* A window that holds blanks only is passed over.
LEMMA SkipBlankKeeps ==
  ASSUME SegTypeOK, Tiling, frames # <<>>,
         NEW b \in Nat, Top.start < b, b <= Top.to, SkipBlank(b)
  PROVE  SegTypeOK' /\ Tiling'
<1>1. /\ frames' = Rest(b) /\ text' = text /\ cuts' = cuts
      /\ \A p \in Top.start .. b - 1 : IsBlank(p)
  BY DEF SkipBlank
<1>2. SegTypeOK'
  BY <1>1, RestFrames DEF SegTypeOK
<1>3. Ordered'
  <2>1. \A i \in DOMAIN cuts : cuts[i][1] < cuts[i][2] /\ cuts[i][2] <= Len(text)
    BY DEF Tiling, Ordered
  <2>2. \A i, j \in DOMAIN cuts : i < j => cuts[i][2] <= cuts[j][1]
    BY DEF Tiling, Ordered
  <2>3. QED
    BY <1>1, <2>1, <2>2, RestOrdered DEF Ordered
<1>4. Covered'
  <2>1. SUFFICES ASSUME NEW p \in 0 .. Len(text) - 1 PROVE IsBlank(p) \/ InCut(p) \/ ToCut(p)'
    BY <1>1, SameText DEF Covered, InCut
  <2>2. p \in Nat
    OBVIOUS
  <2>3. IsBlank(p) \/ InCut(p) \/ ToCut(p)
    BY DEF Tiling, Covered
  <2>4. ToCut(p) => IsBlank(p) \/ ToCut(p)'
    BY <1>1, <2>2, RestCovers, RestKeeps DEF ToCut
  <2>5. QED
    BY <2>3, <2>4
<1>5. Fitting'
  BY <1>1, SameText DEF Tiling, Fitting
<1>6. QED
  BY <1>2, <1>3, <1>4, <1>5 DEF Tiling

\* What is trimmed off is blank.
LEMMA Trimmed ==
  ASSUME SegTypeOK, Tiling, frames # <<>>,
         NEW b \in Nat, Top.start < b, b <= Top.to,
         NEW a \in Top.start .. b, NEW c \in Top.start .. b, IsTrimmed(a, c, Top.start, b)
  PROVE  /\ a \in Nat /\ c \in Nat /\ Top.start <= a /\ a < c /\ c <= b
         /\ \A p \in Top.start .. b - 1 : IsBlank(p) \/ (a <= p /\ p < c)
<1>1. Top.start \in Nat
  BY TopFrame
<1>2. Top.start <= a /\ a < c /\ c <= b /\ a \in Nat /\ c \in Nat
  BY <1>1 DEF IsTrimmed
<1>3. ASSUME NEW p \in Top.start .. b - 1 PROVE IsBlank(p) \/ (a <= p /\ p < c)
  <2>1. p \in Top.start .. a - 1 \/ p \in c .. b - 1 \/ (a <= p /\ p < c)
    BY <1>1, <1>2
  <2>2. QED
    BY <2>1 DEF IsTrimmed
<1>4. QED
  BY <1>2, <1>3

\* The trimmed window becomes a segment.
LEMMA KeepSegmentKeeps ==
  ASSUME SegTypeOK, Tiling, frames # <<>>, Len(text) \in Nat, Top.to <= Len(text),
         NEW b \in Nat, Top.start < b, b <= Top.to, b - Top.start <= Top.window,
         NEW a \in Top.start .. b, NEW c \in Top.start .. b, IsTrimmed(a, c, Top.start, b),
         KeepSegment(a, c, b)
  PROVE  SegTypeOK' /\ Tiling'
<1>. DEFINE m == Len(cuts)
            new == Append(cuts, <<a, c>>)
<1>1. /\ frames' = Rest(b) /\ text' = text /\ cuts' = new /\ ~TooLong(a, c, Top.window)
  BY DEF KeepSegment
<1>2. /\ Top.start \in Nat /\ Top.to \in Nat /\ Top.window \in Nat
      /\ a \in Nat /\ c \in Nat /\ Top.start <= a /\ a < c /\ c <= b
  BY TopFrame, Trimmed
<1>3. /\ m \in Nat /\ DOMAIN cuts = 1 .. m
      /\ new \in Seq(Nat \X Nat) /\ DOMAIN new = 1 .. m + 1
      /\ \A i \in 1 .. m : new[i] = cuts[i]
      /\ new[m + 1] = <<a, c>>
  <2>1. /\ new \in Seq(Nat \X Nat) /\ Len(new) = m + 1
        /\ \A i \in 1 .. m : new[i] = cuts[i]
        /\ new[m + 1] = <<a, c>>
    BY <1>2, AppendProperties DEF SegTypeOK
  <2>2. QED
    BY <2>1, CutsBefore, LenProperties
<1>4. \A i \in 1 .. m : new[i] = cuts[i] /\ cuts[i][1] \in Nat /\ cuts[i][2] \in Nat /\ cuts[i][2] <= Top.start
  BY <1>3, CutsBefore
<1>5. new[m + 1][1] = a /\ new[m + 1][2] = c
  BY <1>3
<1>. HIDE DEF m, new
<1>6. SegTypeOK'
  BY <1>1, <1>3, RestFrames DEF SegTypeOK
<1>7. Ordered'
  <2>1. ASSUME NEW i \in 1 .. m + 1 PROVE new[i][1] < new[i][2] /\ new[i][2] <= Len(text)
    <3>1. CASE i = m + 1
      BY <1>2, <1>5, <3>1
    <3>2. CASE i # m + 1
      <4>1. i \in 1 .. m
        BY <1>3, <3>2
      <4>2. QED
        BY <1>3, <1>4, <4>1 DEF Tiling, Ordered
    <3>3. QED
      BY <3>1, <3>2
  <2>2. ASSUME NEW i \in 1 .. m + 1, NEW j \in 1 .. m + 1, i < j PROVE new[i][2] <= new[j][1]
    <3>1. i \in 1 .. m
      BY <1>3, <2>2
    <3>2. CASE j = m + 1
      BY <1>2, <1>4, <1>5, <3>1, <3>2
    <3>3. CASE j # m + 1
      <4>1. j \in 1 .. m
        BY <1>3, <3>3
      <4>2. QED
        BY <1>3, <1>4, <2>2, <3>1, <4>1 DEF Tiling, Ordered
    <3>4. QED
      BY <3>2, <3>3
  <2>3. ASSUME NEW i \in 1 .. m + 1, NEW j \in DOMAIN Rest(b) PROVE new[i][2] <= Rest(b)[j].start
    <3>1. CASE i = m + 1
      <4>1. b <= Rest(b)[j].start /\ Rest(b)[j].start \in Nat
        BY RestKeeps
      <4>2. QED
        BY <1>2, <1>5, <3>1, <4>1
    <3>2. CASE i # m + 1
      <4>1. i \in 1 .. m
        BY <1>3, <3>2
      <4>2. QED
        BY <1>3, <4>1, RestOrdered
    <3>3. QED
      BY <3>1, <3>2
  <2>4. QED
    BY <1>1, <1>3, <2>1, <2>2, <2>3, RestOrdered DEF Ordered
<1>8. Covered'
  <2>1. SUFFICES ASSUME NEW p \in 0 .. Len(text) - 1 PROVE IsBlank(p) \/ InCut(p)' \/ ToCut(p)'
    BY <1>1, SameText DEF Covered
  <2>2. p \in Nat
    OBVIOUS
  <2>3. InCut(p) => InCut(p)'
    <3>1. SUFFICES ASSUME NEW i \in 1 .. m, cuts[i][1] <= p, p < cuts[i][2] PROVE InCut(p)'
      BY <1>3 DEF InCut
    <3>2. i \in 1 .. m + 1 /\ new[i] = cuts[i]
      BY <1>3
    <3>3. QED
      BY <1>1, <1>3, <3>1, <3>2 DEF InCut
  <2>4. a <= p /\ p < c => InCut(p)'
    <3>1. m + 1 \in 1 .. m + 1
      BY <1>3
    <3>2. QED
      BY <1>1, <1>3, <1>5, <3>1 DEF InCut
  <2>5. p \in Top.start .. b - 1 => IsBlank(p) \/ InCut(p)'
    BY <2>4, Trimmed
  <2>6. ToCut(p) => IsBlank(p) \/ InCut(p)' \/ ToCut(p)'
    BY <1>1, <2>2, <2>5, RestCovers, RestKeeps DEF ToCut
  <2>7. QED
    BY <2>3, <2>6 DEF Tiling, Covered
<1>9. Fitting'
  <2>1. SUFFICES ASSUME NEW i \in 1 .. m + 1, EstimateTokens(new[i][1], new[i][2]) > MaxTokens
                 PROVE  new[i][2] - new[i][1] <= FloorChars
    BY <1>1, <1>3 DEF Fitting, EstimateTokens, Class
  <2>2. CASE i = m + 1
    <3>1. Top.window <= FloorChars
      BY <1>1, <1>2, <1>5, <2>1, <2>2, FloorCharsType DEF TooLong
    <3>2. QED
      BY <1>2, <1>5, <2>2, <3>1, FloorCharsType
  <2>3. CASE i # m + 1
    <3>1. i \in 1 .. m
      BY <1>3, <2>3
    <3>2. QED
      BY <1>3, <2>1, <3>1 DEF Tiling, Fitting
  <2>4. QED
    BY <2>2, <2>3
<1>10. QED
  BY <1>6, <1>7, <1>8, <1>9 DEF Tiling

\* The trimmed window is cut again, with half the window.
LEMMA CutAgainKeeps ==
  ASSUME SegTypeOK, Tiling, frames # <<>>, Len(text) \in Nat, Top.to <= Len(text),
         NEW b \in Nat, Top.start < b, b <= Top.to,
         NEW a \in Top.start .. b, NEW c \in Top.start .. b, IsTrimmed(a, c, Top.start, b),
         CutAgain(a, c, b)
  PROVE  SegTypeOK' /\ Tiling'
<1>. DEFINE n == Len(frames)
            inner == [start |-> a, to |-> c, window |-> Halved(Top.window)]
            new == Append(Rest(b), inner)
<1>1. /\ frames' = new /\ text' = text /\ cuts' = cuts
  BY DEF CutAgain
<1>2. /\ Top.start \in Nat /\ Top.to \in Nat /\ Top.window \in Nat
      /\ a \in Nat /\ c \in Nat /\ Top.start <= a /\ a < c /\ c <= b
  BY TopFrame, Trimmed
<1>3. inner \in Frames /\ inner.start = a /\ inner.to = c
  <2>1. Halved(Top.window) \in Nat \ {0}
    BY <1>2, FloorCharsType DEF Halved, Larger
  <2>2. QED
    BY <1>2, <2>1 DEF Frames
<1>4. n \in Nat /\ DOMAIN frames = 1 .. n /\ DOMAIN Rest(b) = 1 .. n /\ Len(Rest(b)) = n /\ Rest(b) \in Seq(Frames)
  BY TopFrame, RestKeeps, RestFrames
<1>. HIDE DEF inner, n
<1>5. /\ new \in Seq(Frames) /\ Len(new) = n + 1 /\ DOMAIN new = 1 .. n + 1
      /\ \A j \in 1 .. n : new[j] = Rest(b)[j]
      /\ new[n + 1] = inner
  BY <1>3, <1>4, AppendProperties, LenProperties
<1>. HIDE DEF new
<1>6. SegTypeOK'
  BY <1>1, <1>5 DEF SegTypeOK
<1>7. Ordered'
  <2>1. ASSUME NEW i \in DOMAIN cuts, NEW j \in 1 .. n + 1 PROVE cuts[i][2] <= new[j].start
    <3>1. CASE j = n + 1
      BY <1>2, <1>3, <1>5, <3>1, CutsBefore
    <3>2. CASE j # n + 1
      <4>1. j \in 1 .. n
        BY <1>4, <3>2
      <4>2. QED
        BY <1>4, <1>5, <4>1, RestOrdered
    <3>3. QED
      BY <3>1, <3>2
  <2>2. ASSUME NEW j \in 1 .. n + 1 PROVE new[j].to <= Len(text)
    <3>1. CASE j = n + 1
      BY <1>2, <1>3, <1>5, <3>1
    <3>2. CASE j # n + 1
      <4>1. j \in 1 .. n
        BY <1>4, <3>2
      <4>2. QED
        BY <1>4, <1>5, <4>1, RestOrdered
    <3>3. QED
      BY <3>1, <3>2
  <2>3. ASSUME NEW i \in 1 .. n + 1, NEW j \in 1 .. n + 1, i < j PROVE new[j].to <= new[i].start
    <3>1. i \in 1 .. n
      BY <1>4, <2>3
    <3>2. CASE j = n + 1
      <4>1. b <= Rest(b)[i].start /\ Rest(b)[i].start \in Nat
        BY <1>4, <3>1, RestKeeps
      <4>2. QED
        BY <1>2, <1>3, <1>5, <3>1, <3>2, <4>1
    <3>3. CASE j # n + 1
      <4>1. j \in 1 .. n
        BY <1>4, <3>3
      <4>2. QED
        BY <1>4, <1>5, <2>3, <3>1, <4>1, RestOrdered
    <3>4. QED
      BY <3>2, <3>3
  <2>4. \A i \in DOMAIN cuts : cuts[i][1] < cuts[i][2] /\ cuts[i][2] <= Len(text)
    BY DEF Tiling, Ordered
  <2>5. \A i, j \in DOMAIN cuts : i < j => cuts[i][2] <= cuts[j][1]
    BY DEF Tiling, Ordered
  <2>6. QED
    BY <1>1, <1>5, <2>1, <2>2, <2>3, <2>4, <2>5 DEF Ordered
<1>8. Covered'
  <2>1. SUFFICES ASSUME NEW p \in 0 .. Len(text) - 1 PROVE IsBlank(p) \/ InCut(p) \/ ToCut(p)'
    BY <1>1, SameText DEF Covered, InCut
  <2>2. p \in Nat
    OBVIOUS
  <2>3. a <= p /\ p < c => ToCut(p)'
    <3>1. n + 1 \in 1 .. n + 1
      BY <1>4
    <3>2. QED
      BY <1>1, <1>3, <1>5, <3>1 DEF ToCut
  <2>4. p \in Top.start .. b - 1 => IsBlank(p) \/ ToCut(p)'
    BY <2>3, Trimmed
  <2>5. (\E j \in DOMAIN frames : Rest(b)[j].start <= p /\ p < Rest(b)[j].to) => ToCut(p)'
    <3>1. SUFFICES ASSUME NEW j \in 1 .. n, Rest(b)[j].start <= p, p < Rest(b)[j].to PROVE ToCut(p)'
      BY <1>4
    <3>2. j \in 1 .. n + 1 /\ new[j] = Rest(b)[j]
      BY <1>4, <1>5
    <3>3. QED
      BY <1>1, <1>5, <3>1, <3>2 DEF ToCut
  <2>6. ToCut(p) => IsBlank(p) \/ ToCut(p)'
    BY <2>2, <2>4, <2>5, RestCovers
  <2>7. QED
    BY <2>6 DEF Tiling, Covered
<1>9. Fitting'
  BY <1>1, SameText DEF Tiling, Fitting
<1>10. QED
  BY <1>6, <1>7, <1>8, <1>9 DEF Tiling

\* Cutting keeps the tiling.
LEMMA SplitKeeps ==
  ASSUME SegTypeOK, Tiling, Split
  PROVE  SegTypeOK' /\ Tiling' /\ text' = text
<1>1. CASE SplitReturn
  BY <1>1, SplitReturnKeeps DEF SplitReturn
<1>2. CASE CutWindow
  <2>. DEFINE hi == Smaller(Top.to, Top.start + Top.window)
  <2>1. /\ frames # <<>> /\ Top.start < Top.to
        /\ \E b \in Top.start + 1 .. hi :
             \/ SkipBlank(b)
             \/ \E a, c \in Top.start .. b :
                  IsTrimmed(a, c, Top.start, b) /\ (KeepSegment(a, c, b) \/ CutAgain(a, c, b))
    BY <1>2 DEF CutWindow
  <2>2. PICK b \in Top.start + 1 .. hi :
             \/ SkipBlank(b)
             \/ \E a, c \in Top.start .. b :
                  IsTrimmed(a, c, Top.start, b) /\ (KeepSegment(a, c, b) \/ CutAgain(a, c, b))
    BY <2>1
  <2>3. /\ b \in Nat /\ Top.start < b /\ b <= Top.to /\ b - Top.start <= Top.window
        /\ Top.to <= Len(text) /\ Len(text) \in Nat
    BY <2>1, WindowBounds
  <2>4. CASE SkipBlank(b)
    BY <2>1, <2>3, <2>4, SkipBlankKeeps DEF SkipBlank
  <2>5. ASSUME NEW a \in Top.start .. b, NEW c \in Top.start .. b,
               IsTrimmed(a, c, Top.start, b), KeepSegment(a, c, b)
        PROVE  SegTypeOK' /\ Tiling' /\ text' = text
    BY <2>1, <2>3, <2>5, KeepSegmentKeeps DEF KeepSegment
  <2>6. ASSUME NEW a \in Top.start .. b, NEW c \in Top.start .. b,
               IsTrimmed(a, c, Top.start, b), CutAgain(a, c, b)
        PROVE  SegTypeOK' /\ Tiling' /\ text' = text
    BY <2>1, <2>3, <2>6, CutAgainKeeps DEF CutAgain
  <2>7. QED
    BY <2>2, <2>4, <2>5, <2>6
<1>3. QED
  BY <1>1, <1>2 DEF Split

-----------------------------------------------------------------------------
(* The invariant of the planner. *)

LEMMA PlanInvInit == PlanInit => PlanInv
<1>1. PlanInit => SegTypeOK
  BY EmptySeq DEF PlanInit, SegTypeOK
<1>2. QED
  BY <1>1 DEF PlanInit, PlanInv, IsCut, Stripped, PlanEnded, Decisions

\* The prompt that is planned begins with a character that is not blank.
LEMMA AcceptInv == ASSUME PlanInv, Accept PROVE PlanInv'
<1>1. /\ pc = "idle" /\ pc' = "plan" /\ request' \in PlanRequests
      /\ frames' = frames /\ cuts' = cuts /\ resource' = resource /\ bundle' = bundle
  BY DEF Accept
<1>2. frames = <<>> /\ cuts = <<>> /\ bundle # "stored"
  BY <1>1 DEF PlanInv, IsCut
<1>3. request'.text \in Seq(Classes)
  BY <1>1, PromptsType
<1>. DEFINE whole == request'.text
            n == Len(request'.text)
<1>4. PICK a, c \in 1 .. n :
        /\ whole[a] \notin {"space", "newline"}
        /\ whole[c] \notin {"space", "newline"}
        /\ \A p \in c + 1 .. n : whole[p] \in {"space", "newline"}
        /\ text' = SubSeq(whole, a, c)
  BY DEF Accept
<1>5. n \in Nat
  BY <1>3, LenProperties
<1>6. a <= c
  <2>1. SUFFICES ASSUME c < a PROVE FALSE
    BY <1>5
  <2>2. a \in c + 1 .. n
    BY <1>5, <2>1
  <2>3. QED
    BY <1>4, <2>2
<1>7. \A i \in a .. c : whole[i] \in Classes
  BY <1>3, <1>5, ElementOfSeq
<1>. HIDE DEF whole, n
<1>8. /\ text' \in Seq(Classes)
      /\ Len(text') = c - a + 1
      /\ text'[1] = whole[a]
  <2>1. a \in Int /\ c \in Int
    BY <1>5
  <2>2. /\ SubSeq(whole, a, c) \in Seq(Classes)
        /\ Len(SubSeq(whole, a, c)) = IF a <= c THEN c - a + 1 ELSE 0
        /\ \A i \in 1 .. c - a + 1 : SubSeq(whole, a, c)[i] = whole[a + i - 1]
    BY <1>7, <2>1, SubSeqProperties
  <2>3. 1 \in 1 .. c - a + 1 /\ a + 1 - 1 = a
    BY <1>6, <2>1
  <2>4. QED
    BY <1>4, <1>6, <2>2, <2>3
<1>9. text' # <<>> /\ ~IsBlank(0)'
  <2>1. Len(text') # 0
    BY <1>5, <1>6, <1>8
  <2>2. text' # <<>>
    BY <2>1
  <2>3. QED
    BY <1>4, <1>8, <2>2 DEF IsBlank, Class
<1>10. SegTypeOK'
  BY <1>1, <1>8 DEF SegTypeOK, PlanInv
<1>11. QED
  BY <1>1, <1>2, <1>9, <1>10 DEF PlanInv, IsCut, Stripped, PlanEnded

LEMMA RefuseInv == ASSUME PlanInv, Refuse PROVE PlanInv'
<1>1. SegTypeOK'
  BY DEF PlanInv, Refuse, segVars, SegTypeOK
<1>2. QED
  BY <1>1 DEF PlanInv, Refuse, segVars, IsCut, Stripped, PlanEnded

\* A step that leaves the text and the cutting alone keeps what is said of them.
LEMMA Untouched ==
  ASSUME PlanInv, segVars' = segVars, request' = request
  PROVE  /\ SegTypeOK' /\ text' = text /\ frames' = frames /\ cuts' = cuts
         /\ QueueRequired(request)' <=> QueueRequired(request)
         /\ IsBlank(0)' <=> IsBlank(0)
         /\ Tiling => Tiling'
<1>1. text' = text /\ frames' = frames /\ cuts' = cuts
  BY DEF segVars
<1>2. SegTypeOK'
  BY <1>1 DEF PlanInv, SegTypeOK
<1>3. Ordered' = Ordered
  BY <1>1 DEF Ordered
<1>4. Covered' = Covered
  BY <1>1 DEF Covered, IsBlank, Class, InCut, ToCut
<1>5. Fitting' = Fitting
  BY <1>1 DEF Fitting, EstimateTokens, Class
<1>6. QED
  BY <1>1, <1>2, <1>3, <1>4, <1>5, SameText, SameMode DEF Tiling

LEMMA ClarifyInv == ASSUME PlanInv, Clarify PROVE PlanInv'
<1>1. ~QueueRequired(request)
  BY DEF Clarify, QueueRequired, Mode
<1>2. segVars' = segVars /\ request' = request
  BY DEF Clarify
<1>3. QED
  BY <1>1, <1>2, Untouched DEF PlanInv, Clarify, segVars, IsCut, Stripped, PlanEnded

\* At first the whole text is to be cut.
LEMMA PreprocessInv == ASSUME PlanInv, Preprocess PROVE PlanInv'
<1>1. /\ pc = "plan" /\ text' = text /\ cuts' = cuts /\ request' = request
      /\ resource' = resource /\ bundle' = bundle
  BY DEF Preprocess
<1>2. frames = <<>> /\ cuts = <<>> /\ bundle # "stored"
  BY <1>1 DEF PlanInv, IsCut
<1>3. QueueRequired(request)' = QueueRequired(request) /\ IsBlank(0)' = IsBlank(0)
  BY <1>1, SameMode, SameText
<1>4. CASE Mode(request) = "queued"
  <2>1. pc' = "split" /\ frames' = <<WholeText>>
    BY <1>4 DEF Preprocess
  <2>2. WholeText \in Frames /\ WholeText.start = 0 /\ WholeText.to = Len(text) /\ Len(text) \in Nat
    <3>1. Len(text) \in Nat
      BY LenProperties DEF PlanInv, SegTypeOK
    <3>2. QED
      BY <3>1, MaxCharsType DEF WholeText, Frames
  <2>3. /\ frames' \in Seq(Frames) /\ DOMAIN frames' = {1} /\ frames'[1] = WholeText
    BY <2>1, <2>2, IsASeq
  <2>4. SegTypeOK'
    BY <1>1, <2>3 DEF PlanInv, SegTypeOK
  <2>5. DOMAIN cuts = {}
    BY <1>2
  <2>6. Ordered'
    BY <1>1, <2>2, <2>3, <2>5 DEF Ordered
  <2>7. Covered'
    <3>1. ASSUME NEW p \in 0 .. Len(text) - 1 PROVE ToCut(p)'
      <4>1. frames'[1].start <= p /\ p < frames'[1].to
        BY <2>2, <2>3
      <4>2. QED
        BY <2>3, <4>1 DEF ToCut
    <3>2. QED
      BY <1>1, <3>1 DEF Covered
  <2>8. Fitting'
    BY <1>1, <2>5 DEF Fitting
  <2>9. QED
    BY <1>1, <1>2, <1>3, <1>4, <2>1, <2>4, <2>6, <2>7, <2>8
    DEF PlanInv, IsCut, Stripped, PlanEnded, Tiling, QueueRequired
<1>5. CASE Mode(request) # "queued"
  <2>1. pc' = "admit" /\ frames' = frames
    BY <1>5 DEF Preprocess
  <2>2. SegTypeOK'
    BY <1>1, <2>1 DEF PlanInv, SegTypeOK
  <2>3. ~QueueRequired(request)
    BY <1>5 DEF QueueRequired
  <2>4. QED
    BY <1>1, <1>2, <1>3, <2>1, <2>2, <2>3 DEF PlanInv, IsCut, Stripped, PlanEnded
<1>6. QED
  BY <1>4, <1>5

LEMMA SegmentInv == ASSUME PlanInv, Segment PROVE PlanInv'
<1>1. /\ pc = "split" /\ Split /\ pc' = pc /\ request' = request
      /\ resource' = resource /\ bundle' = bundle
  BY DEF Segment, requestVars
<1>2. QueueRequired(request) /\ Tiling /\ SegTypeOK
  BY <1>1 DEF PlanInv, IsCut
<1>3. SegTypeOK' /\ Tiling' /\ text' = text
  BY <1>1, <1>2, SplitKeeps
<1>4. QueueRequired(request)' = QueueRequired(request) /\ IsBlank(0)' = IsBlank(0)
  BY <1>1, <1>3, SameMode, SameText
<1>5. QED
  BY <1>1, <1>2, <1>3, <1>4 DEF PlanInv, IsCut, Stripped, PlanEnded

LEMMA SplitDoneInv == ASSUME PlanInv, SplitDone PROVE PlanInv'
<1>1. segVars' = segVars /\ request' = request
  BY DEF SplitDone
<1>2. pc = "split" /\ pc' = "admit" /\ resource' = resource /\ bundle' = bundle /\ frames = <<>>
  BY DEF SplitDone
<1>3. QED
  BY <1>1, <1>2, Untouched DEF PlanInv, IsCut, Stripped, PlanEnded

LEMMA AdmitInv == ASSUME PlanInv, Admit PROVE PlanInv'
<1>1. segVars' = segVars /\ request' = request
  BY DEF Admit
<1>2. resource' \in Decisions
  <2>1. CASE resource' = resource
    BY <2>1 DEF PlanInv
  <2>2. ASSUME NEW s \in Snapshots, resource' = Capacity(s, ExpectedRam(request))
        PROVE  resource' \in Decisions
    <3>1. CASE s.pressure \in {"emergency_stop", "pause_new_agents"}
      BY <2>2, <3>1 DEF Capacity, Decisions
    <3>2. CASE s.pressure \notin {"emergency_stop", "pause_new_agents"}
      BY <2>2, <3>2 DEF Capacity, Decisions
    <3>3. QED
      BY <3>1, <3>2
  <2>3. QED
    BY <2>1, <2>2 DEF Admit
<1>3. QED
  BY <1>1, <1>2, Untouched DEF PlanInv, Admit, segVars, IsCut, Stripped, PlanEnded

LEMMA PersistInv == ASSUME PlanInv, Persist PROVE PlanInv'
<1>1. /\ segVars' = segVars /\ request' = request /\ resource' = resource /\ pc = "persist"
  BY DEF Persist
<1>2. CASE QueueRequired(request)
  <2>1. (bundle' = "stored" /\ pc' = "out") \/ (bundle' = "refused" /\ pc' = "failed")
    BY <1>2 DEF Persist
  <2>2. QED
    BY <1>1, <1>2, <2>1, Untouched DEF PlanInv, IsCut, Stripped, PlanEnded
<1>3. CASE ~QueueRequired(request)
  <2>1. pc' = "out" /\ bundle' = bundle
    BY <1>3 DEF Persist
  <2>2. QED
    BY <1>1, <1>3, <2>1, Untouched DEF PlanInv, IsCut, Stripped, PlanEnded
<1>4. QED
  BY <1>2, <1>3

LEMMA AutoLoopInv == ASSUME PlanInv, AutoLoop PROVE PlanInv'
<1>1. segVars' = segVars /\ request' = request
  BY DEF AutoLoop
<1>2. QED
  BY <1>1, Untouched DEF PlanInv, AutoLoop, segVars, IsCut, Stripped, PlanEnded

LEMMA PlanInvStep == PlanInv /\ [PlanNext]_planVars => PlanInv'
<1>. SUFFICES ASSUME PlanInv, [PlanNext]_planVars PROVE PlanInv'
  OBVIOUS
<1>1. CASE UNCHANGED planVars
  <2>1. segVars' = segVars /\ request' = request /\ pc' = pc /\ resource' = resource /\ bundle' = bundle
    BY <1>1 DEF planVars, requestVars
  <2>2. QED
    BY <2>1, Untouched DEF PlanInv, segVars, IsCut, Stripped, PlanEnded
<1>2. CASE PlanNext
  BY <1>2, AcceptInv, RefuseInv, ClarifyInv, PreprocessInv, SegmentInv, SplitDoneInv,
     AdmitInv, PersistInv, AutoLoopInv DEF PlanNext, PlanGoesOn
<1>3. QED
  BY <1>1, <1>2

LEMMA PlanInvAlways == PlanSpec => []PlanInv
  BY PlanInvInit, PlanInvStep, PTL DEF PlanSpec

\* A prompt that has been cut to the end has every character that is not blank in a segment,
\* and so has at least one.
LEMMA CutToTheEnd ==
  ASSUME PlanInv, pc \in {"out", "loop"}, QueueRequired(request)
  PROVE  /\ \A p \in 0 .. Len(text) - 1 : IsBlank(p) \/ InCut(p)
         /\ cuts # <<>>
<1>1. Covered /\ frames = <<>>
  BY DEF PlanInv, IsCut, Tiling
<1>2. \A p : ~ToCut(p)
  BY <1>1 DEF ToCut
<1>3. \A p \in 0 .. Len(text) - 1 : IsBlank(p) \/ InCut(p)
  BY <1>1, <1>2 DEF Covered
<1>4. 0 \in 0 .. Len(text) - 1
  BY EmptySeq DEF PlanInv, Stripped, SegTypeOK
<1>5. InCut(0)
  BY <1>3, <1>4 DEF PlanInv, Stripped
<1>6. QED
  BY <1>3, <1>5 DEF InCut

-----------------------------------------------------------------------------
(* The theorems. *)

LEMMA PlanInvTyped == PlanInv => PlanTypeOK
<1>. SUFFICES ASSUME PlanInv PROVE PlanTypeOK
  OBVIOUS
<1>1. bundle = "stored" => cuts # <<>>
  BY CutToTheEnd DEF PlanInv
<1>2. ResponseContract(request) \in {"synthesize", "verify_and_cite", "verify", "direct"}
  BY DEF ResponseContract
<1>3. QED
  BY <1>1, <1>2 DEF PlanInv, PlanTypeOK

\* build_harness_plan ends with a response contract that the host knows, a decision of the
\* admission, and a stored bundle only of a prompt that was cut.
THEOREM PlansAreTyped == PlanSpec => []PlanTypeOK
BY PlanInvTyped, PlanInvAlways, PTL

\* _collect_segment_ranges: whatever the prompt and the limits, the segments and what is left
\* to cut are in order, do not overlap and miss no character but blanks, and a segment with
\* too many tokens is no longer than the shortest window.
THEOREM PromptsAreTiled == PlanSpec => []SegmentsTile
<1>1. PlanInv => SegmentsTile
  BY DEF PlanInv, SegmentsTile, Tiling
<1>2. QED
  BY <1>1, PlanInvAlways, PTL

\* Whichever mode _preprocess_policy chooses, the words of the user are in a step of the plan
\* or in the segments of a stored bundle, and are hidden from the printed plan only then.
THEOREM PromptsAreKept == PlanSpec => []PromptKept
<1>1. PlanInv => PromptKept
  <2>. SUFFICES ASSUME PlanInv, pc \in {"out", "loop"}
                PROVE  /\ ~Clarifying(request) =>
                            \/ \E i \in DOMAIN Steps(request) : Steps(request)[i].prompt = "prompt"
                            \/ /\ bundle = "stored"
                               /\ \A p \in 0 .. Len(text) - 1 :
                                    IsBlank(p) \/ \E i \in DOMAIN BundleSteps :
                                                    BundleSteps[i][1] <= p /\ p < BundleSteps[i][2]
                               /\ \A i \in DOMAIN BundleSteps : Steps(request)[i].range = BundleSteps[i]
                       /\ PublicPrompt(request) = "index" => bundle = "stored"
    BY DEF PromptKept
  <2>1. PublicPrompt(request) = "index" => bundle = "stored"
    BY DEF PublicPrompt, PlanInv
  <2>2. CASE ~Clarifying(request) /\ QueueRequired(request)
    <3>1. bundle = "stored" /\ \A p \in 0 .. Len(text) - 1 : IsBlank(p) \/ InCut(p)
      BY <2>2, CutToTheEnd DEF PlanInv
    <3>2. Steps(request) = [i \in 1 .. Len(cuts) + 1 |->
             IF i <= Len(cuts) THEN PlanStep("segment", "own", cuts[i], request)
             ELSE PlanStep("brief", "own", <<>>, request)]
      BY <2>2 DEF QueueRequired, Steps
    <3>3. ASSUME NEW i \in DOMAIN cuts PROVE Steps(request)[i].range = cuts[i]
      <4>1. i \in 1 .. Len(cuts) + 1 /\ i <= Len(cuts)
        BY LenProperties DEF PlanInv, SegTypeOK
      <4>2. Steps(request)[i] = PlanStep("segment", "own", cuts[i], request)
        BY <3>2, <4>1
      <4>3. QED
        BY <4>2 DEF PlanStep
    <3>4. QED
      BY <2>1, <3>1, <3>3 DEF BundleSteps, InCut
  <2>3. CASE ~Clarifying(request) /\ ~QueueRequired(request)
    <3>1. ~SplitRequired /\ Mode(request) \in {"standard", "verification_answer", "simple_answer"}
      BY <2>3, QueueIsSplit DEF QueueRequired
    <3>2. \E kind : Steps(request) = <<PlanStep(kind, "prompt", <<>>, request)>>
      <4>1. CASE Mode(request) = "standard"
        BY <3>1, <4>1 DEF Steps, NormalizedPrompt
      <4>2. CASE Mode(request) = "verification_answer"
        BY <4>2 DEF Steps
      <4>3. CASE Mode(request) = "simple_answer"
        BY <4>3 DEF Steps
      <4>4. QED
        BY <3>1, <4>1, <4>2, <4>3
    <3>3. 1 \in DOMAIN Steps(request) /\ Steps(request)[1].prompt = "prompt"
      BY <3>2 DEF PlanStep
    <3>4. QED
      BY <2>1, <3>3
  <2>4. QED
    BY <2>1, <2>2, <2>3
<1>2. QED
  BY <1>1, PlanInvAlways, PTL

-----------------------------------------------------------------------------
(* Compression.  First, counting. *)

\* A non-empty set of naturals has a least element.
LEMMA LeastElement ==
  ASSUME NEW T, T \subseteq Nat, T # {}
  PROVE  \E m \in T : \A n \in T : m <= n
<1>1. \E m \in T : \A n \in T : ~ (<<n, m>> \in OpToRel(<, Nat))
  BY WFMin, NatLessThanWellFounded, Zenon
<1>2. PICK m \in T : \A n \in T : ~ (<<n, m>> \in OpToRel(<, Nat))
  BY <1>1, Zenon
<1>3. ASSUME NEW n \in T PROVE ~ (n < m)
  BY <1>2, <1>3, Zenon DEF OpToRel
<1> QED
  BY <1>3

\* Counting up to n from zero meets no number outside of a set that each step stays in.
LEMMA CountingUp ==
  ASSUME NEW n \in Nat, NEW S, 0 \in S, \A k \in 1 .. n : k - 1 \in S => k \in S
  PROVE  \A k \in 0 .. n : k \in S
<1> DEFINE Missed == {k \in 0 .. n : k \notin S}
<1> SUFFICES ASSUME Missed # {} PROVE FALSE
  OBVIOUS
<1>1. Missed \subseteq Nat
  OBVIOUS
<1>2. PICK k \in Missed : \A j \in Missed : k <= j
  <2> HIDE DEF Missed
  <2> QED
    BY <1>1, LeastElement
<1>3. k # 0 /\ k \in 1 .. n /\ k - 1 \in 0 .. n /\ k - 1 \notin Missed
  BY <1>2
<1> QED
  BY <1>2, <1>3

-----------------------------------------------------------------------------
(* The sum of the sizes. *)

Part(ms, indices, n) == IF n \in indices THEN ms[n].size ELSE 0
Sums(g, ms, indices, m) ==
  g = [n \in 0 .. m |-> IF n = 0 THEN 0 ELSE g[n - 1] + Part(ms, indices, n)]

\* The recursion has a solution, and its last value is the sum.
LEMMA SumIs ==
  ASSUME NEW ms \in Seq(Messages), NEW indices
  PROVE  \E g : Sums(g, ms, indices, Len(ms)) /\ SumOf(ms, indices) = g[Len(ms)]
<1> DEFINE n == Len(ms)
           Solved == {m \in 0 .. n : \E g : Sums(g, ms, indices, m)}
<1>0. n \in Nat
  OBVIOUS
<1>1. 0 \in Solved
  <2>1. Sums([k \in 0 .. 0 |-> 0], ms, indices, 0)
    BY DEF Sums
  <2> QED
    BY <1>0, <2>1
<1>2. ASSUME NEW m \in 1 .. n, m - 1 \in Solved PROVE m \in Solved
  <2>1. PICK g : Sums(g, ms, indices, m - 1)
    BY <1>2
  <2> DEFINE h == [k \in 0 .. m |-> IF k = m THEN g[m - 1] + Part(ms, indices, m) ELSE g[k]]
  <2>2. \A k \in 0 .. m : h[k] = IF k = 0 THEN 0 ELSE h[k - 1] + Part(ms, indices, k)
    BY <1>0, <2>1 DEF Sums
  <2>3. Sums(h, ms, indices, m)
    BY <2>2 DEF Sums
  <2> QED
    BY <2>3
<1>3. n \in Solved
  <2> HIDE DEF Solved, n
  <2>1. \A k \in 0 .. n : k \in Solved
    BY <1>0, <1>1, <1>2, CountingUp
  <2> QED
    BY <1>0, <2>1
<1> DEFINE Next(f) == [k \in 0 .. n |-> IF k = 0 THEN 0
                         ELSE f[k - 1] + (IF k \in indices THEN ms[k].size ELSE 0)]
           sum == CHOOSE f : f = Next(f)
<1>4. \A f : Sums(f, ms, indices, n) <=> f = Next(f)
  BY DEF Sums, Part
<1>5. sum = Next(sum)
  <2>1. \E f : f = Next(f)
    BY <1>3, <1>4
  <2> HIDE DEF Next
  <2> QED
    BY <2>1
<1>6. SumOf(ms, indices) = sum[n]
  BY DEF SumOf
<1> QED
  BY <1>4, <1>5, <1>6

\* Sums are naturals.
LEMMA SumsNat ==
  ASSUME NEW ms \in Seq(Messages), NEW indices, NEW g, Sums(g, ms, indices, Len(ms))
  PROVE  /\ \A k \in 0 .. Len(ms) : g[k] \in Nat
         /\ g[0] = 0
         /\ \A k \in 1 .. Len(ms) : g[k] = g[k - 1] + Part(ms, indices, k) /\ Part(ms, indices, k) \in Nat
<1> DEFINE n == Len(ms)
           Good == {k \in 0 .. n : g[k] \in Nat}
<1>0. n \in Nat
  OBVIOUS
<1>1. g[0] = 0 /\ \A k \in 1 .. n : g[k] = g[k - 1] + Part(ms, indices, k)
  BY <1>0 DEF Sums
<1>2. \A k \in 1 .. n : Part(ms, indices, k) \in Nat
  <2>1. \A k \in 1 .. n : ms[k] \in Messages
    OBVIOUS
  <2>2. \A k \in 1 .. n : ms[k].size \in Nat
    BY <2>1 DEF Messages
  <2> QED
    BY <2>2 DEF Part
<1>3. 0 \in Good /\ \A k \in 1 .. n : k - 1 \in Good => k \in Good
  BY <1>0, <1>1, <1>2
<1>4. \A k \in 0 .. n : k \in Good
  <2> HIDE DEF Good, n
  <2> QED
    BY <1>0, <1>3, CountingUp
<1> QED
  BY <1>1, <1>2, <1>4

LEMMA SumNat ==
  ASSUME NEW ms \in Seq(Messages), NEW indices
  PROVE  SumOf(ms, indices) \in Nat
<1>1. PICK g : Sums(g, ms, indices, Len(ms)) /\ SumOf(ms, indices) = g[Len(ms)]
  BY SumIs
<1>2. Len(ms) \in 0 .. Len(ms)
  OBVIOUS
<1> QED
  BY <1>1, <1>2, SumsNat

\* One part more or less.
LEMMA SumDiffers ==
  ASSUME NEW ms \in Seq(Messages), NEW ns \in Seq(Messages), Len(ns) = Len(ms),
         NEW I, NEW J, NEW i \in 1 .. Len(ms),
         \A j \in 1 .. Len(ms) : j # i => Part(ns, J, j) = Part(ms, I, j)
  PROVE  SumOf(ns, J) = SumOf(ms, I) - Part(ms, I, i) + Part(ns, J, i)
<1> DEFINE n == Len(ms)
<1>0. n \in Nat
  OBVIOUS
<1>1. PICK g : Sums(g, ms, I, n) /\ SumOf(ms, I) = g[n]
  BY SumIs
<1>2. PICK h : Sums(h, ns, J, n) /\ SumOf(ns, J) = h[n]
  BY SumIs
<1> DEFINE P(k) == Part(ms, I, k)
           Q(k) == Part(ns, J, k)
<1>3. /\ \A k \in 0 .. n : g[k] \in Nat /\ h[k] \in Nat
      /\ g[0] = 0 /\ h[0] = 0
      /\ \A k \in 1 .. n : g[k] = g[k - 1] + P(k) /\ h[k] = h[k - 1] + Q(k) /\ P(k) \in Nat /\ Q(k) \in Nat
  BY <1>1, <1>2, SumsNat
<1> HIDE DEF P, Q
<1> DEFINE Good == {k \in 0 .. n : h[k] = IF k < i THEN g[k] ELSE g[k] - P(i) + Q(i)}
<1>4. \A j \in 1 .. n : j # i => P(j) = Q(j)
  BY DEF P, Q
<1> HIDE DEF n
<1>5. i \in 1 .. n
  BY DEF n
<1>6. 0 \in Good
  BY <1>0, <1>3, <1>5
<1>7. ASSUME NEW k \in 1 .. n, k - 1 \in Good PROVE k \in Good
  <2>1. /\ g[k] = g[k - 1] + P(k) /\ h[k] = h[k - 1] + Q(k)
        /\ g[k - 1] \in Nat /\ h[k - 1] \in Nat
        /\ P(k) \in Nat /\ Q(k) \in Nat /\ P(i) \in Nat /\ Q(i) \in Nat
        /\ h[k - 1] = IF k - 1 < i THEN g[k - 1] ELSE g[k - 1] - P(i) + Q(i)
    BY <1>0, <1>3, <1>5, <1>7
  <2>2. CASE k < i
    BY <1>4, <1>5, <2>1, <2>2
  <2>3. CASE k = i
    BY <1>5, <2>1, <2>3
  <2>4. CASE k > i
    BY <1>4, <1>5, <2>1, <2>4
  <2> QED
    BY <1>5, <2>2, <2>3, <2>4
<1>8. n \in Good
  <2> HIDE DEF Good
  <2>1. \A k \in 0 .. n : k \in Good
    BY <1>0, <1>6, <1>7, CountingUp
  <2> QED
    BY <1>0, <2>1
<1> QED
  BY <1>1, <1>2, <1>5, <1>8 DEF P, Q

\* Some parts replaced.
LEMMA SumReplaced ==
  ASSUME NEW ms \in Seq(Messages), NEW ns \in Seq(Messages), Len(ns) = Len(ms),
         NEW D \in SUBSET (1 .. Len(ms)),
         \A j \in 1 .. Len(ms) : j \notin D => ns[j].size = ms[j].size
  PROVE  SumOf(ns, 1 .. Len(ms)) = SumOf(ms, 1 .. Len(ms)) - SumOf(ms, D) + SumOf(ns, D)
<1> DEFINE n == Len(ms)
           All == 1 .. n
<1>0. n \in Nat
  OBVIOUS
<1>1. PICK g : Sums(g, ms, All, n) /\ SumOf(ms, All) = g[n]
  BY SumIs
<1>2. PICK h : Sums(h, ns, All, n) /\ SumOf(ns, All) = h[n]
  BY SumIs
<1>3. PICK d : Sums(d, ms, D, n) /\ SumOf(ms, D) = d[n]
  BY SumIs
<1>4. PICK e : Sums(e, ns, D, n) /\ SumOf(ns, D) = e[n]
  BY SumIs
<1>5. /\ \A k \in 0 .. n : g[k] \in Nat /\ h[k] \in Nat /\ d[k] \in Nat /\ e[k] \in Nat
      /\ g[0] = 0 /\ h[0] = 0 /\ d[0] = 0 /\ e[0] = 0
      /\ \A k \in 1 .. n : /\ g[k] = g[k - 1] + Part(ms, All, k) /\ h[k] = h[k - 1] + Part(ns, All, k)
                          /\ d[k] = d[k - 1] + Part(ms, D, k) /\ e[k] = e[k - 1] + Part(ns, D, k)
                          /\ Part(ms, D, k) \in Nat /\ Part(ns, D, k) \in Nat
                          /\ Part(ms, All, k) \in Nat /\ Part(ns, All, k) \in Nat
  BY <1>1, <1>2, <1>3, <1>4, SumsNat
<1>6. \A k \in 1 .. n : Part(ns, All, k) = Part(ms, All, k) - Part(ms, D, k) + Part(ns, D, k)
  BY <1>5 DEF Part
<1> DEFINE Good == {k \in 0 .. n : h[k] = g[k] - d[k] + e[k]}
<1> HIDE DEF n, All
<1>7. 0 \in Good
  BY <1>0, <1>5
<1>8. ASSUME NEW k \in 1 .. n, k - 1 \in Good PROVE k \in Good
  <2>1. k - 1 \in 0 .. n /\ h[k - 1] = g[k - 1] - d[k - 1] + e[k - 1]
    BY <1>8
  <2>2. /\ g[k] = g[k - 1] + Part(ms, All, k) /\ h[k] = h[k - 1] + Part(ns, All, k)
        /\ d[k] = d[k - 1] + Part(ms, D, k) /\ e[k] = e[k - 1] + Part(ns, D, k)
        /\ Part(ms, D, k) \in Nat /\ Part(ns, D, k) \in Nat
        /\ Part(ms, All, k) \in Nat /\ Part(ns, All, k) \in Nat
        /\ Part(ns, All, k) = Part(ms, All, k) - Part(ms, D, k) + Part(ns, D, k)
    BY <1>5, <1>6
  <2>3. g[k - 1] \in Nat /\ h[k - 1] \in Nat /\ d[k - 1] \in Nat /\ e[k - 1] \in Nat
    BY <1>5, <2>1
  <2>4. h[k] = g[k] - d[k] + e[k]
    <3> DEFINE g1 == g[k - 1]
               h1 == h[k - 1]
               d1 == d[k - 1]
               e1 == e[k - 1]
               p == Part(ms, All, k)
               q == Part(ns, All, k)
               x == Part(ms, D, k)
               y == Part(ns, D, k)
    <3>1. g1 \in Nat /\ h1 \in Nat /\ d1 \in Nat /\ e1 \in Nat /\ p \in Nat /\ q \in Nat /\ x \in Nat /\ y \in Nat
      BY <2>2, <2>3
    <3>2. h1 = g1 - d1 + e1 /\ q = p - x + y
      BY <2>1, <2>2
    <3>3. h[k] = h1 + q /\ g[k] = g1 + p /\ d[k] = d1 + x /\ e[k] = e1 + y
      BY <2>2
    <3> HIDE DEF g1, h1, d1, e1, p, q, x, y
    <3>4. h1 + q = (g1 + p) - (d1 + x) + (e1 + y)
      BY <3>1, <3>2
    <3> QED
      BY <3>3, <3>4
  <2> QED
    BY <2>4
<1>9. n \in Good
  <2> HIDE DEF Good
  <2>1. \A k \in 0 .. n : k \in Good
    BY <1>0, <1>7, <1>8, CountingUp
  <2> QED
    BY <1>0, <2>1
<1> QED
  BY <1>1, <1>2, <1>3, <1>4, <1>9 DEF All, n

-----------------------------------------------------------------------------
(* The list without what was forgotten. *)

LEMMA KeptCounts ==
  ASSUME NEW gone
  PROVE  /\ KeptUpTo(gone, 0) = 0
         /\ \A i \in Nat : KeptUpTo(gone, i) \in Nat
         /\ \A i \in Nat \ {0} : KeptUpTo(gone, i) = KeptUpTo(gone, i - 1) + (IF i \in gone THEN 0 ELSE 1)
<1> DEFINE Kept(i) == {j \in 1 .. i : j \notin gone}
<1>1. \A i \in Nat : IsFiniteSet(Kept(i)) /\ Cardinality(Kept(i)) \in Nat
  <2> TAKE i \in Nat
  <2>1. IsFiniteSet(1 .. i)
    BY FS_Interval
  <2>2. Kept(i) \subseteq 1 .. i
    OBVIOUS
  <2> HIDE DEF Kept
  <2> QED
    BY <2>1, <2>2, FS_Subset, FS_CardinalityType
<1>2. Kept(0) = {}
  OBVIOUS
<1>3. ASSUME NEW i \in Nat \ {0}
      PROVE  KeptUpTo(gone, i) = KeptUpTo(gone, i - 1) + (IF i \in gone THEN 0 ELSE 1)
  <2>1. i - 1 \in Nat /\ i \notin Kept(i - 1)
    OBVIOUS
  <2>0. KeptUpTo(gone, i) = Cardinality(Kept(i)) /\ KeptUpTo(gone, i - 1) = Cardinality(Kept(i - 1))
    BY DEF KeptUpTo
  <2>2. CASE i \in gone
    <3>1. Kept(i) = Kept(i - 1)
      BY <2>2
    <3>2. Cardinality(Kept(i - 1)) \in Nat
      BY <1>1, <2>1
    <3> HIDE DEF Kept
    <3> QED
      BY <2>0, <2>2, <3>1, <3>2
  <2>3. CASE i \notin gone
    <3>1. Kept(i) = Kept(i - 1) \cup {i}
      BY <2>3
    <3>2. Cardinality(Kept(i - 1) \cup {i}) = Cardinality(Kept(i - 1)) + 1
      <4> HIDE DEF Kept
      <4> QED
        BY <1>1, <2>1, FS_AddElement
    <3> HIDE DEF Kept
    <3> QED
      BY <2>0, <2>3, <3>1, <3>2
  <2> QED
    BY <2>2, <2>3
<1> QED
  BY <1>1, <1>2, <1>3, FS_EmptySet DEF KeptUpTo

\* The count grows, and with every one that is kept.
LEMMA KeptGrows ==
  ASSUME NEW gone, NEW i \in Nat, NEW j \in Nat, i <= j
  PROVE  /\ KeptUpTo(gone, i) <= KeptUpTo(gone, j)
         /\ i < j /\ j \notin gone => KeptUpTo(gone, i) < KeptUpTo(gone, j)
<1> DEFINE K(k) == KeptUpTo(gone, k)
           Good == {k \in 0 .. j : i <= k => K(i) <= K(k)}
<1>1. /\ \A k \in Nat : K(k) \in Nat
      /\ \A k \in Nat \ {0} : K(k) = K(k - 1) + (IF k \in gone THEN 0 ELSE 1)
  BY KeptCounts
<1> HIDE DEF K
<1>2. 0 \in Good
  BY <1>1
<1>3. ASSUME NEW k \in 1 .. j, k - 1 \in Good PROVE k \in Good
  <2>1. CASE i = k
    BY <1>1, <2>1
  <2>2. CASE i # k
    <3>1. K(k) = K(k - 1) \/ K(k) = K(k - 1) + 1
      BY <1>1
    <3>2. K(k) \in Nat /\ K(k - 1) \in Nat /\ K(i) \in Nat
      BY <1>1
    <3> QED
      BY <1>3, <2>2, <3>1, <3>2
  <2> QED
    BY <2>1, <2>2
<1>4. \A k \in 0 .. j : k \in Good
  <2> HIDE DEF Good
  <2> QED
    BY <1>2, <1>3, CountingUp
<1>5. K(i) <= K(j)
  BY <1>4
<1>6. ASSUME i < j, j \notin gone PROVE K(i) < K(j)
  <2>1. K(i) <= K(j - 1)
    BY <1>4, <1>6
  <2>2. K(j) = K(j - 1) + 1 /\ K(j - 1) \in Nat /\ K(i) \in Nat
    BY <1>1, <1>6
  <2> QED
    BY <2>1, <2>2
<1> QED
  BY <1>5, <1>6 DEF K

\* Every place of the new list has an old one.
LEMMA KeptPlace ==
  ASSUME NEW gone, NEW n \in Nat, NEW k \in 1 .. KeptUpTo(gone, n)
  PROVE  \E i \in (1 .. n) \ gone : KeptUpTo(gone, i) = k
<1> DEFINE K(i) == KeptUpTo(gone, i)
           Reached == {i \in 0 .. n : k <= K(i)}
<1>1. /\ K(0) = 0 /\ \A i \in Nat : K(i) \in Nat
      /\ \A i \in Nat \ {0} : K(i) = K(i - 1) + (IF i \in gone THEN 0 ELSE 1)
  BY KeptCounts
<1> HIDE DEF K
<1>2. n \in Reached
  BY <1>1 DEF K
<1>3. PICK i \in Reached : \A j \in Reached : i <= j
  <2>1. Reached \subseteq Nat /\ Reached # {}
    BY <1>2
  <2> HIDE DEF Reached
  <2> QED
    BY <2>1, LeastElement
<1>4. i # 0
  BY <1>1, <1>3
<1>5. i - 1 \in 0 .. n /\ ~ (k <= K(i - 1))
  BY <1>3, <1>4
<1>6. K(i) = K(i - 1) + (IF i \in gone THEN 0 ELSE 1) /\ K(i) \in Nat /\ K(i - 1) \in Nat /\ k <= K(i)
  BY <1>1, <1>3, <1>4
<1>7. i \notin gone /\ K(i) = k
  BY <1>5, <1>6
<1> QED
  BY <1>3, <1>4, <1>7 DEF K

\* Behind what was forgotten last nothing moves but by the number of those forgotten.
LEMMA KeptTail ==
  ASSUME NEW gone, NEW n \in Nat, NEW i \in 0 .. n, \A j \in i + 1 .. n : j \notin gone
  PROVE  KeptUpTo(gone, n) - KeptUpTo(gone, i) = n - i
<1> DEFINE K(k) == KeptUpTo(gone, k)
           Good == {k \in 0 .. n : i <= k => K(k) - K(i) = k - i}
<1>1. /\ \A k \in Nat : K(k) \in Nat
      /\ \A k \in Nat \ {0} : K(k) = K(k - 1) + (IF k \in gone THEN 0 ELSE 1)
  BY KeptCounts
<1> HIDE DEF K
<1>2. 0 \in Good
  BY <1>1
<1>3. ASSUME NEW k \in 1 .. n, k - 1 \in Good PROVE k \in Good
  <2>1. CASE k <= i
    BY <1>1, <2>1
  <2>2. CASE k > i
    <3>1. K(k) = K(k - 1) + 1 /\ K(k) \in Nat /\ K(k - 1) \in Nat /\ K(i) \in Nat
      BY <1>1, <2>2
    <3> QED
      BY <1>3, <2>2, <3>1
  <2> QED
    BY <2>1, <2>2
<1>4. \A k \in 0 .. n : k \in Good
  <2> HIDE DEF Good
  <2> QED
    BY <1>2, <1>3, CountingUp
<1> QED
  BY <1>4 DEF K

\* The new list: each place has the message of one old place, in the same order, and every
\* place that is kept has a new one.
LEMMA RebuiltIs ==
  ASSUME NEW ms \in Seq(Messages), NEW gone
  PROVE  LET ns == Rebuilt(ms, gone)
             m == KeptUpTo(gone, Len(ms))
         IN  /\ ns \in Seq(Messages) /\ Len(ns) = m /\ m \in Nat
             /\ \A k \in 1 .. m : \E i \in (1 .. Len(ms)) \ gone : KeptUpTo(gone, i) = k /\ ns[k] = ms[i]
             /\ \A i \in (1 .. Len(ms)) \ gone : KeptUpTo(gone, i) \in 1 .. m /\ ns[KeptUpTo(gone, i)] = ms[i]
<1> DEFINE n == Len(ms)
           m == KeptUpTo(gone, n)
           ns == Rebuilt(ms, gone)
           old(k) == CHOOSE i \in (1 .. n) \ gone : KeptUpTo(gone, i) = k
<1>a. n \in Nat /\ DOMAIN ms = 1 .. n
  OBVIOUS
<1>b. m \in Nat
  BY <1>a, KeptCounts
<1>0. n \in Nat /\ m \in Nat /\ DOMAIN ms = 1 .. n
  BY <1>a, <1>b
<1>1. ns = [k \in 1 .. m |-> ms[old(k)]]
  BY <1>0 DEF Rebuilt
<1>2. ASSUME NEW k \in 1 .. m PROVE old(k) \in (1 .. n) \ gone /\ KeptUpTo(gone, old(k)) = k
  <2>1. \E i \in (1 .. n) \ gone : KeptUpTo(gone, i) = k
    BY <1>0, KeptPlace
  <2> QED
    BY <2>1
<1>3. ns \in Seq(Messages) /\ Len(ns) = m
  <2>1. \A k \in 1 .. m : ms[old(k)] \in Messages
    BY <1>0, <1>2
  <2> HIDE DEF ns, old, m
  <2>2. ns \in [1 .. m -> Messages]
    BY <1>1, <2>1
  <2> QED
    BY <1>0, <2>2
<1>4. ASSUME NEW k \in 1 .. m
      PROVE  \E i \in (1 .. n) \ gone : KeptUpTo(gone, i) = k /\ ns[k] = ms[i]
  BY <1>1, <1>2
<1>5. ASSUME NEW i \in (1 .. n) \ gone
      PROVE  KeptUpTo(gone, i) \in 1 .. m /\ ns[KeptUpTo(gone, i)] = ms[i]
  <2> DEFINE k == KeptUpTo(gone, i)
  <2>1. KeptUpTo(gone, 0) < k /\ k <= m /\ KeptUpTo(gone, 0) = 0 /\ k \in Nat
    BY <1>0, KeptGrows, KeptCounts
  <2>2. k \in 1 .. m
    BY <1>0, <2>1
  <2>3. old(k) = i
    <3>1. old(k) \in (1 .. n) \ gone /\ KeptUpTo(gone, old(k)) = k
      BY <1>2, <2>2
    <3> DEFINE j == old(k)
    <3> HIDE DEF j
    <3>a. i \in Nat /\ j \in Nat /\ i \notin gone /\ j \notin gone /\ KeptUpTo(gone, i) = KeptUpTo(gone, j)
          /\ KeptUpTo(gone, i) \in Nat
      BY <1>0, <3>1, <2>1 DEF j
    <3>b. ~ (j < i)
      BY <3>a, KeptGrows
    <3>c. ~ (i < j)
      BY <3>a, KeptGrows
    <3>2. ~ (j < i) /\ ~ (i < j)
      BY <3>b, <3>c
    <3> QED
      BY <3>1, <3>2 DEF j
  <2> HIDE DEF old, k
  <2> QED
    BY <1>1, <2>2, <2>3 DEF k
<1> QED
  BY <1>0, <1>3, <1>4, <1>5

\* Nothing but what was forgotten is missing from the sum.
LEMMA SumRebuilt ==
  ASSUME NEW ms \in Seq(Messages), NEW gone
  PROVE  SumOf(Rebuilt(ms, gone), 1 .. Len(Rebuilt(ms, gone))) = SumOf(ms, (1 .. Len(ms)) \ gone)
<1> DEFINE n == Len(ms)
           m == KeptUpTo(gone, n)
           ns == Rebuilt(ms, gone)
           K(i) == KeptUpTo(gone, i)
           I == (1 .. n) \ gone
<1>0. n \in Nat
  OBVIOUS
<1>1. /\ ns \in Seq(Messages) /\ Len(ns) = m /\ m \in Nat
      /\ \A i \in I : K(i) \in 1 .. m /\ ns[K(i)] = ms[i]
  BY RebuiltIs
<1> HIDE DEF ns
<1>2. PICK g : Sums(g, ms, I, n) /\ SumOf(ms, I) = g[n]
  BY SumIs
<1>3. PICK h : Sums(h, ns, 1 .. m, m) /\ SumOf(ns, 1 .. m) = h[m]
  BY <1>1, SumIs
<1>4. /\ g[0] = 0 /\ \A k \in 0 .. n : g[k] \in Nat
      /\ \A k \in 1 .. n : g[k] = g[k - 1] + Part(ms, I, k)
  BY <1>2, SumsNat
<1>5. /\ h[0] = 0 /\ \A k \in 0 .. m : h[k] \in Nat
      /\ \A k \in 1 .. m : h[k] = h[k - 1] + Part(ns, 1 .. m, k)
  BY <1>1, <1>3, SumsNat
<1>6. /\ K(0) = 0 /\ \A i \in Nat : K(i) \in Nat
      /\ \A i \in Nat \ {0} : K(i) = K(i - 1) + (IF i \in gone THEN 0 ELSE 1)
  BY KeptCounts
<1> DEFINE Good == {i \in 0 .. n : h[K(i)] = g[i]}
<1>7. ASSUME NEW i \in 1 .. n, i \notin gone PROVE Part(ms, I, i) = Part(ns, 1 .. m, K(i)) /\ K(i) \in 1 .. m
  BY <1>1, <1>7 DEF Part
<1>8. ASSUME NEW i \in 1 .. n, i \in gone PROVE Part(ms, I, i) = 0
  BY <1>8 DEF Part
<1> HIDE DEF n, m, K, I
<1>9. 0 \in Good
  BY <1>0, <1>4, <1>5, <1>6
<1>10. ASSUME NEW i \in 1 .. n, i - 1 \in Good PROVE i \in Good
  <2>1. i \in Nat \ {0} /\ i - 1 \in Nat
    BY <1>0
  <2>2. g[i] = g[i - 1] + Part(ms, I, i) /\ h[K(i - 1)] = g[i - 1] /\ g[i - 1] \in Nat
    BY <1>0, <1>4, <1>10
  <2>3. CASE i \in gone
    <3>1. K(i) = K(i - 1)
      BY <1>6, <2>1, <2>3
    <3>2. g[i] = g[i - 1]
      BY <1>8, <2>2, <2>3
    <3> QED
      BY <2>2, <3>1, <3>2
  <2>4. CASE i \notin gone
    <3>1. K(i) = K(i - 1) + 1 /\ K(i - 1) \in Nat
      BY <1>6, <2>1, <2>4
    <3>2. K(i) \in 1 .. m /\ Part(ms, I, i) = Part(ns, 1 .. m, K(i))
      BY <1>7, <2>4
    <3>3. h[K(i)] = h[K(i) - 1] + Part(ns, 1 .. m, K(i)) /\ K(i) - 1 = K(i - 1)
      BY <1>5, <3>1, <3>2
    <3> QED
      BY <2>2, <3>2, <3>3
  <2> QED
    BY <2>3, <2>4
<1>11. n \in Good
  <2> HIDE DEF Good
  <2>1. \A i \in 0 .. n : i \in Good
    BY <1>0, <1>9, <1>10, CountingUp
  <2> QED
    BY <1>0, <2>1
<1> QED
  BY <1>1, <1>2, <1>3, <1>11 DEF n, m, K, ns, I

-----------------------------------------------------------------------------
(* What may not be changed.  Recent, Pinned and Removable, with the number *)
(* of recent turns as an argument.                                         *)

RecentOf(ms, r) == {i \in DOMAIN ms : i > Len(ms) - r}
PinnedOf(ms, r) == {i \in DOMAIN ms : ms[i].pinned} \cup ({Intent(ms)} \ {0}) \cup RecentOf(ms, r)

LEMMA OfOptions ==
  \A ms : /\ Recent(ms) = RecentOf(ms, options.recent)
          /\ Pinned(ms) = PinnedOf(ms, options.recent)
          /\ Removable(ms) = DOMAIN ms \ PinnedOf(ms, options.recent)
BY DEF Recent, RecentOf, Pinned, PinnedOf, Removable

LEMMA IntentIs ==
  ASSUME NEW ms \in Seq(Messages)
  PROVE  \/ Intent(ms) = 0 /\ \A i \in 1 .. Len(ms) : ~ms[i].user
         \/ Intent(ms) \in 1 .. Len(ms) /\ ms[Intent(ms)].user /\ \A j \in 1 .. Intent(ms) - 1 : ~ms[j].user
<1> DEFINE n == Len(ms)
           U == {i \in 1 .. n : ms[i].user}
<1>0. n \in Nat /\ DOMAIN ms = 1 .. n
  OBVIOUS
<1>1. CASE U = {}
  <2>1. \A i \in DOMAIN ms : ~ms[i].user
    BY <1>0, <1>1
  <2> QED
    BY <1>0, <2>1 DEF Intent
<1>2. CASE U # {}
  <2>1. PICK i \in U : \A j \in U : i <= j
    <3>1. U \subseteq Nat
      OBVIOUS
    <3> HIDE DEF U
    <3> QED
      BY <1>2, <3>1, LeastElement
  <2>2. i \in DOMAIN ms /\ ms[i].user
    BY <1>0, <2>1
  <2>3. \A j \in 1 .. i - 1 : ~ms[j].user
    BY <1>0, <2>1
  <2> DEFINE first == CHOOSE k \in DOMAIN ms : ms[k].user /\ \A j \in 1 .. k - 1 : ~ms[j].user
  <2>4. Intent(ms) = first
    BY <2>2 DEF Intent
  <2>5. first \in DOMAIN ms /\ ms[first].user /\ \A j \in 1 .. first - 1 : ~ms[j].user
    BY <2>2, <2>3
  <2> HIDE DEF first
  <2> QED
    BY <1>0, <2>4, <2>5
<1> QED
  BY <1>1, <1>2

\* The messages of a list are some of the conversation c, in its order: all that are pinned in
\* it, and the recent turns are the same.
Follows(c, ms, r) ==
  /\ \A i \in 1 .. Len(ms) : /\ ms[i].id \in 1 .. Len(c)
                             /\ ms[i].user = c[ms[i].id].user
                             /\ ms[i].pinned = c[ms[i].id].pinned
  /\ \A i \in 1 .. Len(ms), j \in 1 .. Len(ms) : i < j => ms[i].id < ms[j].id
  /\ \A k \in PinnedOf(c, r) : \E i \in 1 .. Len(ms) : ms[i].id = k
  /\ \A i \in 1 .. Len(ms) : i \in RecentOf(ms, r) <=> ms[i].id \in RecentOf(c, r)

\* So the same messages are pinned in both.
LEMMA PinnedAlike ==
  ASSUME NEW c \in Seq(Messages), NEW ms \in Seq(Messages), NEW r \in Nat, Follows(c, ms, r)
  PROVE  \A i \in 1 .. Len(ms) : /\ i = Intent(ms) <=> ms[i].id = Intent(c)
                                 /\ i \in PinnedOf(ms, r) <=> ms[i].id \in PinnedOf(c, r)
<1> DEFINE n == Len(ms)
           N == Len(c)
<1>0. n \in Nat /\ N \in Nat /\ DOMAIN ms = 1 .. n /\ DOMAIN c = 1 .. N
  OBVIOUS
<1>1. /\ \A i \in 1 .. n : ms[i].id \in 1 .. N /\ ms[i].user = c[ms[i].id].user /\ ms[i].pinned = c[ms[i].id].pinned
      /\ \A i \in 1 .. n, j \in 1 .. n : i < j => ms[i].id < ms[j].id
      /\ \A k \in PinnedOf(c, r) : \E i \in 1 .. n : ms[i].id = k
      /\ \A i \in 1 .. n : i \in RecentOf(ms, r) <=> ms[i].id \in RecentOf(c, r)
  BY DEF Follows
<1>2. /\ \/ Intent(ms) = 0 /\ \A i \in 1 .. n : ~ms[i].user
         \/ Intent(ms) \in 1 .. n /\ ms[Intent(ms)].user /\ \A j \in 1 .. Intent(ms) - 1 : ~ms[j].user
      /\ \/ Intent(c) = 0 /\ \A i \in 1 .. N : ~c[i].user
         \/ Intent(c) \in 1 .. N /\ c[Intent(c)].user /\ \A j \in 1 .. Intent(c) - 1 : ~c[j].user
  BY IntentIs
<1>3. Intent(c) # 0 => Intent(c) \in PinnedOf(c, r)
  BY DEF PinnedOf
<1> DEFINE a == Intent(ms)
           b == Intent(c)
<1> HIDE DEF n, N, a, b
<1>4. ASSUME NEW i \in 1 .. n PROVE i = a <=> ms[i].id = b
  <2>1. CASE b = 0
    <3>1. \A j \in 1 .. n : ~ms[j].user
      BY <1>1, <1>2, <2>1 DEF b
    <3>2. a = 0
      BY <1>2, <3>1 DEF a
    <3> QED
      BY <1>0, <1>1, <2>1, <3>2
  <2>2. CASE b # 0
    <3>1. PICK k \in 1 .. n : ms[k].id = b
      BY <1>1, <1>3, <2>2 DEF b
    <3>2. b \in 1 .. N /\ c[b].user /\ \A j \in 1 .. b - 1 : ~c[j].user
      BY <1>2, <2>2 DEF b
    <3>3. ms[k].user
      BY <1>1, <3>1, <3>2
    <3>4. \A j \in 1 .. n : j < k => ~ms[j].user
      <4> TAKE j \in 1 .. n
      <4> HAVE j < k
      <4>1. ms[j].id < b /\ ms[j].id \in 1 .. N
        BY <1>1, <3>1
      <4>2. ms[j].id \in 1 .. b - 1
        BY <1>0, <3>2, <4>1
      <4> QED
        BY <1>1, <3>2, <4>2
    <3>5. a \in 1 .. n /\ ms[a].user /\ \A j \in 1 .. a - 1 : ~ms[j].user
      BY <1>2, <3>3 DEF a
    <3>6. a = k
      BY <1>0, <3>3, <3>4, <3>5
    <3>7. ms[i].id = b => i = k
      <4>1. ms[i].id \in Nat /\ ms[k].id \in Nat
        BY <1>0, <1>1
      <4> QED
        BY <1>0, <1>1, <3>1, <4>1
    <3> QED
      BY <3>1, <3>6, <3>7
  <2> QED
    BY <2>1, <2>2
<1>5. ASSUME NEW i \in 1 .. n PROVE i \in PinnedOf(ms, r) <=> ms[i].id \in PinnedOf(c, r)
  <2>1. i \in PinnedOf(ms, r) <=> ms[i].pinned \/ i = a \/ i \in RecentOf(ms, r)
    BY <1>0 DEF PinnedOf, a
  <2>2. ms[i].id \in PinnedOf(c, r) <=> c[ms[i].id].pinned \/ ms[i].id = b \/ ms[i].id \in RecentOf(c, r)
    <3>1. ms[i].id \in 1 .. N /\ ms[i].id # 0
      BY <1>0, <1>1
    <3> QED
      BY <1>0, <3>1 DEF PinnedOf, b
  <2>3. ms[i].pinned = c[ms[i].id].pinned
    BY <1>1
  <2>4. i \in RecentOf(ms, r) <=> ms[i].id \in RecentOf(c, r)
    BY <1>1
  <2> QED
    BY <1>4, <2>1, <2>2, <2>3, <2>4
<1> QED
  BY <1>4, <1>5 DEF n, a, b

\* What a stage changes in the messages makes no difference to that.
LEMMA SameMarks ==
  ASSUME NEW ms \in Seq(Messages), NEW ns \in Seq(Messages), Len(ns) = Len(ms), NEW r \in Nat,
         \A i \in 1 .. Len(ms) : ns[i].id = ms[i].id /\ ns[i].user = ms[i].user /\ ns[i].pinned = ms[i].pinned
  PROVE  /\ Intent(ns) = Intent(ms) /\ RecentOf(ns, r) = RecentOf(ms, r)
         /\ PinnedOf(ns, r) = PinnedOf(ms, r)
         /\ \A c \in Seq(Messages) : Follows(c, ms, r) => Follows(c, ns, r)
<1> DEFINE n == Len(ms)
<1>0. n \in Nat /\ DOMAIN ms = 1 .. n /\ DOMAIN ns = 1 .. n /\ Len(ns) = n
  OBVIOUS
<1>1. /\ \/ Intent(ms) = 0 /\ \A i \in 1 .. n : ~ms[i].user
         \/ Intent(ms) \in 1 .. n /\ ms[Intent(ms)].user /\ \A j \in 1 .. Intent(ms) - 1 : ~ms[j].user
      /\ \/ Intent(ns) = 0 /\ \A i \in 1 .. n : ~ns[i].user
         \/ Intent(ns) \in 1 .. n /\ ns[Intent(ns)].user /\ \A j \in 1 .. Intent(ns) - 1 : ~ns[j].user
  BY IntentIs
<1>2. Intent(ns) = Intent(ms)
  <2> DEFINE a == Intent(ms)
             b == Intent(ns)
  <2>1. \A i \in 1 .. n : ns[i].user = ms[i].user
    OBVIOUS
  <2>2. CASE a = 0
    BY <1>1, <2>1, <2>2
  <2>3. CASE a \in 1 .. n /\ b = 0
    BY <1>0, <1>1, <2>1, <2>3
  <2>4. CASE a \in 1 .. n /\ b \in 1 .. n
    <3>1. ms[a].user /\ ns[b].user /\ (\A j \in 1 .. a - 1 : ~ms[j].user) /\ (\A j \in 1 .. b - 1 : ~ns[j].user)
      BY <1>0, <1>1, <2>4
    <3> HIDE DEF a, b, n
    <3>2. ~ (a < b)
      BY <1>0, <2>1, <2>4, <3>1
    <3>3. ~ (b < a)
      BY <1>0, <2>1, <2>4, <3>1
    <3>4. a = b
      BY <1>0, <2>4, <3>2, <3>3
    <3> QED
      BY <3>4 DEF a, b
  <2> QED
    BY <1>1, <2>2, <2>3, <2>4
<1>3. RecentOf(ns, r) = RecentOf(ms, r)
  BY <1>0 DEF RecentOf
<1>4. PinnedOf(ns, r) = PinnedOf(ms, r)
  <2>1. {i \in DOMAIN ns : ns[i].pinned} = {i \in DOMAIN ms : ms[i].pinned}
    BY <1>0
  <2> QED
    BY <1>2, <1>3, <2>1 DEF PinnedOf
<1>5. ASSUME NEW c \in Seq(Messages), Follows(c, ms, r) PROVE Follows(c, ns, r)
  BY <1>0, <1>3, <1>5 DEF Follows
<1> QED
  BY <1>2, <1>3, <1>4, <1>5

\* Nor does it that some others are forgotten; and when those were all the others, what is left
\* is pinned.
LEMMA RebuiltFollows ==
  ASSUME NEW c \in Seq(Messages), NEW ms \in Seq(Messages), NEW r \in Nat, Follows(c, ms, r),
         NEW gone \in SUBSET ((1 .. Len(ms)) \ PinnedOf(ms, r))
  PROVE  LET ns == Rebuilt(ms, gone)
         IN  /\ Follows(c, ns, r)
             /\ (1 .. Len(ms)) \ PinnedOf(ms, r) \subseteq gone => (1 .. Len(ns)) \ PinnedOf(ns, r) = {}
<1> DEFINE n == Len(ms)
           m == KeptUpTo(gone, n)
           ns == Rebuilt(ms, gone)
           K(i) == KeptUpTo(gone, i)
           Left == (1 .. n) \ gone
<1>0. n \in Nat /\ DOMAIN ms = 1 .. n
  OBVIOUS
<1>1. /\ ns \in Seq(Messages) /\ Len(ns) = m /\ m \in Nat
      /\ \A k \in 1 .. m : \E i \in Left : K(i) = k /\ ns[k] = ms[i]
      /\ \A i \in Left : K(i) \in 1 .. m /\ ns[K(i)] = ms[i]
  BY RebuiltIs
<1>2. /\ \A i \in 1 .. n : ms[i].id \in 1 .. Len(c) /\ ms[i].user = c[ms[i].id].user /\ ms[i].pinned = c[ms[i].id].pinned
      /\ \A i \in 1 .. n, j \in 1 .. n : i < j => ms[i].id < ms[j].id
      /\ \A k \in PinnedOf(c, r) : \E i \in 1 .. n : ms[i].id = k
      /\ \A i \in 1 .. n : i \in RecentOf(ms, r) <=> ms[i].id \in RecentOf(c, r)
  BY DEF Follows
<1>3. \A i \in 1 .. n : i \in PinnedOf(ms, r) <=> ms[i].id \in PinnedOf(c, r)
  BY PinnedAlike
<1>4. \A i \in 1 .. n : i > n - r => i \in RecentOf(ms, r) /\ i \notin gone
  BY <1>0 DEF RecentOf, PinnedOf
<1>5. \A i \in 1 .. n : i \in RecentOf(ms, r) <=> i > n - r
  BY <1>0 DEF RecentOf
<1>6. \A k \in 1 .. m : k \in RecentOf(ns, r) <=> k > m - r
  BY <1>1 DEF RecentOf
<1>7. \A i \in Nat, j \in Nat : i <= j => K(i) <= K(j)
  BY KeptGrows
<1>8. \A i \in Nat : K(i) \in Nat
  BY KeptCounts
<1>9. \A i \in 0 .. n : (\A j \in i + 1 .. n : j \notin gone) => m - K(i) = n - i
  BY <1>0, KeptTail
<1>10. m = K(n)
  OBVIOUS
<1> HIDE DEF ns, K, m, n, Left
<1>a. Left = (1 .. n) \ gone
  BY DEF Left, n
<1>11. ASSUME NEW k \in 1 .. m
       PROVE  ns[k].id \in 1 .. Len(c) /\ ns[k].user = c[ns[k].id].user /\ ns[k].pinned = c[ns[k].id].pinned
  <2>1. PICK i \in Left : K(i) = k /\ ns[k] = ms[i]
    BY <1>1
  <2>2. i \in 1 .. n
    BY <1>a
  <2> QED
    BY <1>2, <2>1, <2>2
<1>12. ASSUME NEW k \in 1 .. m, NEW l \in 1 .. m, k < l PROVE ns[k].id < ns[l].id
  <2>1. PICK i \in Left : K(i) = k /\ ns[k] = ms[i]
    BY <1>1
  <2>2. PICK j \in Left : K(j) = l /\ ns[l] = ms[j]
    BY <1>1
  <2>3. i \in 1 .. n /\ j \in 1 .. n /\ i \in Nat /\ j \in Nat
    BY <1>0, <1>a
  <2>4. ~ (j <= i)
    BY <1>1, <1>7, <1>12, <2>1, <2>2, <2>3
  <2> QED
    BY <1>2, <2>1, <2>2, <2>3, <2>4
<1>13. ASSUME NEW k \in PinnedOf(c, r) PROVE \E l \in 1 .. m : ns[l].id = k
  <2>1. PICK i \in 1 .. n : ms[i].id = k
    BY <1>2
  <2>2. i \in PinnedOf(ms, r)
    BY <1>3, <2>1
  <2>3. i \in Left
    BY <1>a, <2>2
  <2> QED
    BY <1>1, <2>1, <2>3
<1>14. ASSUME NEW k \in 1 .. m PROVE k \in RecentOf(ns, r) <=> ns[k].id \in RecentOf(c, r)
  <2>1. PICK i \in Left : K(i) = k /\ ns[k] = ms[i]
    BY <1>1
  <2>2. i \in 1 .. n /\ i \in 0 .. n /\ i \in Nat
    BY <1>0, <1>a
  <2>3. ASSUME i > n - r PROVE k > m - r
    <3>1. \A j \in i + 1 .. n : j \notin gone
      BY <1>0, <1>4, <2>2, <2>3
    <3>2. m - k = n - i
      BY <1>9, <2>1, <2>2, <3>1
    <3> QED
      BY <1>0, <1>1, <2>2, <2>3, <3>2
  <2>4. ASSUME ~ (i > n - r) PROVE ~ (k > m - r)
    <3>1. n - r \in 0 .. n /\ i <= n - r
      BY <1>0, <2>2, <2>4
    <3>2. \A j \in n - r + 1 .. n : j \notin gone
      BY <1>0, <1>4, <3>1
    <3>3. m - K(n - r) = r
      BY <1>0, <1>9, <3>1, <3>2
    <3>4. k <= K(n - r) /\ K(n - r) \in Nat
      BY <1>7, <1>8, <2>1, <2>2, <3>1
    <3> QED
      BY <1>1, <3>3, <3>4
  <2>5. k \in RecentOf(ns, r) <=> i \in RecentOf(ms, r)
    BY <1>5, <1>6, <2>2, <2>3, <2>4
  <2> QED
    BY <1>2, <2>1, <2>2, <2>5
<1>15. Follows(c, ns, r)
  BY <1>1, <1>11, <1>12, <1>13, <1>14 DEF Follows
<1>16. ASSUME (1 .. n) \ PinnedOf(ms, r) \subseteq gone, NEW k \in 1 .. m PROVE k \in PinnedOf(ns, r)
  <2>1. PICK i \in Left : K(i) = k /\ ns[k] = ms[i]
    BY <1>1
  <2>2. i \in 1 .. n /\ i \in PinnedOf(ms, r)
    BY <1>16, <1>a
  <2>3. ns[k].id \in PinnedOf(c, r)
    BY <1>3, <2>1, <2>2
  <2> QED
    BY <1>1, <1>15, <2>3, PinnedAlike
<1> QED
  BY <1>1, <1>15, <1>16 DEF ns, n

-----------------------------------------------------------------------------
(* The invariant of compression.                                           *)
(*                                                                         *)
(* That nothing is counted twice or not at all, and that what is pinned is *)
(* kept, need that the list follows the conversation; that a recent turn   *)
(* may be cut by the last resort only, which has nothing else to take      *)
(* from; and that the last resort is reached with nothing else left, which *)
(* pinnedOnly says only when it was set by the same pass.                  *)

CtxTypes ==
  /\ stage \in Stages
  /\ chat \in Seq(Messages) /\ \A i \in 1 .. Len(chat) : chat[i].id = i
  /\ msgs \in Seq(Messages)
  /\ options \in [recent : Nat, llm : BOOLEAN, forget : BOOLEAN, native : BOOLEAN]
  /\ pass \in {1, 2}
  /\ pinnedOnly \in BOOLEAN
  /\ position \in 1 .. Len(msgs) + 1
  /\ seen \subseteq 1 .. Len(msgs)
  /\ dropped \subseteq Removable(msgs)

MayCut == stage \in {"last", "done"} /\ ~NativePass /\ Removable(msgs) = {}
IsKept ==
  \A i \in 1 .. Len(msgs) :
    msgs[i].id \in PinnedOf(chat, options.recent) =>
      \/ msgs[i] = chat[msgs[i].id]
      \/ /\ MayCut
         /\ msgs[i].id \in RecentOf(chat, options.recent) \ {Intent(chat)}
         /\ msgs[i].form = "cut"

Staged ==
  /\ stage # "forget" => dropped = {}
  /\ stage # "dedup" => seen = {}
  /\ stage \in {"idle", "llm", "forget", "check"} => position = 1
  /\ stage \notin {"check", "last", "done"} \/ NativePass => ~pinnedOnly
  /\ stage = "check" /\ pinnedOnly => Removable(msgs) = {}
  /\ stage = "last" => Removable(msgs) = {} /\ ~NativePass

CtxInv ==
  CtxTypes /\ TotalIsTrue /\ Follows(chat, msgs, options.recent) /\ IsKept /\ Staged

LEMMA CtxInvInit == CtxInit => CtxInv
<1> SUFFICES ASSUME CtxInit PROVE CtxInv
  OBVIOUS
<1>1. /\ stage = "idle" /\ chat = <<>> /\ msgs = <<>> /\ total = 0 /\ position = 1 /\ seen = {} /\ dropped = {}
      /\ options = [recent |-> 0, llm |-> FALSE, forget |-> FALSE, native |-> FALSE]
      /\ pinnedOnly = FALSE /\ pass = 1
  BY DEF CtxInit
<1>2. <<>> \in Seq(Messages) /\ Len(<<>>) = 0 /\ options.recent = 0
  BY <1>1
<1>3. CtxTypes
  <2>1. Len(msgs) = 0 /\ Len(chat) = 0 /\ 1 \in 1 .. Len(msgs) + 1
    BY <1>1, <1>2
  <2>2. \A i \in 1 .. Len(chat) : chat[i].id = i
    BY <2>1
  <2>3. options \in [recent : Nat, llm : BOOLEAN, forget : BOOLEAN, native : BOOLEAN]
    BY <1>1
  <2> QED
    BY <1>1, <1>2, <2>1, <2>2, <2>3 DEF CtxTypes, Stages
<1>4. Follows(<<>>, <<>>, 0)
  <2>1. Intent(<<>>) = 0
    <3>1. \/ Intent(<<>>) = 0
          \/ Intent(<<>>) \in 1 .. Len(<<>>)
      BY <1>2, IntentIs
    <3>2. 1 .. Len(<<>>) = {}
      BY <1>2
    <3> QED
      BY <3>1, <3>2
  <2>2. RecentOf(<<>>, 0) = {}
    BY DEF RecentOf
  <2>3. PinnedOf(<<>>, 0) = {}
    BY <2>1, <2>2 DEF PinnedOf
  <2> QED
    BY <1>2, <2>3 DEF Follows
<1>5. TotalIsTrue
  <2>1. PICK g : Sums(g, <<>>, DOMAIN msgs \ dropped, 0) /\ SumOf(<<>>, DOMAIN msgs \ dropped) = g[0]
    BY <1>2, SumIs
  <2>2. g[0] = 0
    BY <2>1 DEF Sums
  <2> QED
    BY <1>1, <2>1, <2>2 DEF TotalIsTrue
<1>6. IsKept
  BY <1>1, <1>2 DEF IsKept
<1>7. Staged
  BY <1>1 DEF Staged, NativePass
<1> QED
  BY <1>1, <1>2, <1>3, <1>4, <1>5, <1>6, <1>7 DEF CtxInv

\* A step that leaves the conversation and the marks of its messages alone.
LEMMA MarksStay ==
  ASSUME CtxInv, UNCHANGED <<chat, options>>,
         msgs' \in Seq(Messages), Len(msgs') = Len(msgs),
         \A i \in 1 .. Len(msgs) : /\ msgs'[i].id = msgs[i].id /\ msgs'[i].user = msgs[i].user
                                   /\ msgs'[i].pinned = msgs[i].pinned
  PROVE  /\ Follows(chat', msgs', options'.recent)
         /\ Removable(msgs)' = Removable(msgs) /\ Recent(msgs)' = Recent(msgs) /\ Intent(msgs') = Intent(msgs)
         /\ PinnedOf(chat', options'.recent) = PinnedOf(chat, options.recent)
         /\ RecentOf(chat', options'.recent) = RecentOf(chat, options.recent)
<1> DEFINE r == options.recent
<1>1. /\ msgs \in Seq(Messages) /\ chat \in Seq(Messages) /\ r \in Nat /\ chat' = chat /\ options'.recent = r
      /\ Follows(chat, msgs, r)
  BY DEF CtxInv, CtxTypes
<1> HIDE DEF r
<1>2. /\ Intent(msgs') = Intent(msgs) /\ RecentOf(msgs', r) = RecentOf(msgs, r) /\ PinnedOf(msgs', r) = PinnedOf(msgs, r)
      /\ Follows(chat, msgs', r)
  BY <1>1, SameMarks
<1>3. Recent(msgs)' = RecentOf(msgs', options'.recent) /\ Recent(msgs) = RecentOf(msgs, options.recent)
  BY DEF Recent, RecentOf
<1>4. /\ Removable(msgs)' = DOMAIN msgs' \ PinnedOf(msgs', options'.recent)
      /\ Removable(msgs) = DOMAIN msgs \ PinnedOf(msgs, options.recent)
  BY <1>3 DEF Removable, Pinned, PinnedOf
<1>5. DOMAIN msgs' = DOMAIN msgs
  BY <1>1
<1> QED
  BY <1>1, <1>2, <1>3, <1>4, <1>5 DEF r

\* As long as the recent turns are not cut yet, nothing that is pinned is changed.
LEMMA StaysKept ==
  ASSUME CtxInv, UNCHANGED <<chat, options>>, ~MayCut,
         msgs' \in Seq(Messages), Len(msgs') = Len(msgs),
         \A i \in 1 .. Len(msgs) : /\ msgs'[i].id = msgs[i].id /\ msgs'[i].user = msgs[i].user
                                   /\ msgs'[i].pinned = msgs[i].pinned,
         \A i \in 1 .. Len(msgs) : i \notin Removable(msgs) => msgs'[i] = msgs[i]
  PROVE  IsKept'
<1>1. /\ msgs \in Seq(Messages) /\ chat \in Seq(Messages) /\ options.recent \in Nat /\ chat' = chat
      /\ Follows(chat, msgs, options.recent) /\ IsKept
  BY DEF CtxInv, CtxTypes
<1>2. PinnedOf(chat', options'.recent) = PinnedOf(chat, options.recent)
  BY MarksStay
<1>3. \A i \in 1 .. Len(msgs) : msgs[i].id \in PinnedOf(chat, options.recent) => msgs[i] = chat[msgs[i].id]
  BY <1>1 DEF IsKept
<1>4. \A i \in 1 .. Len(msgs) : msgs[i].id \in PinnedOf(chat, options.recent) => i \notin Removable(msgs)
  BY <1>1, PinnedAlike, OfOptions
<1>5. \A i \in 1 .. Len(msgs') : msgs'[i].id \in PinnedOf(chat', options'.recent) => msgs'[i] = chat'[msgs'[i].id]
  BY <1>1, <1>2, <1>3, <1>4
<1> QED
  BY <1>5 DEF IsKept

LEMMA Replaced ==
  ASSUME CtxInv, dropped = {}, NEW i \in 1 .. Len(msgs), NEW form \in Forms, NEW of \in Nat, NEW size \in Nat \ {0},
         Replace(i, form, of, size)
  PROVE  /\ msgs' \in Seq(Messages) /\ Len(msgs') = Len(msgs)
         /\ \A j \in 1 .. Len(msgs) : /\ msgs'[j].id = msgs[j].id /\ msgs'[j].user = msgs[j].user
                                      /\ msgs'[j].pinned = msgs[j].pinned
         /\ \A j \in 1 .. Len(msgs) : j # i => msgs'[j] = msgs[j]
         /\ msgs'[i].form = form
         /\ total' = SumOf(msgs', DOMAIN msgs')
<1> DEFINE n == Len(msgs)
           new == [msgs[i] EXCEPT !.form = form, !.of = of, !.size = size]
<1>1. msgs \in Seq(Messages) /\ n \in Nat /\ DOMAIN msgs = 1 .. n /\ msgs[i] \in Messages
  BY DEF CtxInv, CtxTypes
<1>2. /\ new \in Messages /\ new.id = msgs[i].id /\ new.user = msgs[i].user /\ new.pinned = msgs[i].pinned
      /\ new.form = form /\ new.size = size
  BY <1>1 DEF Messages
<1>3. msgs' = [msgs EXCEPT ![i] = new]
  BY <1>1 DEF Replace, Messages
<1> HIDE DEF new
<1>4. msgs' \in Seq(Messages) /\ Len(msgs') = n /\ DOMAIN msgs' = 1 .. n
  BY <1>1, <1>2, <1>3
<1>5. msgs'[i] = new /\ \A j \in 1 .. n : j # i => msgs'[j] = msgs[j]
  BY <1>1, <1>3
<1>6. SumOf(msgs', 1 .. n) = SumOf(msgs, 1 .. n) - Part(msgs, 1 .. n, i) + Part(msgs', 1 .. n, i)
  <2>1. \A j \in 1 .. n : j # i => Part(msgs', 1 .. n, j) = Part(msgs, 1 .. n, j)
    BY <1>5 DEF Part
  <2> QED
    BY <1>1, <1>4, <2>1, SumDiffers
<1>7. Part(msgs, 1 .. n, i) = msgs[i].size /\ Part(msgs', 1 .. n, i) = size
  BY <1>2, <1>5 DEF Part
<1>8. total = SumOf(msgs, 1 .. n)
  <2>1. DOMAIN msgs \ dropped = 1 .. n
    BY <1>1
  <2> QED
    BY <2>1 DEF CtxInv, TotalIsTrue
<1>9. total' = SumOf(msgs', DOMAIN msgs')
  BY <1>4, <1>6, <1>7, <1>8 DEF Replace
<1> QED
  BY <1>2, <1>4, <1>5, <1>9

LEMMA CutSizeNat == \A n \in Nat : CutSize(n) \in Nat \ {0}
BY CompressSizes DEF CutSize

\* A stage that replaces at most one message that is not pinned.
LEMMA StageKeeps ==
  ASSUME CtxInv, UNCHANGED <<chat, options, dropped, pass, pinnedOnly>>,
         stage \in {"truncate", "dedup", "digest"},
         stage' \in {"truncate", "dedup", "digest", "llm", "forget", "check"},
         stage' # "dedup" => seen' = {},
         stage' \in {"llm", "forget", "check"} => position' = 1,
         position' \in 1 .. Len(msgs) + 1, seen' \subseteq 1 .. Len(msgs),
         \/ UNCHANGED <<msgs, total>>
         \/ \E i \in Removable(msgs), form \in Forms, of \in Nat, size \in Nat \ {0} : Replace(i, form, of, size)
  PROVE  CtxInv'
<1>1. msgs \in Seq(Messages) /\ DOMAIN msgs = 1 .. Len(msgs) /\ dropped = {} /\ ~MayCut /\ ~pinnedOnly
  BY DEF CtxInv, CtxTypes, Staged, MayCut
<1> DEFINE OthersStay ==
             /\ msgs' \in Seq(Messages) /\ Len(msgs') = Len(msgs)
             /\ \A i \in 1 .. Len(msgs) : /\ msgs'[i].id = msgs[i].id /\ msgs'[i].user = msgs[i].user
                                          /\ msgs'[i].pinned = msgs[i].pinned
             /\ \A i \in 1 .. Len(msgs) : i \notin Removable(msgs) => msgs'[i] = msgs[i]
             /\ total' = SumOf(msgs', DOMAIN msgs')
<1>2. OthersStay
  <2>1. CASE UNCHANGED <<msgs, total>>
    <3>1. total = SumOf(msgs, DOMAIN msgs)
      <4>1. DOMAIN msgs \ dropped = DOMAIN msgs
        BY <1>1
      <4> QED
        BY <4>1 DEF CtxInv, TotalIsTrue
    <3> QED
      BY <1>1, <2>1, <3>1
  <2>2. ASSUME NEW i \in Removable(msgs), NEW form \in Forms, NEW of \in Nat, NEW size \in Nat \ {0},
               Replace(i, form, of, size)
        PROVE  OthersStay
    <3>1. i \in 1 .. Len(msgs)
      BY <1>1 DEF Removable
    <3> QED
      BY <1>1, <2>2, <3>1, Replaced
  <2> QED
    BY <2>1, <2>2
<1>3. /\ Follows(chat', msgs', options'.recent)
      /\ Removable(msgs)' = Removable(msgs)
  BY <1>2, MarksStay
<1>4. IsKept'
  BY <1>1, <1>2, StaysKept
<1>5. TotalIsTrue'
  <2>1. DOMAIN msgs' \ dropped' = DOMAIN msgs'
    BY <1>1
  <2> QED
    BY <1>2, <2>1 DEF TotalIsTrue
<1>6. CtxTypes'
  BY <1>1, <1>2, <1>3 DEF CtxInv, CtxTypes, Stages
<1>7. Staged'
  BY <1>1, <1>3 DEF Staged
<1> QED
  BY <1>3, <1>4, <1>5, <1>6, <1>7 DEF CtxInv

LEMMA TruncateKeeps == CtxInv /\ Truncate => CtxInv'
<1> SUFFICES ASSUME CtxInv, Truncate PROVE CtxInv'
  OBVIOUS
<1>1. /\ msgs \in Seq(Messages) /\ Len(msgs) \in Nat /\ position \in 1 .. Len(msgs) + 1 /\ seen = {} /\ stage = "truncate"
      /\ UNCHANGED <<chat, options, dropped, pass, pinnedOnly>>
  BY DEF CtxInv, CtxTypes, Staged, Truncate
<1>2. CASE After("truncate") /\ UNCHANGED <<msgs, total>>
  BY <1>1, <1>2, StageKeeps DEF After
<1>3. CASE /\ ~ (position > Len(msgs))
           /\ position' = position + 1 /\ UNCHANGED <<stage, seen>>
           /\ IF position \in Removable(msgs) /\ CanCut(msgs[position])
              THEN Replace(position, "cut", msgs[position].of, CutSize(msgs[position].size))
              ELSE UNCHANGED <<msgs, total>>
  <2>1. msgs[position] \in Messages /\ position' \in 1 .. Len(msgs) + 1
    BY <1>1, <1>3
  <2>2. msgs[position].of \in Nat /\ CutSize(msgs[position].size) \in Nat \ {0} /\ "cut" \in Forms
    BY <2>1, CutSizeNat DEF Messages, Forms
  <2>3. \/ UNCHANGED <<msgs, total>>
        \/ \E i \in Removable(msgs), form \in Forms, of \in Nat, size \in Nat \ {0} : Replace(i, form, of, size)
    BY <1>3, <2>2
  <2> QED
    BY <1>1, <1>3, <2>1, <2>3, StageKeeps
<1> QED
  BY <1>2, <1>3 DEF Truncate

LEMMA DigestKeeps == CtxInv /\ Digest => CtxInv'
<1> SUFFICES ASSUME CtxInv, Digest PROVE CtxInv'
  OBVIOUS
<1>1. /\ msgs \in Seq(Messages) /\ Len(msgs) \in Nat /\ position \in 1 .. Len(msgs) + 1 /\ seen = {} /\ stage = "digest"
      /\ UNCHANGED <<chat, options, dropped, pass, pinnedOnly>>
  BY DEF CtxInv, CtxTypes, Staged, Digest
<1>2. CASE After("digest") /\ UNCHANGED <<msgs, total>>
  BY <1>1, <1>2, StageKeeps DEF After
<1>3. CASE /\ ~ (position > Len(msgs))
           /\ position' = position + 1 /\ UNCHANGED <<stage, seen>>
           /\ IF position \in Removable(msgs) /\ DigestSize < msgs[position].size
              THEN Replace(position, "digest", msgs[position].of, DigestSize)
              ELSE UNCHANGED <<msgs, total>>
  <2>1. msgs[position] \in Messages /\ position' \in 1 .. Len(msgs) + 1
    BY <1>1, <1>3
  <2>2. msgs[position].of \in Nat /\ DigestSize \in Nat \ {0} /\ "digest" \in Forms
    BY <2>1, CompressSizes DEF Messages, Forms
  <2>3. \/ UNCHANGED <<msgs, total>>
        \/ \E i \in Removable(msgs), form \in Forms, of \in Nat, size \in Nat \ {0} : Replace(i, form, of, size)
    BY <1>3, <2>2
  <2> QED
    BY <1>1, <1>3, <2>1, <2>3, StageKeeps
<1> QED
  BY <1>2, <1>3 DEF Digest

LEMMA DedupKeeps == CtxInv /\ Dedup => CtxInv'
<1> SUFFICES ASSUME CtxInv, Dedup PROVE CtxInv'
  OBVIOUS
<1>1. /\ msgs \in Seq(Messages) /\ Len(msgs) \in Nat /\ position \in 1 .. Len(msgs) + 1
      /\ seen \subseteq 1 .. Len(msgs) /\ stage = "dedup"
      /\ UNCHANGED <<chat, options, dropped, pass, pinnedOnly>>
  BY DEF CtxInv, CtxTypes, Staged, Dedup
<1>2. CASE After("dedup") /\ UNCHANGED <<msgs, total>>
  BY <1>1, <1>2, StageKeeps DEF After
<1> DEFINE same == {i \in seen : Content(msgs[i]) = Content(msgs[position])}
<1>3. CASE /\ ~ (position > Len(msgs))
           /\ seen' = seen \cup {position} \/ UNCHANGED seen
           /\ \/ UNCHANGED <<msgs, total>>
              \/ position \in Removable(msgs) /\ \E i \in same : Replace(position, "dup", i, MarkSize)
           /\ position' = position + 1 /\ UNCHANGED stage
  <2>0. position \in 1 .. Len(msgs) /\ position' \in 1 .. Len(msgs) + 1
    BY <1>1, <1>3
  <2>1. seen' \subseteq 1 .. Len(msgs)
    BY <1>1, <1>3, <2>0, Zenon
  <2>2. MarkSize \in Nat \ {0} /\ "dup" \in Forms /\ \A i \in same : i \in Nat
    BY <1>1, CompressSizes DEF Forms
  <2>3. \/ UNCHANGED <<msgs, total>>
        \/ \E i \in Removable(msgs), form \in Forms, of \in Nat, size \in Nat \ {0} : Replace(i, form, of, size)
    <3> HIDE DEF same
    <3> QED
      BY <1>3, <2>2
  <2> QED
    BY <1>1, <1>3, <2>0, <2>1, <2>3, StageKeeps
<1> QED
  BY <1>2, <1>3 DEF Dedup

\* A conversation follows itself.
LEMMA FollowsItself ==
  ASSUME NEW c \in Seq(Messages), \A i \in 1 .. Len(c) : c[i].id = i, NEW r \in Nat
  PROVE  Follows(c, c, r)
<1>1. Len(c) \in Nat /\ DOMAIN c = 1 .. Len(c)
  OBVIOUS
<1>2. PinnedOf(c, r) \subseteq 1 .. Len(c)
  <2>1. Intent(c) = 0 \/ Intent(c) \in 1 .. Len(c)
    BY IntentIs
  <2> QED
    BY <1>1, <2>1 DEF PinnedOf, RecentOf
<1> QED
  BY <1>1, <1>2 DEF Follows

LEMMA CompressKeeps == CtxInv /\ Compress => CtxInv'
<1> SUFFICES ASSUME CtxInv, Compress PROVE CtxInv'
  OBVIOUS
<1>1. PICK c \in Chats, o \in Options :
        /\ chat' = c /\ msgs' = c /\ options' = o
        /\ total' = SumOf(c, DOMAIN c)
        /\ stage' = (IF total' < Trigger THEN "done" ELSE "truncate")
  BY DEF Compress
<1>2. /\ stage = "idle" /\ dropped = {} /\ seen = {} /\ position = 1 /\ ~pinnedOnly
      /\ UNCHANGED <<position, seen, dropped, pinnedOnly, pass>>
  BY DEF Compress, CtxInv, Staged
<1>3. /\ c \in Seq(Messages) /\ DOMAIN c = 1 .. Len(c) /\ Len(c) \in Nat /\ \A i \in 1 .. Len(c) : c[i].id = i
      /\ o \in [recent : Nat, llm : BOOLEAN, forget : BOOLEAN, native : BOOLEAN]
  BY ChatsType, OptionsType
<1>4. stage' \in {"done", "truncate"}
  BY <1>1
<1>5. Follows(chat', msgs', options'.recent)
  BY <1>1, <1>3, FollowsItself
<1>6. TotalIsTrue'
  <2>1. DOMAIN c \ dropped' = DOMAIN c
    BY <1>2
  <2> QED
    BY <1>1, <2>1 DEF TotalIsTrue
<1>7. CtxTypes'
  BY <1>1, <1>2, <1>3, <1>4 DEF CtxInv, CtxTypes, Stages
<1>8. IsKept'
  BY <1>1, <1>3 DEF IsKept
<1>9. Staged'
  BY <1>2, <1>4 DEF Staged
<1> QED
  BY <1>5, <1>6, <1>7, <1>8, <1>9 DEF CtxInv

\* The summaries replace some messages that are not pinned.
LEMMA SummariesReplace ==
  ASSUME CtxInv, dropped = {}, NEW some \in SUBSET ToSummarize(msgs), NEW answers \in [some -> SummarySizes],
         Summaries(answers)
  PROVE  /\ msgs' \in Seq(Messages) /\ Len(msgs') = Len(msgs)
         /\ \A i \in 1 .. Len(msgs) : /\ msgs'[i].id = msgs[i].id /\ msgs'[i].user = msgs[i].user
                                      /\ msgs'[i].pinned = msgs[i].pinned
         /\ \A i \in 1 .. Len(msgs) : i \notin Removable(msgs) => msgs'[i] = msgs[i]
         /\ total' = SumOf(msgs', DOMAIN msgs')
<1> DEFINE n == Len(msgs)
           new(i) == [msgs[i] EXCEPT !.form = "summary", !.of = i, !.size = answers[i]]
<1>1. msgs \in Seq(Messages) /\ n \in Nat /\ DOMAIN msgs = 1 .. n /\ DOMAIN answers = some
  BY DEF CtxInv, CtxTypes
<1>2. some \subseteq Removable(msgs) /\ some \subseteq 1 .. n
  BY <1>1 DEF ToSummarize, Removable
<1>3. ASSUME NEW i \in some
      PROVE  /\ new(i) \in Messages /\ new(i).id = msgs[i].id /\ new(i).user = msgs[i].user
             /\ new(i).pinned = msgs[i].pinned
  <2>1. i \in Nat /\ msgs[i] \in Messages /\ answers[i] \in Nat \ {0}
    BY <1>1, <1>2, CompressSizes
  <2> QED
    BY <2>1 DEF Messages, Forms
<1>4. msgs' = [i \in 1 .. n |-> IF i \in some THEN new(i) ELSE msgs[i]]
  BY <1>1 DEF Summaries
<1> HIDE DEF new
<1>5. msgs' \in Seq(Messages) /\ Len(msgs') = n /\ DOMAIN msgs' = 1 .. n
  <2>1. msgs' \in [1 .. n -> Messages]
    BY <1>1, <1>2, <1>3, <1>4
  <2> QED
    BY <1>1, <2>1
<1>6. \A i \in 1 .. n : i \notin some => msgs'[i] = msgs[i]
  BY <1>4
<1>7. \A i \in 1 .. n : /\ msgs'[i].id = msgs[i].id /\ msgs'[i].user = msgs[i].user
                        /\ msgs'[i].pinned = msgs[i].pinned
  BY <1>3, <1>4
<1>8. SumOf(msgs', 1 .. n) = SumOf(msgs, 1 .. n) - SumOf(msgs, some) + SumOf(msgs', some)
  <2>1. \A i \in 1 .. n : i \notin some => msgs'[i].size = msgs[i].size
    BY <1>6
  <2> QED
    BY <1>1, <1>2, <1>5, <2>1, SumReplaced
<1>9. total = SumOf(msgs, 1 .. n)
  <2>1. DOMAIN msgs \ dropped = 1 .. n
    BY <1>1
  <2> QED
    BY <2>1 DEF CtxInv, TotalIsTrue
<1>10. total' = SumOf(msgs', DOMAIN msgs')
  BY <1>1, <1>5, <1>8, <1>9 DEF Summaries
<1> QED
  BY <1>2, <1>5, <1>6, <1>7, <1>10

LEMMA LlmKeeps == CtxInv /\ Llm => CtxInv'
<1> SUFFICES ASSUME CtxInv, Llm PROVE CtxInv'
  OBVIOUS
<1>1. /\ msgs \in Seq(Messages) /\ DOMAIN msgs = 1 .. Len(msgs) /\ dropped = {} /\ seen = {} /\ position = 1
      /\ ~MayCut /\ ~pinnedOnly /\ stage' \in {"forget", "check"}
      /\ UNCHANGED <<chat, options, position, seen, dropped, pinnedOnly, pass>>
  BY DEF CtxInv, CtxTypes, Staged, MayCut, Llm
<1> DEFINE OthersStay ==
             /\ msgs' \in Seq(Messages) /\ Len(msgs') = Len(msgs)
             /\ \A i \in 1 .. Len(msgs) : /\ msgs'[i].id = msgs[i].id /\ msgs'[i].user = msgs[i].user
                                          /\ msgs'[i].pinned = msgs[i].pinned
             /\ \A i \in 1 .. Len(msgs) : i \notin Removable(msgs) => msgs'[i] = msgs[i]
             /\ total' = SumOf(msgs', DOMAIN msgs')
<1>2. OthersStay
  <2>1. CASE UNCHANGED <<msgs, total>>
    <3>1. DOMAIN msgs \ dropped = DOMAIN msgs
      BY <1>1
    <3>2. total = SumOf(msgs, DOMAIN msgs)
      BY <3>1 DEF CtxInv, TotalIsTrue
    <3> QED
      BY <1>1, <2>1, <3>2
  <2>2. ASSUME NEW some \in SUBSET ToSummarize(msgs), NEW answers \in [some -> SummarySizes], Summaries(answers)
        PROVE  OthersStay
    BY <1>1, <2>2, SummariesReplace
  <2> QED
    BY <2>1, <2>2 DEF Llm
<1>3. /\ Follows(chat', msgs', options'.recent)
      /\ Removable(msgs)' = Removable(msgs)
  BY <1>1, <1>2, MarksStay
<1>4. IsKept'
  BY <1>1, <1>2, StaysKept
<1>5. TotalIsTrue'
  <2>1. DOMAIN msgs' \ dropped' = DOMAIN msgs'
    BY <1>1
  <2> QED
    BY <1>2, <2>1 DEF TotalIsTrue
<1>6. CtxTypes'
  BY <1>1, <1>2, <1>3 DEF CtxInv, CtxTypes, Stages
<1>7. Staged'
  BY <1>1, <1>3 DEF Staged
<1> QED
  BY <1>3, <1>4, <1>5, <1>6, <1>7 DEF CtxInv

LEMMA ForgetKeeps == CtxInv /\ Forget => CtxInv'
<1> SUFFICES ASSUME CtxInv, Forget PROVE CtxInv'
  OBVIOUS
<1>1. PICK i \in Removable(msgs) \ dropped : dropped' = dropped \cup {i} /\ total' = total - msgs[i].size
  BY DEF Forget
<1>2. /\ msgs \in Seq(Messages) /\ DOMAIN msgs = 1 .. Len(msgs) /\ Len(msgs) \in Nat
      /\ stage = "forget" /\ ~MayCut /\ ~pinnedOnly
      /\ UNCHANGED <<stage, chat, options, msgs, position, seen, pinnedOnly, pass>>
  BY DEF CtxInv, CtxTypes, Staged, MayCut, Forget
<1>3. /\ Follows(chat', msgs', options'.recent)
      /\ Removable(msgs)' = Removable(msgs)
  BY <1>2, MarksStay
<1>4. IsKept'
  BY <1>2, StaysKept
<1>5. TotalIsTrue'
  <2> DEFINE I == DOMAIN msgs \ dropped
             J == DOMAIN msgs \ dropped'
  <2>1. i \in 1 .. Len(msgs) /\ i \in I /\ J = I \ {i}
    BY <1>1, <1>2 DEF Removable
  <2>2. \A j \in 1 .. Len(msgs) : j # i => Part(msgs, J, j) = Part(msgs, I, j)
    BY <2>1 DEF Part
  <2>3. Part(msgs, I, i) = msgs[i].size /\ Part(msgs, J, i) = 0
    BY <2>1 DEF Part
  <2>4. SumOf(msgs, J) = SumOf(msgs, I) - Part(msgs, I, i) + Part(msgs, J, i)
    <3> HIDE DEF I, J
    <3> QED
      <4>1. msgs \in Seq(Messages) /\ i \in 1 .. Len(msgs)
        BY <1>2, <2>1
      <4>2. Len(msgs) = Len(msgs)
        OBVIOUS
      <4> QED
        BY <4>1, <4>2, <2>2, SumDiffers
  <2>5. total = SumOf(msgs, I)
    BY DEF CtxInv, TotalIsTrue
  <2>6. SumOf(msgs, I) \in Nat /\ msgs[i].size \in Nat
    <3>1. msgs[i] \in Messages
      BY <1>2, <2>1
    <3> QED
      BY <1>2, <3>1, SumNat DEF Messages
  <2>7. total' = SumOf(msgs, J)
    <3> HIDE DEF I, J
    <3> QED
      BY <1>1, <2>3, <2>4, <2>5, <2>6
  <2> QED
    BY <1>2, <2>7 DEF TotalIsTrue
<1>6. CtxTypes'
  BY <1>1, <1>2, <1>3 DEF CtxInv, CtxTypes, Stages
<1>7. Staged'
  BY <1>2, <1>3 DEF CtxInv, Staged
<1> QED
  BY <1>3, <1>4, <1>5, <1>6, <1>7 DEF CtxInv

LEMMA ForgottenKeeps == CtxInv /\ Forgotten => CtxInv'
<1> SUFFICES ASSUME CtxInv, Forgotten PROVE CtxInv'
  OBVIOUS
<1> DEFINE r == options.recent
           n == Len(msgs)
           Unpinned == (1 .. n) \ PinnedOf(msgs, r)
<1>1. /\ msgs \in Seq(Messages) /\ chat \in Seq(Messages) /\ r \in Nat /\ n \in Nat /\ DOMAIN msgs = 1 .. n
      /\ Follows(chat, msgs, r)
      /\ stage = "forget" /\ ~MayCut /\ seen = {} /\ position = 1
  BY DEF CtxInv, CtxTypes, Staged, MayCut, Forgotten
<1>2. /\ chat' = chat /\ options' = options /\ pass' = pass /\ seen' = {} /\ position' = 1 /\ total' = total
      /\ stage' = "check" /\ dropped' = {}
      /\ msgs' = Rebuilt(msgs, dropped)
      /\ pinnedOnly' = (Forgets /\ total > Target)
      /\ Forgets /\ total > Target => Removable(msgs) \subseteq dropped
  <2>1. total \in Nat /\ Target \in Nat
    <3>1. total = SumOf(msgs, DOMAIN msgs \ dropped)
      BY DEF CtxInv, TotalIsTrue
    <3> QED
      BY <1>1, <3>1, SumNat, CompressSizes
  <2> QED
    BY <1>1, <2>1 DEF Forgotten
<1>3. Removable(msgs) = Unpinned /\ dropped \subseteq Unpinned
  BY <1>1, OfOptions DEF CtxInv, CtxTypes
<1>4. /\ Follows(chat, msgs', r)
      /\ Unpinned \subseteq dropped => (1 .. Len(msgs')) \ PinnedOf(msgs', r) = {}
  BY <1>1, <1>2, <1>3, RebuiltFollows
<1>5. /\ msgs' \in Seq(Messages) /\ Len(msgs') \in Nat /\ DOMAIN msgs' = 1 .. Len(msgs')
      /\ \A k \in 1 .. Len(msgs') : \E i \in 1 .. n : msgs'[k] = msgs[i]
  BY <1>1, <1>2, RebuiltIs
<1>6. Removable(msgs)' = (1 .. Len(msgs')) \ PinnedOf(msgs', r)
  BY <1>2, <1>5 DEF Removable, Pinned, Recent, PinnedOf, RecentOf
<1>7. TotalIsTrue'
  <2>1. SumOf(msgs', 1 .. Len(msgs')) = SumOf(msgs, (1 .. n) \ dropped)
    BY <1>1, <1>2, SumRebuilt
  <2>2. DOMAIN msgs \ dropped = (1 .. n) \ dropped /\ DOMAIN msgs' \ dropped' = 1 .. Len(msgs')
    BY <1>1, <1>2, <1>5
  <2> QED
    BY <1>2, <2>1, <2>2 DEF CtxInv, TotalIsTrue
<1>8. IsKept'
  <2>1. \A i \in 1 .. n : msgs[i].id \in PinnedOf(chat, r) => msgs[i] = chat[msgs[i].id]
    BY <1>1 DEF CtxInv, IsKept
  <2>2. \A k \in 1 .. Len(msgs') : msgs'[k].id \in PinnedOf(chat, r) => msgs'[k] = chat[msgs'[k].id]
    BY <1>5, <2>1
  <2>3. \A k \in 1 .. Len(msgs') :
          msgs'[k].id \in PinnedOf(chat', options'.recent) => msgs'[k] = chat'[msgs'[k].id]
    BY <1>2, <2>2
  <2> QED
    BY <2>3 DEF IsKept
<1>9. CtxTypes'
  BY <1>1, <1>2, <1>5 DEF CtxInv, CtxTypes, Stages
<1>10. Staged'
  <2>1. pinnedOnly' => Removable(msgs)' = {}
    BY <1>2, <1>3, <1>4, <1>6
  <2>2. NativePass' => ~pinnedOnly'
    BY <1>2 DEF Forgets, NativePass
  <2> QED
    BY <1>2, <2>1, <2>2 DEF Staged
<1> QED
  BY <1>2, <1>4, <1>7, <1>8, <1>9, <1>10 DEF CtxInv

\* A step that leaves the messages alone, with nothing forgotten.
LEMMA ListStays ==
  ASSUME CtxInv, UNCHANGED <<chat, options, msgs, total, dropped, seen>>, MayCut => MayCut',
         pass' \in {1, 2}, pinnedOnly' \in BOOLEAN, position' \in 1 .. Len(msgs) + 1, stage' \in Stages
  PROVE  CtxTypes' /\ TotalIsTrue' /\ Follows(chat', msgs', options'.recent) /\ IsKept' /\ Removable(msgs)' = Removable(msgs)
<1>1. msgs \in Seq(Messages)
  BY DEF CtxInv, CtxTypes
<1>2. /\ Follows(chat', msgs', options'.recent)
      /\ Removable(msgs)' = Removable(msgs)
      /\ PinnedOf(chat', options'.recent) = PinnedOf(chat, options.recent)
      /\ RecentOf(chat', options'.recent) = RecentOf(chat, options.recent)
  BY <1>1, MarksStay
<1>3. CtxTypes'
  BY <1>2 DEF CtxInv, CtxTypes
<1>4. TotalIsTrue'
  BY DEF CtxInv, TotalIsTrue
<1>5. IsKept'
  <2>1. IsKept
    BY DEF CtxInv
  <2> QED
    BY <1>2, <2>1 DEF IsKept
<1> QED
  BY <1>2, <1>3, <1>4, <1>5

LEMMA CheckKeeps == CtxInv /\ Check => CtxInv'
<1> SUFFICES ASSUME CtxInv, Check PROVE CtxInv'
  OBVIOUS
<1>1. /\ stage = "check" /\ position' = 1 /\ dropped = {} /\ seen = {} /\ Len(msgs) \in Nat
      /\ pinnedOnly \in BOOLEAN /\ pass \in {1, 2} /\ ~MayCut
      /\ pinnedOnly => Removable(msgs) = {} /\ ~NativePass
      /\ UNCHANGED <<chat, options, msgs, total, seen, dropped, unbacked, pass>>
      /\ UNCHANGED NativePass
  BY DEF CtxInv, CtxTypes, Staged, MayCut, Check, NativePass
<1>2. \/ stage' = "last" /\ (pinnedOnly \/ Removable(msgs) = {}) /\ ~NativePass /\ UNCHANGED pinnedOnly
      \/ stage' = "done" /\ pinnedOnly' \in BOOLEAN /\ (pinnedOnly' => ~NativePass)
  BY DEF Check, Finish
<1>3. CtxTypes' /\ TotalIsTrue' /\ Follows(chat', msgs', options'.recent) /\ IsKept' /\ Removable(msgs)' = Removable(msgs)
  BY <1>1, <1>2, ListStays DEF Stages
<1>4. Staged'
  BY <1>1, <1>2, <1>3 DEF Staged
<1> QED
  BY <1>3, <1>4 DEF CtxInv

LEMMA LastDoneKeeps == CtxInv /\ LastDone => CtxInv'
<1> SUFFICES ASSUME CtxInv, LastDone PROVE CtxInv'
  OBVIOUS
<1>1. /\ stage = "last" /\ stage' = "done" /\ dropped = {} /\ seen = {} /\ pass \in {1, 2}
      /\ position \in 1 .. Len(msgs) + 1 /\ Removable(msgs) = {} /\ ~NativePass
      /\ pinnedOnly' \in BOOLEAN
      /\ UNCHANGED <<chat, options, msgs, total, position, seen, dropped, unbacked, pass>>
      /\ UNCHANGED NativePass
  BY DEF CtxInv, CtxTypes, Staged, LastDone, Finish, NativePass
<1>2. Removable(msgs)' = Removable(msgs)
  BY <1>1, MarksStay DEF CtxInv, CtxTypes
<1>3. MayCut'
  BY <1>1, <1>2 DEF MayCut
<1>4. CtxTypes' /\ TotalIsTrue' /\ Follows(chat', msgs', options'.recent) /\ IsKept'
  BY <1>1, <1>3, ListStays DEF Stages
<1>5. Staged'
  BY <1>1 DEF Staged
<1> QED
  BY <1>4, <1>5 DEF CtxInv

LEMMA ContinueKeeps == CtxInv /\ Continue => CtxInv'
<1> SUFFICES ASSUME CtxInv, Continue PROVE CtxInv'
  OBVIOUS
<1>1. /\ stage = "done" /\ stage' = "truncate" /\ NativePass /\ pass' = 2 /\ position' = 1
      /\ dropped = {} /\ seen = {} /\ seen' = {} /\ ~pinnedOnly /\ pinnedOnly \in BOOLEAN
      /\ Len(msgs) \in Nat /\ ~MayCut
      /\ UNCHANGED <<chat, options, msgs, total, dropped, unbacked, pinnedOnly>>
  BY DEF CtxInv, CtxTypes, Staged, MayCut, Continue
<1>2. CtxTypes' /\ TotalIsTrue' /\ Follows(chat', msgs', options'.recent) /\ IsKept'
  BY <1>1, ListStays DEF Stages
<1>3. Staged'
  BY <1>1 DEF Staged
<1> QED
  BY <1>2, <1>3 DEF CtxInv

\* Only a recent turn is cut, and not the task of the user.
LEMMA LastResortKeeps == CtxInv /\ LastResort => CtxInv'
<1> SUFFICES ASSUME CtxInv, LastResort PROVE CtxInv'
  OBVIOUS
<1>1. PICK i \in LastCandidates :
        Replace(i, "cut", msgs[i].of, CutSize(msgs[i].size)) /\ position' = i + 1
  BY DEF LastResort
<1>2. /\ stage = "last" /\ dropped = {} /\ seen = {} /\ Removable(msgs) = {} /\ ~NativePass
      /\ UNCHANGED <<stage, chat, options, seen, dropped, pinnedOnly, pass>>
      /\ UNCHANGED NativePass
      /\ msgs \in Seq(Messages) /\ chat \in Seq(Messages) /\ DOMAIN msgs = 1 .. Len(msgs) /\ Len(msgs) \in Nat
      /\ options.recent \in Nat /\ Follows(chat, msgs, options.recent)
  BY DEF CtxInv, CtxTypes, Staged, LastResort, NativePass
<1>3. i \in 1 .. Len(msgs) /\ i \in RecentOf(msgs, options.recent) /\ i # Intent(msgs)
  BY <1>1, <1>2, OfOptions DEF LastCandidates, RecentOf
<1>4. msgs[i].of \in Nat /\ CutSize(msgs[i].size) \in Nat \ {0} /\ "cut" \in Forms
  <2>1. msgs[i] \in Messages
    BY <1>2, <1>3
  <2> QED
    BY <2>1, CutSizeNat DEF Messages, Forms
<1>5. /\ msgs' \in Seq(Messages) /\ Len(msgs') = Len(msgs)
      /\ \A j \in 1 .. Len(msgs) : /\ msgs'[j].id = msgs[j].id /\ msgs'[j].user = msgs[j].user
                                   /\ msgs'[j].pinned = msgs[j].pinned
      /\ \A j \in 1 .. Len(msgs) : j # i => msgs'[j] = msgs[j]
      /\ msgs'[i].form = "cut"
      /\ total' = SumOf(msgs', DOMAIN msgs')
  BY <1>1, <1>2, <1>3, <1>4, Replaced
<1>6. /\ Follows(chat', msgs', options'.recent)
      /\ Removable(msgs)' = Removable(msgs)
      /\ PinnedOf(chat', options'.recent) = PinnedOf(chat, options.recent)
      /\ RecentOf(chat', options'.recent) = RecentOf(chat, options.recent)
  BY <1>2, <1>5, MarksStay
<1>7. TotalIsTrue'
  <2>1. DOMAIN msgs' \ dropped' = DOMAIN msgs'
    BY <1>2
  <2> QED
    BY <1>5, <2>1 DEF TotalIsTrue
<1>8. CtxTypes'
  BY <1>1, <1>2, <1>3, <1>5, <1>6 DEF CtxInv, CtxTypes
<1>9. IsKept'
  <2>1. MayCut /\ MayCut'
    BY <1>2, <1>6 DEF MayCut
  <2>2. msgs[i].id \in RecentOf(chat, options.recent) \ {Intent(chat)}
    <3>1. msgs[i].id \in RecentOf(chat, options.recent)
      BY <1>2, <1>3 DEF Follows
    <3>2. msgs[i].id # Intent(chat)
      BY <1>2, <1>3, PinnedAlike
    <3> QED
      BY <3>1, <3>2
  <2>3. ASSUME NEW j \in 1 .. Len(msgs'), msgs'[j].id \in PinnedOf(chat', options'.recent)
        PROVE  \/ msgs'[j] = chat'[msgs'[j].id]
               \/ /\ MayCut'
                  /\ msgs'[j].id \in RecentOf(chat', options'.recent) \ {Intent(chat')}
                  /\ msgs'[j].form = "cut"
    <3>1. j \in 1 .. Len(msgs) /\ chat' = chat
      BY <1>2, <1>5
    <3>2. CASE j = i
      BY <1>5, <1>6, <2>1, <2>2, <3>1, <3>2
    <3>3. CASE j # i
      <4>1. msgs'[j] = msgs[j] /\ msgs[j].id \in PinnedOf(chat, options.recent)
        BY <1>5, <1>6, <2>3, <3>1, <3>3
      <4>2. \/ msgs[j] = chat[msgs[j].id]
            \/ msgs[j].id \in RecentOf(chat, options.recent) \ {Intent(chat)} /\ msgs[j].form = "cut"
        BY <3>1, <4>1 DEF CtxInv, IsKept
      <4> QED
        BY <1>6, <2>1, <3>1, <4>1, <4>2
    <3> QED
      BY <3>2, <3>3
  <2> QED
    BY <2>3 DEF IsKept
<1>10. Staged'
  BY <1>2, <1>6 DEF CtxInv, Staged
<1> QED
  BY <1>6, <1>7, <1>8, <1>9, <1>10 DEF CtxInv

LEMMA CtxInvStep == CtxInv /\ [CtxNext]_ctxVars => CtxInv'
<1> SUFFICES ASSUME CtxInv, [CtxNext]_ctxVars PROVE CtxInv'
  OBVIOUS
<1>1. CASE CtxNext
  BY <1>1, CompressKeeps, TruncateKeeps, DedupKeeps, DigestKeeps, LlmKeeps, ForgetKeeps, ForgottenKeeps,
     CheckKeeps, LastResortKeeps, LastDoneKeeps, ContinueKeeps DEF CtxNext, CtxGoesOn
<1>2. CASE UNCHANGED ctxVars
  <2>1. UNCHANGED <<chat, options, msgs, total, dropped, seen, stage, pass, pinnedOnly, position>> /\ UNCHANGED NativePass
    BY <1>2 DEF ctxVars, NativePass
  <2>2. msgs \in Seq(Messages) /\ CtxTypes
    BY DEF CtxInv, CtxTypes
  <2>3. Removable(msgs)' = Removable(msgs)
    BY <2>1, <2>2, MarksStay
  <2>4. MayCut' = MayCut
    BY <2>1, <2>3 DEF MayCut
  <2>5. CtxTypes' /\ TotalIsTrue' /\ Follows(chat', msgs', options'.recent) /\ IsKept'
    BY <2>1, <2>2, <2>4, ListStays DEF CtxTypes
  <2>6. Staged'
    BY <2>1, <2>3 DEF CtxInv, Staged
  <2> QED
    BY <2>5, <2>6 DEF CtxInv
<1> QED
  BY <1>1, <1>2

LEMMA CtxInvAlways == CtxSpec => []CtxInv
BY CtxInvInit, CtxInvStep, PTL DEF CtxSpec

LEMMA CtxInvTyped == CtxInv => CtxTypeOK
<1> SUFFICES ASSUME CtxInv PROVE CtxTypeOK
  OBVIOUS
<1>1. msgs \in Seq(Messages) /\ DOMAIN msgs = 1 .. Len(msgs) /\ total = SumOf(msgs, DOMAIN msgs \ dropped)
  BY DEF CtxInv, CtxTypes, TotalIsTrue
<1>2. \A i \in DOMAIN msgs : msgs[i].form \in Forms /\ msgs[i].size \in Nat \ {0}
  <2> TAKE i \in DOMAIN msgs
  <2>1. msgs[i] \in Messages
    BY <1>1
  <2> QED
    BY <2>1 DEF Messages
<1>3. total \in Nat
  BY <1>1, SumNat
<1> QED
  BY <1>1, <1>2, <1>3 DEF CtxInv, CtxTypes, CtxTypeOK

\* The types of compression: in particular the running count never goes below zero, and only
\* messages that may be removed are forgotten.
THEOREM CompressionTyped == CtxSpec => []CtxTypeOK
BY CtxInvTyped, CtxInvAlways, PTL

\* The running count, which every stage of context_compress.py keeps by itself, is what the
\* messages that are left take, after every step of every stage.
THEOREM CountIsTrue == CtxSpec => []TotalIsTrue
<1>1. CtxInv => TotalIsTrue
  BY DEF CtxInv
<1> QED
  BY <1>1, CtxInvAlways, PTL

\* Whatever is compressed away, the task of the user and what is pinned stay as they were; a
\* recent turn may have been cut, but only when there was nothing else to take from.
THEOREM PinnedStay == CtxSpec => []PreservedKept
<1>1. CtxInv => PreservedKept
  <2> SUFFICES ASSUME CtxInv, NEW k \in Pinned(chat)
      PROVE  \E i \in DOMAIN msgs \ dropped :
               /\ msgs[i].id = k
               /\ \/ msgs[i] = chat[k]
                  \/ k \in Recent(chat) \ {Intent(chat)} /\ msgs[i].form = "cut" /\ Removable(msgs) = {}
    BY DEF PreservedKept
  <2>1. /\ msgs \in Seq(Messages) /\ chat \in Seq(Messages) /\ DOMAIN msgs = 1 .. Len(msgs)
        /\ options.recent \in Nat /\ Follows(chat, msgs, options.recent) /\ dropped \subseteq Removable(msgs)
        /\ IsKept
    BY DEF CtxInv, CtxTypes
  <2>2. k \in PinnedOf(chat, options.recent) /\ Recent(chat) = RecentOf(chat, options.recent)
    BY OfOptions
  <2>3. PICK i \in 1 .. Len(msgs) : msgs[i].id = k
    BY <2>1, <2>2 DEF Follows
  <2>4. i \notin dropped
    BY <2>1, <2>2, <2>3, PinnedAlike, OfOptions
  <2>5. \/ msgs[i] = chat[k]
        \/ k \in Recent(chat) \ {Intent(chat)} /\ msgs[i].form = "cut" /\ Removable(msgs) = {}
    BY <2>1, <2>2, <2>3 DEF IsKept, MayCut
  <2> QED
    BY <2>1, <2>3, <2>4, <2>5
<1> QED
  BY <1>1, CtxInvAlways, PTL
=============================================================================
