--------------------------- MODULE ContextCompress ---------------------------
(***************************************************************************)
(* A conversation that has grown too long is brought down to a target in   *)
(* stages: long messages are cut, duplicates elided, old turns folded into *)
(* digests, the largest summarized by a model, the least important         *)
(* forgotten, and at last the recent turns cut too.  Every stage stops as  *)
(* soon as the target is reached.                                          *)
(*                                                                         *)
(* A message is what the stages can tell of it; a size is in tokens, one   *)
(* for every character.                                                    *)
(***************************************************************************)
EXTENDS Integers, Sequences, FiniteSets

CONSTANTS
  Chats,          \* the conversations, sequences of messages
  Options,        \* of a call: [recent, llm, forget, native]
  Trigger, Target,
  CutMin,         \* a longer message is cut
  HeadTail,       \* to its head and its tail, together so long
  LongElision,    \* a larger number takes one more character in the marker between them
  DedupMin, MarkSize,
  DigestSize,
  SummarySizes,   \* what the model may answer with
  SummaryLimit,   \* the most messages it is asked to summarize
  ShortMin        \* a shorter message is less important, and not worth keeping a copy of

Forms == {"whole", "cut", "dup", "digest", "summary"}
Messages ==
  [id : Nat, user : BOOLEAN, pinned : BOOLEAN, form : Forms, of : Nat, size : Nat \ {0}, weight : Int]

ASSUME CompressSizes ==
  /\ \A n \in {Trigger, Target, CutMin, HeadTail, SummaryLimit} : n \in Nat
  /\ \A n \in SummarySizes \cup {MarkSize, DigestSize} : n \in Nat \ {0}
ASSUME ChatsType == \A c \in Chats : c \in Seq(Messages) /\ \A i \in DOMAIN c : c[i].id = i
ASSUME OptionsType == Options \subseteq [recent : Nat, llm : BOOLEAN, forget : BOOLEAN, native : BOOLEAN]

VARIABLES
  stage,
  chat,         \* the conversation as it was
  options,
  msgs,
  total,        \* the running count of tokens
  position,           \* the next message of the stage
  seen,         \* the first messages of their contents
  dropped,      \* the messages forgotten so far, as indices
  asked,        \* the indices in ai_summary_request; NoRequest when there is none
  unbacked,     \* a message was dropped that is not in the cold store
  pinnedOnly,
  pass          \* the native engine's first pass, which only cuts, elides and folds, or the second

ctxVars == <<stage, chat, options, msgs, total, position, seen, dropped, asked, unbacked, pinnedOnly, pass>>

Stages == {"idle", "truncate", "dedup", "digest", "llm", "forget", "check", "last", "done"}
NoRequest == {0}

-----------------------------------------------------------------------------
SumOf(ms, indices) ==
  LET sum[n \in 0 .. Len(ms)] ==
        IF n = 0 THEN 0 ELSE sum[n - 1] + (IF n \in indices THEN ms[n].size ELSE 0)
  IN  sum[Len(ms)]
Content(m) == <<m.form, m.of, m.size>>
Junk(m) == m.form \in {"dup", "digest"}

\* The first message of the user, 0 when there is none.
Intent(ms) ==
  IF \E i \in DOMAIN ms : ms[i].user
  THEN CHOOSE i \in DOMAIN ms : ms[i].user /\ \A j \in 1 .. i - 1 : ~ms[j].user
  ELSE 0

Recent(ms) == {i \in DOMAIN ms : i > Len(ms) - options.recent}
Pinned(ms) == {i \in DOMAIN ms : ms[i].pinned} \cup ({Intent(ms)} \ {0}) \cup Recent(ms)
Removable(ms) == DOMAIN ms \ Pinned(ms)

NativePass == options.native /\ pass = 1

\* Head, tail and a marker that says how much is missing.
CutSize(n) == HeadTail + (IF n - HeadTail > LongElision THEN 3 ELSE 2)
Shortens(m) == CutSize(m.size) < m.size

\* Python cuts only what the cut makes shorter; the native engine does not look.
BugCanCut(m) == m.size > CutMin /\ m.size > HeadTail
CanCut(m) == m.size > CutMin /\ m.size > HeadTail /\ (NativePass \/ Shortens(m))

\* The messages to summarize: the largest of those that may be changed, the older first.
LargestFirst(ms, i, j) == ms[i].size > ms[j].size \/ (ms[i].size = ms[j].size /\ i < j)
ToSummarize(ms) ==
  {i \in Removable(ms) :
     Cardinality({j \in Removable(ms) : LargestFirst(ms, j, i)}) < SummaryLimit}

\* Importance, times the number of gaps between messages: the later and the more telling a
\* message, the more important; what the earlier stages have left behind is not.
Importance(ms, i) ==
  40 * (i - 1) + (Len(ms) - 1) *
    (ms[i].weight - (IF Junk(ms[i]) THEN 60 ELSE 0) - (IF ms[i].size < ShortMin THEN 10 ELSE 0))
LessImportant(ms, i, j) ==
  Importance(ms, i) < Importance(ms, j) \/ (Importance(ms, i) = Importance(ms, j) /\ i <= j)

-----------------------------------------------------------------------------
Replace(i, form, of, size) ==
  /\ msgs' = [msgs EXCEPT ![i].form = form, ![i].of = of, ![i].size = size]
  /\ total' = total - msgs[i].size + size

Forgets == options.forget /\ ~NativePass
Summarizes == options.llm /\ ~NativePass

\* The stage behind s.
After(s) ==
  LET next == [truncate |-> "dedup", dedup |-> "digest", digest |-> "llm", llm |-> "forget"]
  IN  stage' = (IF total > Target THEN next[s] ELSE "check") /\ position' = 1 /\ seen' = {}

CtxInit ==
  /\ stage = "idle"
  /\ chat = <<>> /\ msgs = <<>>
  /\ options = [recent |-> 0, llm |-> FALSE, forget |-> FALSE, native |-> FALSE]
  /\ total = 0 /\ position = 1 /\ seen = {} /\ dropped = {}
  /\ asked = NoRequest /\ unbacked = FALSE /\ pinnedOnly = FALSE /\ pass = 1

\* Below the trigger nothing is done.
Compress ==
  /\ stage = "idle"
  /\ \E c \in Chats, o \in Options :
       /\ chat' = c /\ msgs' = c
       /\ options' = o
       /\ total' = SumOf(c, DOMAIN c)
       /\ stage' = (IF total' < Trigger THEN "done" ELSE "truncate")
  /\ UNCHANGED <<position, seen, dropped, asked, unbacked, pinnedOnly, pass>>

Truncate ==
  /\ stage = "truncate"
  /\ IF total <= Target \/ position > Len(msgs)
     THEN After("truncate") /\ UNCHANGED <<msgs, total>>
     ELSE /\ IF position \in Removable(msgs) /\ CanCut(msgs[position])
             THEN Replace(position, "cut", msgs[position].of, CutSize(msgs[position].size))
             ELSE UNCHANGED <<msgs, total>>
          /\ position' = position + 1 /\ UNCHANGED <<stage, seen>>
  /\ UNCHANGED <<chat, options, dropped, asked, unbacked, pinnedOnly, pass>>

\* A duplicate says which message it is one of.  The pass goes to the end of the list.
Dedup ==
  /\ stage = "dedup"
  /\ IF position > Len(msgs)
     THEN After("dedup") /\ UNCHANGED <<msgs, total>>
     ELSE LET same == {i \in seen : Content(msgs[i]) = Content(msgs[position])}
          IN  /\ IF msgs[position].size >= DedupMin /\ same = {}
                 THEN seen' = seen \cup {position} ELSE UNCHANGED seen
              /\ IF msgs[position].size >= DedupMin /\ total > Target /\ position \in Removable(msgs)
                 THEN \/ same = {} /\ UNCHANGED <<msgs, total>>
                      \/ \E i \in same : Replace(position, "dup", i, MarkSize)
                 ELSE UNCHANGED <<msgs, total>>
              /\ position' = position + 1 /\ UNCHANGED stage
  /\ UNCHANGED <<chat, options, dropped, asked, unbacked, pinnedOnly, pass>>

Digest ==
  /\ stage = "digest"
  /\ IF total <= Target \/ position > Len(msgs)
     THEN After("digest") /\ UNCHANGED <<msgs, total>>
     ELSE /\ IF position \in Removable(msgs) /\ DigestSize < msgs[position].size
             THEN Replace(position, "digest", msgs[position].of, DigestSize)
             ELSE UNCHANGED <<msgs, total>>
          /\ position' = position + 1 /\ UNCHANGED <<stage, seen>>
  /\ UNCHANGED <<chat, options, dropped, asked, unbacked, pinnedOnly, pass>>

BugSummaries(answers) ==
  /\ msgs' = [i \in DOMAIN msgs |->
                IF i \in DOMAIN answers
                THEN [msgs[i] EXCEPT !.form = "summary", !.of = i, !.size = answers[i]] ELSE msgs[i]]
  /\ total' = total - SumOf(msgs, DOMAIN answers)

\* The summaries take the places of their messages; one may be longer than its message.
Summaries(answers) ==
  /\ msgs' = [i \in DOMAIN msgs |->
                IF i \in DOMAIN answers
                THEN [msgs[i] EXCEPT !.form = "summary", !.of = i, !.size = answers[i]] ELSE msgs[i]]
  /\ total' = total - SumOf(msgs, DOMAIN answers) + SumOf(msgs', DOMAIN answers)

\* The model answers for some of the messages it is asked to summarize, or not at all; a
\* summary with facts that are not in its message is as good as no answer.  Then the request
\* stays in the result, for the caller.
Llm ==
  /\ stage = "llm"
  /\ \/ UNCHANGED <<msgs, total, asked>>   \* switched off, or no model
     \/ /\ Summarizes
        /\ asked' = ToSummarize(msgs)
        /\ UNCHANGED <<msgs, total>>
     \/ /\ Summarizes
        /\ \E some \in SUBSET ToSummarize(msgs) \ {{}} :
             \E answers \in [some -> SummarySizes] : Summaries(answers)
        /\ UNCHANGED asked
  /\ stage' = (IF total' > Target THEN "forget" ELSE "check")
  /\ UNCHANGED <<chat, options, position, seen, dropped, unbacked, pinnedOnly, pass>>

\* A copy of what is worth keeping goes to the cold store, which may fail.
WorthKeeping(m) == ~Junk(m) /\ m.size >= ShortMin
ColdDemote(m) ==
  \/ UNCHANGED unbacked
  \/ WorthKeeping(m) /\ unbacked' = TRUE

Forget ==
  /\ stage = "forget" /\ Forgets
  /\ total > Target
  /\ \E i \in Removable(msgs) \ dropped :
       /\ \A j \in Removable(msgs) \ dropped : LessImportant(msgs, i, j)
       /\ dropped' = dropped \cup {i}
       /\ total' = total - msgs[i].size
       /\ ColdDemote(msgs[i])
  /\ UNCHANGED <<stage, chat, options, msgs, position, seen, asked, pinnedOnly, pass>>

\* The list is rebuilt without what was forgotten, and the indices with it.
KeptUpTo(gone, i) == Cardinality({j \in 1 .. i : j \notin gone})
Rebuilt(ms, gone) ==
  [k \in 1 .. KeptUpTo(gone, Len(ms)) |-> ms[CHOOSE i \in DOMAIN ms \ gone : KeptUpTo(gone, i) = k]]

Forgotten ==
  /\ stage = "forget"
  /\ Forgets => total <= Target \/ Removable(msgs) \subseteq dropped
  /\ msgs' = Rebuilt(msgs, dropped)
  /\ pinnedOnly' = (Forgets /\ total > Target)
  /\ dropped' = {}
  /\ stage' = "check"
  /\ UNCHANGED <<chat, options, total, position, seen, asked, unbacked, pass>>

\* Above the target still, the caller is asked to summarize, unless a request is there already.
Finish ==
  /\ stage' = "done"
  /\ asked' = (IF total > Target /\ asked = NoRequest THEN ToSummarize(msgs) ELSE asked)
  /\ pinnedOnly' =
       (~NativePass /\ total > Target /\ Intent(msgs) # 0 /\ msgs[Intent(msgs)].size > Target)

\* The native engine has no last resort.
Check ==
  /\ stage = "check"
  /\ position' = 1
  /\ IF total > Target /\ (pinnedOnly \/ Removable(msgs) = {}) /\ ~NativePass
     THEN stage' = "last" /\ UNCHANGED <<asked, pinnedOnly>>
     ELSE Finish
  /\ UNCHANGED <<chat, options, msgs, total, seen, dropped, unbacked, pass>>

BugLastCandidates == {i \in Recent(msgs) : CanCut(msgs[i])}
LastCandidates == {i \in Recent(msgs) \ {Intent(msgs)} : CanCut(msgs[i])}

\* The recent turns are cut, from the first to the last, again and again.
LastResort ==
  /\ stage = "last"
  /\ total > Target
  /\ \E i \in LastCandidates :
       /\ \/ i >= position /\ \A j \in LastCandidates : j >= position => i <= j
          \/ \A j \in LastCandidates : j < position /\ i <= j
       /\ Replace(i, "cut", msgs[i].of, CutSize(msgs[i].size))
       /\ position' = i + 1
  /\ UNCHANGED <<stage, chat, options, seen, dropped, asked, unbacked, pinnedOnly, pass>>

LastDone ==
  /\ stage = "last"
  /\ total <= Target \/ LastCandidates = {}
  /\ Finish
  /\ UNCHANGED <<chat, options, msgs, total, position, seen, dropped, unbacked, pass>>

\* Above the trigger still, what the native engine has left goes through all stages.
Continue ==
  /\ stage = "done"
  /\ NativePass
  /\ total > Trigger /\ (options.llm \/ options.forget)
  /\ pass' = 2
  /\ asked' = NoRequest
  /\ stage' = "truncate" /\ position' = 1 /\ seen' = {}
  /\ UNCHANGED <<chat, options, msgs, total, dropped, unbacked, pinnedOnly>>

CtxGoesOn ==
  \/ Truncate \/ Dedup \/ Digest \/ Llm \/ Forget \/ Forgotten
  \/ Check \/ LastResort \/ LastDone \/ Continue
CtxNext == Compress \/ CtxGoesOn

\* A call that has begun goes on.
CtxSpec == CtxInit /\ [][CtxNext]_ctxVars /\ WF_ctxVars(CtxGoesOn)

-----------------------------------------------------------------------------
CtxTypeOK ==
  /\ stage \in Stages
  /\ \A i \in DOMAIN msgs : msgs[i].form \in Forms /\ msgs[i].size \in Nat \ {0}
  /\ total \in Nat
  /\ position \in 1 .. Len(msgs) + 1
  /\ seen \subseteq DOMAIN msgs /\ dropped \subseteq Removable(msgs)

\* The count that decides whether another stage is needed, kept by every stage by itself, is
\* what the messages that are left really take.
TotalIsTrue == total = SumOf(msgs, DOMAIN msgs \ dropped)

\* The first message of the user stays as it was, and so does what is pinned, except for a
\* recent turn when nothing else is left to take from; none of them is forgotten.
PreservedKept ==
  \A k \in Pinned(chat) :
    \E i \in DOMAIN msgs \ dropped :
      /\ msgs[i].id = k
      /\ \/ msgs[i] = chat[k]
         \/ /\ k \in Recent(chat) \ {Intent(chat)}
            /\ msgs[i].form = "cut"
            /\ Removable(msgs) = {}

\* The stages come to an end, in particular the last one, which cuts what it has cut before.
CompressEnds == stage = "truncate" ~> stage = "done"

\* The messages that the caller is asked to summarize are among those that it is given, and
\* may be changed.
RequestNamesRemovable == stage = "done" /\ asked # NoRequest => asked \subseteq Removable(msgs)
=============================================================================
