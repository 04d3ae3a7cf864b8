------------------------------- MODULE Planner -------------------------------
(***************************************************************************)
(* From a request of the host agent to the plan it is given: intent,       *)
(* clarifying questions, preprocessing mode, segments, admission, the      *)
(* steps for the host, and the bundle that a queued plan leaves on disk.   *)
(*                                                                         *)
(* A request is what the planner can tell of it: the characters of its     *)
(* prompt by class, the kinds of words in it, and its other fields.        *)
(***************************************************************************)
EXTENDS Segmentation

CONSTANTS
  PlanRequests,
  Snapshots,                    \* of memory, swap and load: [pressure, room]
  SimpleTokens, SimpleChars,    \* a simple answer has no more
  VerifyTokens, VerifyChars,    \* nor an answer that is only verified
  VagueChars, BriefChars, LongChars

ASSUME PromptsType == \A r \in PlanRequests : r.text \in Seq(Classes)

VARIABLES
  pc,
  request,
  resource,   \* the admission decision
  bundle      \* what became of the dispatch bundle

requestVars == <<pc, request, resource, bundle>>
planVars == <<segVars, requestVars>>

Decisions == {"fast", "normal", "sequential_only", "deferred", "pause_new_agents", "emergency_stop"}

-----------------------------------------------------------------------------
\* Intent: the first kind of word that is found decides.  "coding" stands for the words that
\* only the check for conflicts knows.
Category(r) ==
  IF "local" \in r.words \/ r.route # "host" THEN "local_model"
  ELSE IF "security" \in r.words THEN "security"
  ELSE IF {"test", "code"} \cap r.words # {} THEN "engineering"
  ELSE IF "docs" \in r.words THEN "documentation" ELSE "general"

Confidence(r) ==
  LET known == [local_model |-> 92, security |-> 86, documentation |-> 78, general |-> 55]
  IN  IF Category(r) # "engineering" THEN known[Category(r)]
      ELSE IF "test" \in r.words THEN 82 ELSE 80

LocalRequested(r) == Category(r) = "local_model"
ExplicitLocalRoute(r) == r.route = "local"   \* "local_default" is the host's own

NeedsDirection(r) ==
  /\ Confidence(r) < 62
  /\ Len(text) >= BriefChars
  /\ r.ambiguous \/ Len(text) > LongChars

Conflicting(r) ==
  LET coding == {"code", "coding"} \cap r.words # {}
      active == {k \in {"docs", "security"} : k \in r.words}
                  \cup {k \in {"coding"} : coding} \cup {k \in {"local"} : LocalRequested(r)}
  IN  Cardinality(active) >= 2 /\ Confidence(r) < 80

\* A change of code, or a short wish for a change, that does not say of what.
NoTarget(r) ==
  /\ ~r.targeted
  /\ \/ Category(r) = "engineering" /\ "code" \in r.words
     \/ r.vague /\ Len(text) <= VagueChars

Asks(r, question) ==
  CASE question = "intent_direction" -> NeedsDirection(r)
    [] question = "disambiguate_choice" -> r.ambiguous
    [] question = "target_scope" -> NoTarget(r)
    [] question = "scope_boundary" -> "all" \in r.words /\ ~r.bounded
    [] question = "resolve_conflict" -> Conflicting(r)

Questions(r) ==
  IF r.answered THEN {}
  ELSE {q \in {"intent_direction", "disambiguate_choice", "target_scope", "scope_boundary",
               "resolve_conflict"} : Asks(r, q)}

-----------------------------------------------------------------------------
\* Preprocessing.
Tokens == EstimateTokens(0, Len(text))
SplitRequired == Len(text) > MaxChars \/ Tokens > MaxTokens

VerificationFastPath(r) ==
  /\ r.signals # {}
  /\ Category(r) \notin {"engineering", "security", "local_model"}
  /\ Tokens <= VerifyTokens
  /\ Len(text) <= VerifyChars

BugPolicy(r) ==
  IF r.urgent THEN "standard"
  ELSE IF SplitRequired THEN "queued" ELSE "simple_answer"

Policy(r) ==
  IF SplitRequired THEN "queued"
  ELSE IF \/ LocalRequested(r) \/ ExplicitLocalRoute(r)
          \/ r.urgent \/ r.ram \/ r.context
       THEN "standard"
  ELSE IF VerificationFastPath(r) THEN "verification_answer"
  ELSE IF \/ Category(r) # "general"
          \/ Tokens > SimpleTokens \/ Len(text) > SimpleChars
          \/ r.keyword
       THEN "standard"
  ELSE "simple_answer"

Clarifying(r) == Questions(r) # {}
Mode(r) == IF Clarifying(r) THEN "needs_clarification" ELSE Policy(r)

\* The prompt that takes the place of one that has to be split is an index of its segments.
NormalizedPrompt == IF SplitRequired THEN "index" ELSE "prompt"

RequiredChecks(r) ==
  r.signals
    \cup {c \in {"file_diff_or_command"} : Category(r) = "engineering"}
    \cup {c \in {"security_evidence"} : Category(r) = "security"}
    \cup {c \in {"segment_checksums"} : Mode(r) = "queued" \/ SplitRequired}
    \cup {c \in {"local_endpoint"} : ExplicitLocalRoute(r)}

CitationRequired(r) == {"external_source", "current_fact"} \cap r.signals # {}
ResponseContract(r) ==
  CASE Mode(r) = "queued" -> "synthesize"
    [] Mode(r) # "queued" /\ RequiredChecks(r) # {} /\ CitationRequired(r) -> "verify_and_cite"
    [] Mode(r) # "queued" /\ RequiredChecks(r) # {} /\ ~CitationRequired(r) -> "verify"
    [] OTHER -> "direct"

-----------------------------------------------------------------------------
\* Admission.
FastPath(r) ==
  \/ Clarifying(r)
  \/ Mode(r) \in {"simple_answer", "verification_answer"} /\ ~ExplicitLocalRoute(r)

\* Pressure that only asks for one agent at a time is not looked at any further.
Capacity(s, expected) ==
  CASE s.pressure \in {"emergency_stop", "pause_new_agents"} -> s.pressure
    [] s.pressure \notin {"emergency_stop", "pause_new_agents"} /\ s.room < expected -> "deferred"
    [] OTHER -> "normal"

ExpectedRam(r) == IF r.ram \/ ExplicitLocalRoute(r) THEN 2 ELSE 1

-----------------------------------------------------------------------------
\* What the host is given.  The prompt of a step is the user's ("prompt"), an index of
\* segments, or the planner's own words.
PlanStep(kind, prompt, range, r) ==
  [kind |-> kind, prompt |-> prompt, range |-> range, checks |-> RequiredChecks(r)]

QueueRequired(r) == Mode(r) = "queued"

Steps(r) ==
  CASE Mode(r) = "needs_clarification" -> <<PlanStep("clarify", "own", <<>>, r)>>
    [] Mode(r) = "simple_answer" -> <<PlanStep("answer", "prompt", <<>>, r)>>
    [] Mode(r) = "verification_answer" -> <<PlanStep("verify", "prompt", <<>>, r)>>
    [] Mode(r) = "queued" ->
         [i \in 1 .. Len(cuts) + 1 |->
            IF i <= Len(cuts) THEN PlanStep("segment", "own", cuts[i], r) ELSE PlanStep("brief", "own", <<>>, r)]
    [] Mode(r) = "standard" -> <<PlanStep("execute", NormalizedPrompt, <<>>, r)>>

\* The prompt in the plan that is printed.
PublicPrompt(r) == IF QueueRequired(r) THEN NormalizedPrompt ELSE "prompt"

\* The segments in the bundle.
BundleSteps == cuts

-----------------------------------------------------------------------------
PlanInit ==
  /\ pc = "idle"
  /\ request = [text |-> <<>>]
  /\ text = <<>>
  /\ frames = <<>>
  /\ cuts = <<>>
  /\ resource = "fast"
  /\ bundle = "none"

\* The adapter strips the prompt, and refuses one that is blank.
Accept ==
  /\ pc = "idle"
  /\ request' \in PlanRequests
  /\ LET n == Len(request'.text)
         space(p) == request'.text[p] \in {"space", "newline"}
     IN  \E a, c \in 1 .. n :
           /\ ~space(a) /\ \A p \in 1 .. a - 1 : space(p)
           /\ ~space(c) /\ \A p \in c + 1 .. n : space(p)
           /\ text' = SubSeq(request'.text, a, c)
  /\ pc' = "plan"
  /\ UNCHANGED <<frames, cuts, resource, bundle>>

Refuse ==
  /\ pc = "idle"
  /\ request' \in PlanRequests
  /\ \A p \in DOMAIN request'.text : request'.text[p] \in {"space", "newline"}
  /\ pc' = "refused"
  /\ UNCHANGED <<segVars, resource, bundle>>

\* Questions end the planning: no segments, no snapshot of the resources.
Clarify ==
  /\ pc = "plan"
  /\ Clarifying(request)
  /\ pc' = "persist"
  /\ UNCHANGED <<segVars, request, resource, bundle>>

Preprocess ==
  /\ pc = "plan"
  /\ ~Clarifying(request)
  /\ IF Mode(request) = "queued"
     THEN pc' = "split" /\ frames' = <<WholeText>>
     ELSE pc' = "admit" /\ UNCHANGED frames
  /\ UNCHANGED <<text, cuts, request, resource, bundle>>

Segment ==
  /\ pc = "split"
  /\ Split
  /\ UNCHANGED requestVars

SplitDone ==
  /\ pc = "split"
  /\ frames = <<>>
  /\ pc' = "admit"
  /\ UNCHANGED <<segVars, request, resource, bundle>>

Admit ==
  /\ pc = "admit"
  /\ \/ FastPath(request) /\ UNCHANGED resource
     \/ /\ ~FastPath(request)
        /\ \E s \in Snapshots : resource' = Capacity(s, ExpectedRam(request))
  /\ pc' = "persist"
  /\ UNCHANGED <<segVars, request, bundle>>

BugPersist ==
  /\ pc = "persist"
  /\ \/ bundle' = "stored" /\ pc' = "out"
     \/ bundle' = "refused" /\ pc' = "failed"
  /\ UNCHANGED <<segVars, request, resource>>

\* The store may refuse the bundle: another owner's, or another bundle of that name.
Persist ==
  /\ pc = "persist"
  /\ IF QueueRequired(request)
     THEN \/ bundle' = "stored" /\ pc' = "out"
          \/ bundle' = "refused" /\ pc' = "failed"
     ELSE pc' = "out" /\ UNCHANGED bundle
  /\ UNCHANGED <<segVars, request, resource>>

\* The loop is started at once for a plan with a queue whose caller asked for it.
AutoLoop ==
  /\ pc = "out"
  /\ QueueRequired(request) /\ request.loop
  /\ pc' = "loop"
  /\ UNCHANGED <<segVars, request, resource, bundle>>

PlanGoesOn == Clarify \/ Preprocess \/ Segment \/ SplitDone \/ Admit \/ Persist \/ AutoLoop
PlanNext == Accept \/ Refuse \/ PlanGoesOn

PlanSpec == PlanInit /\ [][PlanNext]_planVars /\ WF_planVars(PlanGoesOn)

-----------------------------------------------------------------------------
PlanEnded == {"refused", "failed", "out", "loop"}

PlanTypeOK ==
  /\ SegTypeOK
  /\ pc \in {"idle", "plan", "split", "admit", "persist"} \cup PlanEnded
  /\ resource \in Decisions
  /\ bundle \in {"none", "stored", "refused"}
  /\ bundle = "stored" => cuts # <<>>
  /\ pc = "out" => ResponseContract(request) \in {"synthesize", "verify_and_cite", "verify", "direct"}

\* While a prompt is cut, and when it has been, its segments and what is left to cut neither
\* overlap nor miss a character, and a segment is too long only when it cannot be halved.
SegmentsTile ==
  frames # <<>> \/ cuts # <<>> => Ordered /\ Covered /\ Fitting

\* Whatever mode was chosen, the words of the user reach the model: a plan that is handed out
\* and asks nothing has them in a step, or in the segments of the bundle that is on disk; and
\* what is printed hides them only when the bundle has them.
PromptKept ==
  pc \in {"out", "loop"} =>
    /\ ~Clarifying(request) =>
         \/ \E i \in DOMAIN Steps(request) : Steps(request)[i].prompt = "prompt"
         \/ /\ bundle = "stored"
            /\ \A p \in 0 .. Len(text) - 1 :
                 IsBlank(p) \/ \E i \in DOMAIN BundleSteps : BundleSteps[i][1] <= p /\ p < BundleSteps[i][2]
            /\ \A i \in DOMAIN BundleSteps : Steps(request)[i].range = BundleSteps[i]
    /\ PublicPrompt(request) = "index" => bundle = "stored"

\* Every request comes to its end: halving the windows terminates.
PlanEnds == pc = "plan" ~> pc \in PlanEnded
=============================================================================
