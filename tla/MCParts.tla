------------------------------- MODULE MCParts -------------------------------
(***************************************************************************)
(* Small instances of the parts of the runtime that share no state: every  *)
(* behaviour is one of one of them, which is chosen in the first state,    *)
(* with the others left as they are.                                       *)
(***************************************************************************)
EXTENDS Planner, ContextCompress, QueueBridge, GuardEnforce, Ledger, AgentQueue,
        ModelSupervisor, BrowserSession, TLC

CONSTANTS
  alice, bob, bad, none,     \* owners
  c1, c2, root, init,        \* processes
  plan1, plan2, v1, blank,   \* segments and results
  q1, q2,                    \* pids
  s1, s2, t1, t2             \* servers and threads

VARIABLE part

partsVars ==
  <<part, planVars, ctxVars, bridgeVars, enforceVars, ledgerVars, queueVars, superVars, browserVars>>

-----------------------------------------------------------------------------
\* Prompts: every one of up to five characters that is worth cutting, those of seven without wide
\* ones, and a longer one; and every combination of the other fields of a request for two of them.
TextsOf(n, written) ==
  {t \in [1 .. n -> written \cup {"newline"}] : t[1] \in written /\ t[n] \in written}
ShortText == <<"word", "word">>
WordyText == <<"word", "word", "space", "word", "word", "word">>

Plain(t) ==
  [text |-> t, words |-> {}, route |-> "host", urgent |-> FALSE, ram |-> FALSE, context |-> FALSE,
   signals |-> {}, keyword |-> FALSE, ambiguous |-> FALSE, vague |-> FALSE, targeted |-> TRUE,
   bounded |-> TRUE, answered |-> TRUE, loop |-> FALSE]

FieldsOf(t) ==
  {[Plain(t) EXCEPT !.words = w, !.route = o, !.signals = s, !.urgent = u, !.ambiguous = a,
      !.targeted = d, !.answered = n, !.vague = v, !.bounded = d] :
     w \in {{}, {"security"}, {"test"}, {"code"}, {"docs"}, {"docs", "coding"}, {"all"}, {"local"}},
     o \in {"host", "local_default", "local"},
     s \in {{}, {"current_fact"}, {"runtime_state"}},
     u \in BOOLEAN, a \in BOOLEAN, d \in BOOLEAN, n \in BOOLEAN, v \in BOOLEAN}

MCPlanRequests ==
  {Plain(t) : t \in UNION {TextsOf(n, {"word", "wide", "stop"}) : n \in 1 .. 5}
                      \cup TextsOf(7, {"word", "stop"})
                      \cup {<<"space">>, <<"space", "word", "word", "newline">>,
                            <<"wide", "wide", "newline", "space", "wide", "word", "stop", "wide">>}}
    \cup FieldsOf(ShortText) \cup FieldsOf(WordyText)
    \cup {[Plain(t) EXCEPT !.urgent = TRUE, !.loop = TRUE] : t \in {ShortText, <<"wide", "wide", "wide">>}}
    \cup {[Plain(ShortText) EXCEPT !.ram = x, !.context = y, !.keyword = z] :
            x \in BOOLEAN, y \in BOOLEAN, z \in BOOLEAN}

MCSnapshots == [pressure : {"normal", "sequential_only", "pause_new_agents", "emergency_stop"}, room : {1, 2}]

-----------------------------------------------------------------------------
\* Conversations: a task, old turns that may repeat each other, and a last turn; the same with
\* a pinned one; one without the user; a task that is too long by itself.
Msg(i, user, pinned, of, size, weight) ==
  [id |-> i, user |-> user, pinned |-> pinned, form |-> "whole", of |-> of, size |-> size, weight |-> weight]

Talk(a, b, c, d) ==
  <<Msg(1, TRUE, FALSE, 1, 2, 0), Msg(2, FALSE, FALSE, 2, a, 45), Msg(3, FALSE, FALSE, 2, b, 0),
    Msg(4, FALSE, d = 1, 2, c, 0), Msg(5, TRUE, FALSE, 3, d, 0)>>

MCChats ==
  {Talk(a, b, c, d) : a \in {1, 3, 6}, b \in {1, 6}, c \in {3, 6}, d \in {1, 6}}
    \cup {<<Msg(1, FALSE, FALSE, 1, a, 0), Msg(2, FALSE, FALSE, 1, b, 45), Msg(3, FALSE, FALSE, 2, 6, 0)>> :
            a \in {3, 6}, b \in {3, 6}}
    \cup {<<Msg(1, TRUE, FALSE, 1, 7, 0), Msg(2, FALSE, FALSE, 1, b, 0)>> : b \in {1, 3, 6}}

MCOptions == [recent : {0, 1, 2}, llm : BOOLEAN, forget : BOOLEAN, native : BOOLEAN]

-----------------------------------------------------------------------------
MCFiles == {Absent}
MCCommands ==
  [op : {"persist"}, owner : {alice}, plan : {plan1, plan2}]
    \cup {[op |-> "next", at |-> 0], [op |-> "brief"],
          [op |-> "record", step |-> 1, status |-> "succeeded", payload |-> v1],
          [op |-> "record", step |-> 1, status |-> "retry_wait", payload |-> blank]}

MCRunModes == [auto_install : BOOLEAN, upgrade : BOOLEAN, dry_run : BOOLEAN]

-----------------------------------------------------------------------------
PartsInit ==
  /\ part \in {"planner", "compress", "bridge", "enforce", "ledger", "queue", "supervisor", "browser"}
  /\ PlanInit /\ CtxInit /\ BridgeInit /\ EnforceInit /\ LedgerInit /\ QueueInit /\ SuperInit /\ BrowserInit

PlannerOnly(A) ==
  /\ part = "planner" /\ A
  /\ UNCHANGED <<part, ctxVars, bridgeVars, enforceVars, ledgerVars, queueVars, superVars, browserVars>>

CompressOnly(A) ==
  /\ part = "compress" /\ A
  /\ UNCHANGED <<part, planVars, bridgeVars, enforceVars, ledgerVars, queueVars, superVars, browserVars>>

BridgeOnly(A) ==
  /\ part = "bridge" /\ A
  /\ UNCHANGED <<part, planVars, ctxVars, enforceVars, ledgerVars, queueVars, superVars, browserVars>>

EnforceOnly(A) ==
  /\ part = "enforce" /\ A
  /\ UNCHANGED <<part, planVars, ctxVars, bridgeVars, ledgerVars, queueVars, superVars, browserVars>>

LedgerOnly(A) ==
  /\ part = "ledger" /\ A
  /\ UNCHANGED <<part, planVars, ctxVars, bridgeVars, enforceVars, queueVars, superVars, browserVars>>

QueueOnly(A) ==
  /\ part = "queue" /\ A
  /\ UNCHANGED <<part, planVars, ctxVars, bridgeVars, enforceVars, ledgerVars, superVars, browserVars>>

SupervisorOnly(A) ==
  /\ part = "supervisor" /\ A
  /\ UNCHANGED <<part, planVars, ctxVars, bridgeVars, enforceVars, ledgerVars, queueVars, browserVars>>

BrowserOnly(A) ==
  /\ part = "browser" /\ A
  /\ UNCHANGED <<part, planVars, ctxVars, bridgeVars, enforceVars, ledgerVars, queueVars, superVars>>

PartsNext ==
  \/ PlannerOnly(PlanNext) \/ CompressOnly(CtxNext) \/ BridgeOnly(BridgeNext)
  \/ EnforceOnly(EnforceNext) \/ LedgerOnly(LedgerNext) \/ QueueOnly(QueueNext)
  \/ SupervisorOnly(SuperNext) \/ BrowserOnly(BrowserNext)

\* Planning and compressing are one call each, which nothing stops from going on.
PartsSpec ==
  /\ PartsInit /\ [][PartsNext]_partsVars
  /\ WF_partsVars(PlannerOnly(PlanGoesOn)) /\ WF_partsVars(CompressOnly(CtxGoesOn))

\* Every part keeps its types.
PartsTypeOK ==
  /\ PlanTypeOK /\ CtxTypeOK /\ BridgeTypeOK /\ EnforceTypeOK
  /\ LedgerTypeOK /\ QueueTypeOK /\ SuperTypeOK /\ BrowserTypeOK
=============================================================================
