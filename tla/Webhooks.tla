------------------------------ MODULE Webhooks ------------------------------
(* The webhook dispatcher: one subscription of the bus, a task for each event, *)
(* and a limit on the tasks that post at once. Events are of one type and told *)
(* apart by their platform; the process may end with work outstanding.         *)
EXTENDS EventBus, FiniteSets

CONSTANTS WhHooks,                \* webhooks, 1..n in the order of the configuration
          WhPlatforms,
          PostLimit,              \* MAX_CONCURRENT_DISPATCHES, 16
          MaxWhEvents             \* bound: events published
ASSUME WhAssumption == {WhHooks, PostLimit} \subseteq Nat \ {0} /\ MaxWhEvents \in Nat

VARIABLES
  whStream,         \* platforms of the published events
  whCursor,         \* the dispatcher's receiver
  whWants,          \* platforms each webhook asks for; none is all
  whTasks,          \* tasks: "none", "queued", the webhook being posted to, "done"
  whPosts           \* ghost: deliveries of an event to a webhook
whVars == <<whStream, whCursor, whWants, whTasks, whPosts>>

WebhooksInit ==
  /\ whStream = <<>> /\ whCursor = 1 /\ whWants \in [1..WhHooks -> SUBSET WhPlatforms]
  /\ whTasks = [e \in 1..MaxWhEvents |-> [at |-> "none", hook |-> 0]] /\ whPosts = {}

WhPublish ==
  \E platform \in WhPlatforms :
    /\ Len(whStream) < MaxWhEvents /\ whStream' = Append(whStream, platform) /\ UNCHANGED <<whCursor, whWants, whTasks, whPosts>>

\* The dispatcher takes one event after the other and waits for nothing but the
\* bus; what left the ring is skipped in silence.
WhTake ==
  /\ Ready(whCursor, Len(whStream)) /\ UNCHANGED <<whStream, whWants, whPosts>>
  /\ IF Overrun(whCursor, Len(whStream)) THEN whCursor' = Oldest(Len(whStream)) /\ UNCHANGED whTasks
     ELSE whCursor' = whCursor + 1 /\ whTasks' = [whTasks EXCEPT ![whCursor].at = "queued"]

Matches(hook, e) == whWants[hook] = {} \/ whStream[e] \in whWants[hook]
\* The task of e goes to the next webhook that wants it, or ends.
Proceeds(e, from) ==
  LET wanted == {h \in from..WhHooks : Matches(h, e)}
  IN whTasks' = [whTasks EXCEPT ![e] = IF wanted = {} THEN [at |-> "done", hook |-> 0]
                                       ELSE [at |-> "posts", hook |-> CHOOSE h \in wanted : \A k \in wanted : h <= k]]

Posting == {e \in DOMAIN whTasks : whTasks[e].at = "posts"}
\* Mutant: a task posts without a permit.
WhPermit_None ==
  \E e \in DOMAIN whTasks : /\ whTasks[e].at = "queued" /\ Proceeds(e, 1)
                            /\ UNCHANGED <<whStream, whCursor, whWants, whPosts>>

\* A permit is held until the last webhook has been posted to.
WhPermit ==
  \E e \in DOMAIN whTasks : /\ whTasks[e].at = "queued" /\ Cardinality(Posting) < PostLimit /\ Proceeds(e, 1)
                            /\ UNCHANGED <<whStream, whCursor, whWants, whPosts>>

\* One attempt, of at most ten seconds; its outcome is logged.
WhPost ==
  \E e \in Posting :
    /\ whPosts' \in {whPosts, whPosts \cup {<<e, whTasks[e].hook>>}} /\ Proceeds(e, whTasks[e].hook + 1)
    /\ UNCHANGED <<whStream, whCursor, whWants>>

WebhooksNext == WhPublish \/ WhTake \/ WhPermit \/ WhPost

\* The types of the variables; no more than the limit post at once, and a
\* webhook has been sent what it asks for and nothing else.
WebhooksTypeOK ==
  /\ whStream \in Seq(WhPlatforms) /\ whCursor \in 1..(Len(whStream) + 1) /\ Cardinality(Posting) <= PostLimit
  /\ \A post \in whPosts : Matches(post[2], post[1])
=============================================================================
