----------------------------- MODULE Components -----------------------------
(***************************************************************************)
(* The components that share nothing with one another but the database.    *)
(* A behaviour is one of one component, chosen at the start, so that their *)
(* states add up and do not multiply.                                      *)
(***************************************************************************)
EXTENDS CoreComponents

VARIABLE part
VARIABLES sop, state, current, walk, recorded, by, why, outcome, crashes
VARIABLE expression

\* The walk: steps of an SOP besides one RESOLVE and one ESCALATE step, the first of them.
CONSTANTS FreeStep, FirstStep, MaxInterruptions
E == INSTANCE SopWalk WITH Free <- FreeStep, First <- FirstStep, MaxCrashes <- MaxInterruptions
ASSUME WalkAssumption ==
    /\ IsFiniteSet(FreeStep) /\ FreeStep \cap {"resolve", "escalate", "nowhere"} = {}
    /\ FirstStep \in FreeStep \cup {"resolve", "escalate"}
    /\ MaxInterruptions \in Nat

\* Expressions of one connective: the names in them, comparisons, the values that stand in one
\* and those a context may have.  A value is no error, and there are two booleans.
CONSTANTS Reference, Comparison, Quoted, Looked
X == INSTANCE Expressions WITH
        asked <- expression, Name <- Reference, Op <- Comparison, Literal <- Quoted,
        Given <- Looked
ASSUME ExpressionAssumption ==
    \A v \in Quoted \cup Looked :
        /\ v.type \notin {"error", "absent"}
        /\ v.type = "boolean" => v \in {X!Boolean(TRUE), X!Boolean(FALSE)}

walkVars == <<sop, state, current, walk, recorded, by, why, outcome, crashes>>
vars == <<part, lifecycleVars, knowledgeVars, auditVars, deliveryVars, sessionVars, walkVars,
          gatewayVars, policyVars, connectionVars, credentialVars, callVars,
          accessVars, expression, choiceVars, intakeVars, streamVars, runnerVars, serviceVars,
          changeVars, exportVars, draftVars, redactionVars>>

\* What the other components start with does not matter to the one chosen.
Noting == [s \in FreeStep |->
              [kind |-> "NOTE", on_success |-> "resolve", on_failure |-> "resolve"]]
Unmatched == [p \in Parameter |-> none]
Unfit == CHOOSE e \in Evidence : TRUE
Init ==
    /\ part \in {"lifecycle", "knowledge", "audit", "deliveries", "sessions",
                 "walk", "gateway", "policy",
                 "connections", "credentials", "calls", "access", "expressions", "choice",
                 "intake", "stream", "runner", "service", "changes", "export",
                 "drafts", "redaction"}
    /\ part = "walk" \/ (part # "walk" /\ sop = Noting)
    /\ part = "knowledge" \/ (part # "knowledge" /\ origin = "kb")
    /\ part = "sessions" \/ (part # "sessions" /\ mapped = TRUE)
    /\ part = "policy" \/ (part # "policy" /\ rules = CHOOSE p \in Standing : TRUE)
    /\ part = "connections" \/ (part # "connections" /\ holder = "hub")
    /\ part = "credentials" \/ (part # "credentials" /\ user = "client")
    /\ part = "access" \/ (part # "access" /\ roles = {})
    /\ part = "choice" \/ (part # "choice" /\ acts = {} /\ words = {} /\ matched = Unmatched
                           /\ evidence = [s \in Procedure |-> Unfit])
    /\ part = "changes" \/ (part # "changes" /\ group = {})
    /\ part = "drafts" \/ (part # "drafts"
                           /\ known = FALSE /\ text = [steps |-> <<>>, template |-> FALSE])
    /\ L!Init /\ K!Init /\ Log!Init /\ O!Init /\ Z!Init /\ E!Init /\ G!Init /\ P!Init
    /\ C!Init /\ Y!Init /\ B!Init /\ H!Init /\ X!Init /\ D!Init /\ I!Init /\ V!Init /\ M!Init
    /\ U!Init /\ N!Init /\ Dump!Init /\ J!Init /\ Q!Init

\* Only the component chosen moves.
Only(p) ==
    /\ part = p /\ UNCHANGED part
    /\ IF p = "lifecycle" THEN TRUE ELSE UNCHANGED lifecycleVars
    /\ IF p = "knowledge" THEN TRUE ELSE UNCHANGED knowledgeVars
    /\ IF p = "audit" THEN TRUE ELSE UNCHANGED auditVars
    /\ IF p = "deliveries" THEN TRUE ELSE UNCHANGED deliveryVars
    /\ IF p = "sessions" THEN TRUE ELSE UNCHANGED sessionVars
    /\ IF p = "walk" THEN TRUE ELSE UNCHANGED walkVars
    /\ IF p = "gateway" THEN TRUE ELSE UNCHANGED gatewayVars
    /\ IF p = "policy" THEN TRUE ELSE UNCHANGED policyVars
    /\ IF p = "connections" THEN TRUE ELSE UNCHANGED connectionVars
    /\ IF p = "credentials" THEN TRUE ELSE UNCHANGED credentialVars
    /\ IF p = "calls" THEN TRUE ELSE UNCHANGED callVars
    /\ IF p = "access" THEN TRUE ELSE UNCHANGED accessVars
    /\ IF p = "expressions" THEN TRUE ELSE UNCHANGED expression
    /\ IF p = "choice" THEN TRUE ELSE UNCHANGED choiceVars
    /\ IF p = "intake" THEN TRUE ELSE UNCHANGED intakeVars
    /\ IF p = "stream" THEN TRUE ELSE UNCHANGED streamVars
    /\ IF p = "runner" THEN TRUE ELSE UNCHANGED runnerVars
    /\ IF p = "service" THEN TRUE ELSE UNCHANGED serviceVars
    /\ IF p = "changes" THEN TRUE ELSE UNCHANGED changeVars
    /\ IF p = "export" THEN TRUE ELSE UNCHANGED exportVars
    /\ IF p = "drafts" THEN TRUE ELSE UNCHANGED draftVars
    /\ IF p = "redaction" THEN TRUE ELSE UNCHANGED redactionVars

Lifecycle == Only("lifecycle") /\ L!Next
Knowledge == Only("knowledge") /\ K!Next
Audit == Only("audit") /\ Log!Next
Deliveries == Only("deliveries") /\ O!Next
SignedIn == Only("sessions") /\ Z!Next
Walk == Only("walk") /\ E!Next
Gateway == Only("gateway") /\ G!Next
Policy == Only("policy") /\ P!Next
Connect == Only("connections") /\ C!Next
Rotate == Only("credentials") /\ Y!Next
Calls == Only("calls") /\ B!Next
Authority == Only("access") /\ H!Next
Rules == Only("expressions") /\ X!Next
Choose == Only("choice") /\ D!Next
TakeIn == Only("intake") /\ I!Next
Stream == Only("stream") /\ V!Next
Runner == Only("runner") /\ M!Next
Serve == Only("service") /\ U!Next
Change == Only("changes") /\ N!Next
WriteOut == Only("export") /\ Dump!Next
Draft == Only("drafts") /\ J!Next
Redact == Only("redaction") /\ Q!Next

Next ==
    \/ Lifecycle \/ Knowledge \/ Audit \/ Deliveries \/ SignedIn \/ Walk \/ Gateway
    \/ Policy \/ Connect \/ Rotate \/ Calls \/ Authority \/ Rules \/ Choose \/ TakeIn
    \/ Stream \/ Runner \/ Serve \/ Change \/ WriteOut \/ Draft \/ Redact

Spec == Init /\ [][Next]_vars

-----------------------------------------------------------------------------
\* The components that were not chosen stay as they began.
In(p, invariant) == part = p => invariant

\* Each component's variables are of their types.
TypeOK ==
    /\ In("lifecycle", L!TypeOK) /\ In("knowledge", K!TypeOK)
    /\ In("audit", Log!TypeOK) /\ In("deliveries", O!TypeOK)
    /\ In("sessions", Z!TypeOK) /\ In("walk", E!TypeOK)
    /\ In("gateway", G!TypeOK) /\ In("policy", P!TypeOK)
    /\ In("connections", C!TypeOK) /\ In("credentials", Y!TypeOK)
    /\ In("calls", B!TypeOK) /\ In("access", H!TypeOK)
    /\ In("choice", D!TypeOK) /\ In("intake", I!TypeOK)
    /\ In("stream", V!TypeOK) /\ In("runner", M!TypeOK)
    /\ In("service", U!TypeOK) /\ In("changes", N!TypeOK)
    /\ In("export", Dump!TypeOK) /\ In("drafts", J!TypeOK)
    /\ In("redaction", Q!TypeOK)

\* The one SOP version in force is the one published last (publish, retire), and an approved
\* version is what its approver read, who did not write it (approve, update_draft).
LifecycleHolds == In("lifecycle", L!NewestInForce) /\ In("lifecycle", L!ApprovedAsRead)

\* Behind the cursor every revision was handled, and became a draft once at most, however many
\* syncs run and die on the way (sync_source, create_draft).
EveryRevisionOnce == In("knowledge", K!OneDraftPerRevision) /\ In("knowledge", K!BehindTheCursor)

\* The audit chain verifies and is the history of commits, and damage to it is seen
\* (append, verify); an export that verifies has all that its log says (verify_export).
RecordsHold ==
    /\ In("audit", Log!ChainIsHistory)
    /\ In("audit", Log!DamageIsSeen)
    /\ In("export", Dump!IntactIsWhole)

\* A signed delivery is acted on once (use_webhook_signature), a ticket has one run (ingest),
\* and reading the list misses no more tickets than left it meanwhile (get_new_incidents).
IntakeHolds ==
    /\ In("deliveries", O!TakenOnce)
    /\ In("intake", I!OneRunEach)
    /\ In("intake", I!MissesFew)

\* One sign-in makes one session at most, idle time ends a session that is not used and no
\* other (consume_login_state, load_session); what a session, a token or the break-glass
\* account may do is bounded in time and in kind (authorize, create_token).
AuthorityHolds ==
    /\ In("sessions", Z!OneSessionPerSignIn) /\ In("sessions", Z!IdleIsIdle)
    /\ In("access", H!AuthorityRunsOut)
    /\ In("access", H!TokensOnlyRead)
    /\ In("access", H!OnlyWhatThePageAsked)

\* A run ends resolved on a verification that nothing but notes came after, a valid SOP never
\* falls back on the engine's own checks, an interrupted run passes every step it had recorded
\* (_run_steps, validate_sop), and no rule is answered from a value that is not there (evaluate).
WalkHolds ==
    /\ In("walk", E!ResolvedMeansVerified)
    /\ In("walk", E!ValidIsEnough)
    /\ In("walk", E!ResumedOnItsRoute)
    /\ In("expressions", X!RestsOnWhatIsThere)

\* What a model says stays advice: a run follows one SOP, with values that are in the ticket
\* or were declared, whatever it answers each time (_match_sop, _bind); what it repeats comes
\* back as it was (restore); and a draft of its own makes no change (accept_model_draft).
AdviceHolds ==
    /\ In("choice", D!RunsAsChosen)
    /\ In("redaction", Q!ComesBackAsItWas)
    /\ In("drafts", J!WritesAreWrittenByPeople)

\* Budgets are passed by the requests under way at most, and one that was reached ends the
\* model's part in the run (_refusal, stopped).
BudgetsHold == G!BudgetsHold

\* A write is made by rules that let it be made no longer ago than a decision lasts (evaluate),
\* and writes that follow one another keep the rate limit (recent_executions).
PolicyHolds == In("policy", P!GroundIsFresh) /\ In("policy", P!RateHolds)

\* What a process holds is what was saved a short while ago (_reload, _state).
InUseAsSaved == C!InUseAsSaved

\* A call that runs by itself is never refused for a credential that was rotated (request,
\* invoke), and a target that is down is sent no more than opens the breaker (CircuitBreaker).
CallsHold == In("credentials", Y!RotationIsMet) /\ In("calls", B!SparesTheTarget)

\* A runner makes a call once in each of its lives, over the settings it was signed for, and
\* none that it accepted after its switch was thrown (_Verifier, _handle).
RunnerHolds ==
    /\ In("runner", M!MadeOnce)
    /\ In("runner", M!MadeAsSent)
    /\ In("runner", M!StopIsHeard)

\* Each approver of a change is asked once, who decides is not the author, and the change is
\* closed as its action ended (request_change_approval, _collect, _close_change).
ChangesHold ==
    /\ In("changes", N!AskedOnce)
    /\ In("changes", N!DecidedByOthers)
    /\ In("changes", N!ClosedAsItEnded)

\* A page is sent each event once and in order, knows that it has not heard from the server
\* for too long, and always has a way to connect again (stream, useActivityStream).
ReadersHold ==
    /\ In("stream", V!InOrder)
    /\ In("stream", V!HeardLately)
    /\ In("stream", V!AlwaysTrying)

\* No process serves people without what protects them, no loop uses what is closed, and a
\* client is let through no more than its share (validate_security_config, serve, RateLimit).
ServiceHolds ==
    /\ In("service", U!ServesSafely)
    /\ In("service", U!UsesWhatIsOpen)
    /\ In("service", U!Limited)
=============================================================================
