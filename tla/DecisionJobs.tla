---------------------------- MODULE DecisionJobs ----------------------------
(***************************************************************************)
(* Decisions asked of an AI provider (v2/aidecision): a consumer starts a  *)
(* batch of questions, the host runs it as a job with a deadline, the      *)
(* provider answers, and the consumer polls the job or cancels it.  The    *)
(* host and the provider are outside the repository: the provider may      *)
(* answer anything, of any batch, as often and as late as it likes; the    *)
(* host completes a job with a result that ValidateFor accepts.  Texts are *)
(* "" where they are absent or malformed, sizes are within their bounds,   *)
(* and probabilities are multiples of 1 / One.                             *)
(***************************************************************************)
EXTENDS Decimals

CONSTANTS
    Batch,          \* idempotency key -> its BatchRequest
    Answers,        \* answers a provider may give
    LevelId,        \* strconv.Itoa of 0, 1, ...
    One, Tolerance, \* one, and what a sum of probabilities may miss it by
    MaxQuestions, MaxOptions, MaxScoreLevels,
    MaxReplies      \* bound of the provider's replies to a batch

(* What the contract's Go types leave: lists, texts and numbers; Itoa is   *)
(* one to one, and there is an id for every level of a score.              *)
ASSUME DecisionsAssumption ==
    /\ One \in Nat /\ MaxScoreLevels \in Nat
    /\ LevelId \in Seq(STRING) /\ IsInjective(LevelId) /\ MaxScoreLevels <= Len(LevelId)
    /\ \A k \in DOMAIN Batch : Batch[k].questions \in
          Seq([id : STRING, kind : STRING, payloads : SUBSET STRING, options : Seq(STRING), levels : Nat])
    /\ Answers \subseteq
          [id : STRING, kind : STRING, payloads : SUBSET STRING, choice : STRING, score : Int, legend : Seq(STRING),
           probabilities : Seq([id : STRING, value : Int]), confidence : Int, noul : Int]

VARIABLES
    jobs,           \* key -> [state, result]: the host's jobs
    replies,        \* key -> results of the provider under way
    replied,        \* key -> how often the provider has replied
    decision        \* key -> the result the consumer took, or none

jobVars == <<jobs, replies, replied, decision>>

BatchKeys == DOMAIN Batch
NoResult == [provider |-> "", requested |-> "", model |-> "", usage |-> {}, answers |-> <<>>]
NoJob == [state |-> "none", result |-> NoResult]

JobsInit ==
    /\ jobs = [k \in BatchKeys |-> NoJob]
    /\ replies = [k \in BatchKeys |-> {}]
    /\ replied = [k \in BatchKeys |-> 0]
    /\ decision = [k \in BatchKeys |-> NoResult]

----------------------------------------------------------------------------
(* Questions.                                                              *)
Stated(x) == x # ""
Unique(list) == IsInjective(list)
ExactlyOne(x) == x.kind \in {"choice", "score", "noul"} /\ x.payloads = {x.kind}
QuestionValid(q) ==
    /\ Stated(q.id) /\ ExactlyOne(q)
    /\ q.kind = "choice" => Len(q.options) \in 1 .. MaxOptions /\ Unique(q.options)
    /\ q.kind = "score" => q.levels \in 2 .. MaxScoreLevels
BatchValid(b) ==
    /\ b.purpose \in {"evaluation", "routing"} /\ Stated(b.provider) /\ Stated(b.model)
    /\ Len(b.questions) \in 1 .. MaxQuestions
    /\ \A i \in DOMAIN b.questions : QuestionValid(b.questions[i])
    /\ Unique([i \in DOMAIN b.questions |-> b.questions[i].id])

(* Answers.                                                                *)
Number(n, max) == n \in 0 .. max * One
NamesIn(list) == [i \in DOMAIN list |-> list[i].id]
Probabilities(list) ==
    LET sum == FoldLeft(LAMBDA t, p : t + p.value, 0, list) IN
    /\ Len(list) \in 1 .. MaxOptions
    /\ \A i \in DOMAIN list : Stated(list[i].id) /\ Number(list[i].value, 1)
    /\ sum - One \in -Tolerance .. Tolerance
    /\ Unique(NamesIn(list))
ChoiceValid(a) ==
    /\ Number(a.confidence, 1) /\ Probabilities(a.probabilities)
    /\ \E i \in DOMAIN a.probabilities : a.probabilities[i].id = a.choice
ScoreValid(a) ==
    /\ Number(a.score, MaxScoreLevels - 1) /\ Number(a.confidence, 1)
    /\ Probabilities(a.probabilities)
    /\ Len(a.legend) \in 2 .. MaxScoreLevels /\ Unique(a.legend)
AnswerValid(a) ==
    /\ Stated(a.id) /\ ExactlyOne(a)
    /\ a.kind = "choice" => ChoiceValid(a)
    /\ a.kind = "score" => ScoreValid(a)
    /\ a.kind = "noul" => Number(a.noul, 1)
ResultValid(r) ==
    /\ Stated(r.requested) /\ Stated(r.provider) /\ Stated(r.model)
    /\ r.usage = {"input", "output"}
    /\ Len(r.answers) \in 1 .. MaxQuestions
    /\ \A i \in DOMAIN r.answers : AnswerValid(r.answers[i])
    /\ Unique(NamesIn(r.answers))

(* BatchResult.ValidateFor: every question has exactly its answer.         *)
Expected(q) ==
    CASE q.kind = "choice" -> q.options
      [] q.kind = "score" -> SubSeq(LevelId, 1, q.levels)
      [] OTHER -> <<>>
Covers(expected, actual) ==
    Len(expected) = Len(actual) /\ Range(expected) \subseteq Range(NamesIn(actual))
Answered(q, a) ==
    /\ a.id = q.id /\ a.kind = q.kind
    /\ q.kind = "score" => Number(a.score, q.levels - 1) /\ a.legend = Expected(q)
    /\ q.kind # "noul" => Covers(Expected(q), a.probabilities)
ResultFor(r, b) ==
    /\ BatchValid(b) /\ ResultValid(r)
    /\ r.provider = b.provider /\ r.requested = b.model /\ Len(r.answers) = Len(b.questions)
    /\ \A i \in DOMAIN b.questions : Answered(b.questions[i], r.answers[i])

(* Job: a result only when it is completed, a failure only when it failed. *)
JobValid(j) ==
    /\ j.state \in {"queued", "running", "completed", "failed", "cancelled", "expired"}
    /\ IF j.state = "completed"
       THEN j.results \in {{"inline"}, {"handle"}}
            /\ ("inline" \in j.results => j.result.provider = j.provider /\ ResultValid(j.result))
       ELSE j.results = {}
    /\ j.state = "failed" <=> j.failure

----------------------------------------------------------------------------
Start(k) ==
    /\ jobs[k] = NoJob /\ BatchValid(Batch[k])
    /\ jobs' = [jobs EXCEPT ![k].state = "queued"]
    /\ UNCHANGED <<replies, replied, decision>>
Dispatch(k) ==
    /\ jobs[k].state = "queued"
    /\ jobs' = [jobs EXCEPT ![k].state = "running"]
    /\ UNCHANGED <<replies, replied, decision>>
Reply(k, provider, answers) ==
    /\ jobs[k].state \notin {"none", "queued"} /\ replied[k] < MaxReplies
    /\ replies' = [replies EXCEPT ![k] = @ \cup
          {[provider |-> provider, requested |-> Batch[k].model, model |-> "m",
            usage |-> {"input", "output"}, answers |-> answers]}]
    /\ replied' = [replied EXCEPT ![k] = @ + 1]
    /\ UNCHANGED <<jobs, decision>>

(* The host takes a reply while the job runs; a late one is dropped.       *)
Settle(k, r) ==
    /\ replies' = [replies EXCEPT ![k] = @ \ {r}]
    /\ jobs' = IF jobs[k].state # "running" THEN jobs
              ELSE IF ResultFor(r, Batch[k])
                   THEN [jobs EXCEPT ![k] = [state |-> "completed", result |-> r]]
                   ELSE [jobs EXCEPT ![k].state = "failed"]
    /\ UNCHANGED <<replied, decision>>
Cancel(k) ==
    /\ jobs[k].state \in {"queued", "running"}
    /\ \E end \in {"cancelled", "expired"} : jobs' = [jobs EXCEPT ![k].state = end]
    /\ UNCHANGED <<replies, replied, decision>>

(* The consumer polls: a snapshot, its result inline or behind a handle.   *)
Snapshot(k, source) ==
    [state |-> jobs[k].state, provider |-> Batch[k].provider, result |-> jobs[k].result,
     results |-> IF jobs[k].state = "completed" THEN {source} ELSE {}, failure |-> jobs[k].state = "failed"]
Poll(k, source) ==
    /\ JobValid(Snapshot(k, source)) /\ jobs[k].state = "completed" /\ decision[k] = NoResult
    /\ decision' = [decision EXCEPT ![k] = jobs[k].result]
    /\ UNCHANGED <<jobs, replies, replied>>

JobsNext == \E k \in BatchKeys :
    \/ Start(k) \/ Dispatch(k) \/ Cancel(k)
    \/ \E p \in {Batch[q].provider : q \in BatchKeys}, answers \in UNION {[1 .. n -> Answers] : n \in 1 .. MaxQuestions} :
          Reply(k, p, answers)
    \/ \E r \in replies[k] : Settle(k, r)
    \/ \E source \in {"inline", "handle"} : Poll(k, source)

JobsSpec == JobsInit /\ [][JobsNext]_jobVars

----------------------------------------------------------------------------
(* A decision a consumer acts on answers the questions it asked: a choice  *)
(* is one of the question's options, a score is one of its levels, and the *)
(* probabilities are a distribution over exactly those, though the answer  *)
(* came from another batch or names criteria nobody offered.               *)
ChosenWasOffered ==
    \A k \in BatchKeys : decision[k] # NoResult =>
        \A i \in DOMAIN Batch[k].questions :
            LET q == Batch[k].questions[i]
                a == decision[k].answers[i]
            IN  /\ q.kind = "choice" => a.choice \in Range(q.options)
                /\ q.kind = "score" => a.score <= (q.levels - 1) * One
                /\ q.kind # "noul" => Range(NamesIn(a.probabilities)) = Range(Expected(q))

(* A number keeps its value, and a decision answers the questions that     *)
(* were asked (DecimalFromJSONNumber, BatchResult.ValidateFor).            *)
DecisionsExact == DecimalExact /\ ChosenWasOffered
=============================================================================
