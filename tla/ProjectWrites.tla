--------------------------- MODULE ProjectWrites ---------------------------
(***************************************************************************)
(* The writes of the task and knowledge facades: typed actions, each with  *)
(* the fields it may and must carry, claims with fenced leases, and the    *)
(* agents that make them, online or through the host's queue               *)
(* (v2/projecttasks, v2/projectknowledge, pm.ActionFields).  The provider  *)
(* is outside the repository: it does what a valid request says, compares  *)
(* a fence or an expected revision if the request has one, and nothing     *)
(* else.                                                                   *)
(*                                                                         *)
(* A request carries a set of fields; the ones the properties look into    *)
(* have a value next to it: names (of fields and clear), review (of agent),*)
(* fence and expected (0 for none), bulk, places (the parent and siblings  *)
(* of a move), and native, a mapping's [resource, binding, generation,     *)
(* last].                                                                  *)
(***************************************************************************)
EXTENDS ProjectContract, FiniteSets

CONSTANTS
    Agents, Resources,
    Requests,       \* the writes an agent may try
    MaxRevision,    \* bound of the revisions of a resource
    MaxFence        \* bound of the leases issued

(* A write as an agent makes it, of a facade and about a resource.         *)
WriteRequest ==
    [facade : {"tasks", "knowledge"}, action : STRING, resource : Resources,
     carries : SUBSET STRING, names : SUBSET STRING, review : STRING,
     fence : Nat, expected : Nat, bulk : STRING, places : SUBSET STRING,
     native : [resource : STRING, binding : Nat, generation : Nat, last : STRING],
     mutation : [id : STRING, source : Nat, dependsOn : SUBSET STRING]]

(* "" is an absent identifier: nobody's, and of nothing.                   *)
ASSUME NamesAssumption == "" \notin Agents /\ "" \notin Resources
ASSUME RequestsAssumption == Requests \in Seq(WriteRequest)

VARIABLES
    resource,       \* resource -> [revision, lease]
    fences,         \* the leases issued so far, a lease's fence its place
    agent,          \* agent -> [read, lease]: what it has read, what it holds
    queue,          \* writes kept for later: [by, request]
    reply,          \* a claim's result under way, or none
    changes         \* what the provider did in this step:
                    \* [what, action, offline, held, seen]

writeVars == <<resource, fences, agent, queue, reply, changes>>

NoLease == [holder |-> "", fence |-> 0, of |-> ""]
NoReply == [for |-> "", lease |-> NoLease]

WritesInit ==
    /\ resource = [r \in Resources |->
          [revision |-> 1, lease |-> NoLease]]
    /\ fences = <<>>
    /\ agent = [a \in Agents |-> [read |-> [r \in Resources |-> 0], lease |-> NoLease]]
    /\ queue = {} /\ reply = NoReply /\ changes = {}

----------------------------------------------------------------------------
(* validateActionFields of the two facades: what an action may carry.      *)
TaskFields(action) ==
    CASE action \in {"project.ensure", "project.create", "project.update", "item.clone"} ->
            {"title", "body", "fields"}
      [] action = "item.create" -> {"title", "body", "fields", "resourceKind", "assigneeId"}
      [] action \in {"item.patch", "item.replace"} -> {"title", "body", "fields", "clear", "assigneeId"}
      [] action = "item.assign" -> {"assigneeId"}
      [] action = "item.bulk" -> {"items", "bulkAction", "fields", "clear", "assigneeId", "actionId"}
      [] action \in {"workflow.transition", "planning.transition"} -> {"actionId", "fields"}
      [] action \in {"relation.add", "relation.remove"} -> {"relation"}
      [] action \in {"comment.create", "comment.update"} -> {"comment"}
      [] action \in {"watcher.add", "watcher.remove"} -> {"principalId"}
      [] action \in {"worklog.create", "worklog.update"} -> {"worklog"}
      [] action \in {"planning.create", "planning.update"} -> {"planning", "fields", "clear"}
      [] action = "planning.membership" -> {"items"}
      [] action = "planning.rank" -> {"position", "items"}
      [] action \in {"agent.update", "agent.dispatch", "agent.review"} -> {"agent"}
      [] action = "agent.complete" -> {"agent", "leaseFence"}
      [] action = "native.sync" -> {"native", "title", "body", "fields", "clear"}
      [] action = "admin.fields" -> {"fieldDefinitions"}
      [] action = "admin.workflow" -> {"workflowActions"}
      [] action = "admin.screens" -> {"fields"}
      [] action = "admin.permissions" -> {"grants"}
      [] OTHER -> {}
KnowledgeFields(action) ==
    CASE action \in {"space.ensure", "space.create", "space.update", "template.create", "template.update"} ->
            {"title", "body", "fields"}
      [] action = "content.create" -> {"title", "body", "contentKind", "fields", "labels", "template"}
      [] action = "content.update" -> {"title", "body", "fields", "clear"}
      [] action \in {"draft.publish", "version.restore"} -> {"versionId"}
      [] action \in {"content.move", "content.copy"} -> {"move", "title"}
      [] action \in {"comment.create", "comment.update"} -> {"comment"}
      [] action \in {"reaction.add", "reaction.remove"} -> {"reaction"}
      [] action \in {"watcher.add", "watcher.remove"} -> {"principalId"}
      [] action = "inline-task.update" -> {"inlineTask"}
      [] action = "labels.set" -> {"labels"}
      [] action = "properties.set" -> {"fields", "clear"}
      [] action = "template.apply" -> {"template", "fields"}
      [] action = "state.set" -> {"state"}
      [] action = "permissions.set" -> {"grants"}
      [] action = "export" -> {"export"}
      [] OTHER -> {}

(* ActionFields: nothing is carried that the action has no use for.        *)
ActionFields(request, allowed) == request.carries \subseteq allowed

(* The facade's own rules: what an action must carry.                      *)
TaskActions ==
    {"project.ensure", "project.create", "project.update", "item.create", "item.patch", "item.replace",
     "item.assign", "item.clone", "item.archive", "item.restore", "item.delete", "item.bulk",
     "workflow.transition", "relation.add", "relation.remove", "comment.create", "comment.update",
     "comment.delete", "watcher.add", "watcher.remove", "worklog.create", "worklog.update",
     "worklog.delete", "planning.create", "planning.update", "planning.delete", "planning.transition",
     "planning.membership", "planning.rank", "agent.update", "agent.dispatch", "agent.review",
     "agent.complete", "native.sync", "admin.fields", "admin.workflow", "admin.screens",
     "admin.permissions"}
Needs_NoFence(action) == IF action = "agent.complete" THEN {"agent"} ELSE {}
Needs(action) ==
    CASE action \in {"workflow.transition", "planning.transition"} -> {"actionId"}
      [] action = "planning.rank" -> {"position"}
      [] action \in {"relation.add", "relation.remove"} -> {"relation"}
      [] action = "agent.complete" -> {"leaseFence", "agent"}
      [] action = "native.sync" -> {"native"}
      [] action = "item.create" -> {"resourceKind"}
      [] action = "item.bulk" -> {"items", "bulkAction"}
      [] action \in {"comment.create", "comment.update"} -> {"comment"}
      [] action \in {"worklog.create", "worklog.update"} -> {"worklog"}
      [] OTHER -> {}
NativeMatches(request, scope) ==
    /\ request.native.resource = request.resource
    /\ request.native.binding = scope.binding /\ request.native.generation = scope.generation
    /\ request.native.last = request.mutation.id
PatchesStatus(request) == "status" \in request.names
TaskWriteValid(request, scope) ==
    /\ ActionFields(request, TaskFields(request.action))
    /\ MutationMatches(request.mutation, scope)
    /\ Enum(request.action, TaskActions)
    /\ request.action \notin {"project.create", "project.ensure"} => Required(request.resource)
    /\ Needs(request.action) \subseteq request.carries
    /\ request.action = "agent.complete" => request.review = "approved"
    /\ request.action = "native.sync" => NativeMatches(request, scope)
    /\ request.action = "item.bulk" =>
          /\ Enum(request.bulk, {"patch", "assign", "archive", "restore", "delete", "transition"})
          /\ request.bulk = "transition" => "actionId" \in request.carries
    /\ ~PatchesStatus(request)

KnowledgeActions ==
    {"space.ensure", "space.create", "space.update", "content.create", "content.update",
     "content.archive", "content.restore", "content.delete", "draft.publish", "content.move",
     "content.copy", "version.restore", "comment.create", "comment.update", "comment.delete",
     "comment.resolve", "comment.reopen", "reaction.add", "reaction.remove", "watcher.add",
     "watcher.remove", "inline-task.update", "labels.set", "properties.set", "template.apply",
     "template.create", "template.update", "template.delete", "state.set", "permissions.set",
     "public-link.enable", "public-link.disable", "export"}
KnowledgeNeeds(action) ==
    CASE action \in {"content.move", "content.copy"} -> {"move"}
      [] action = "version.restore" -> {"versionId", "expected"}
      [] action = "draft.publish" -> {"expected"}
      [] action = "export" -> {"export"}
      [] action = "inline-task.update" -> {"inlineTask"}
      [] action \in {"comment.create", "comment.update"} -> {"comment"}
      [] action = "content.create" -> {"contentKind", "title"}
      [] OTHER -> {}
Given(request) == request.carries \cup (IF request.expected > 0 THEN {"expected"} ELSE {})
KnowledgeWriteValid(request, scope) ==
    /\ ActionFields(request, KnowledgeFields(request.action))
    /\ MutationMatches(request.mutation, scope)
    /\ Enum(request.action, KnowledgeActions)
    /\ request.action \notin {"space.create", "space.ensure"} => Required(request.resource)
    /\ KnowledgeNeeds(request.action) \subseteq Given(request)
    /\ request.action \in {"content.move", "content.copy"} => request.resource \notin request.places
WriteValid(request, scope) ==
    IF request.facade = "tasks" THEN TaskWriteValid(request, scope)
    ELSE KnowledgeWriteValid(request, scope)

(* ClaimRequest, ClaimResult.ValidateFor.                                  *)
ClaimRequestValid(action, fence, seconds) ==
    /\ Enum(action, {"acquire", "renew", "release"})
    /\ action # "acquire" => fence > 0
    /\ seconds \in (IF action = "release" THEN 0 ELSE 1) .. 86400
ClaimResultFor(accepted, lease, action, r) ==
    /\ lease # NoLease => accepted /\ lease.of = r
    /\ accepted /\ action # "release" => lease # NoLease

----------------------------------------------------------------------------
Read(a, r) ==
    /\ \E i \in 1 .. Len(Requests) : Requests[i].resource = r
    /\ agent[a].read[r] # resource[r].revision
    /\ agent' = [agent EXCEPT ![a].read[r] = resource[r].revision]
    /\ UNCHANGED <<resource, fences, queue, reply>> /\ changes' = {}

(* A claim: the provider issues a lease with the next fence, and answers   *)
(* with any lease it has issued to that agent; a lease runs out at any     *)
(* time.                                                                   *)
Acquire(a, r) ==
    LET lease == [holder |-> a, fence |-> Len(fences) + 1, of |-> r] IN
    /\ ClaimRequestValid("acquire", 0, 1)
    /\ reply = NoReply
    /\ resource[r].lease = NoLease
    /\ Len(fences) < MaxFence
    /\ fences' = Append(fences, lease)
    /\ resource' = [resource EXCEPT ![r].lease = lease]
    /\ \E answer \in {lease} \cup {resource[q].lease : q \in Resources} :
          answer.holder = a /\ reply' = [for |-> r, lease |-> answer]
    /\ UNCHANGED <<agent, queue>> /\ changes' = {}
TakeClaim(a) ==
    /\ reply # NoReply /\ reply.lease.holder = a
    /\ reply' = NoReply
    /\ agent' = IF ClaimResultFor(TRUE, reply.lease, "acquire", reply.for)
                THEN [agent EXCEPT ![a].lease = [reply.lease EXCEPT !.of = reply.for]]
                ELSE agent
    /\ UNCHANGED <<resource, fences, queue>> /\ changes' = {}
Release(a, r) ==
    LET lease == agent[a].lease IN
    /\ lease # NoLease /\ lease.of = r
    /\ ClaimRequestValid("release", lease.fence, 0)
    /\ agent' = [agent EXCEPT ![a].lease = NoLease]
    /\ resource' = IF resource[r].lease.fence = lease.fence
                   THEN [resource EXCEPT ![r].lease = NoLease] ELSE resource
    /\ UNCHANGED <<fences, queue, reply>> /\ changes' = {}
Expire(r) ==
    /\ resource[r].lease # NoLease
    /\ resource' = [resource EXCEPT ![r].lease = NoLease]
    /\ UNCHANGED <<fences, agent, queue, reply>> /\ changes' = {}

(* What a write changes at the provider, field by field; only a task has a *)
(* status of a workflow.                                                   *)
Effects(request) ==
    (IF \/ request.action \in {"workflow.transition", "agent.complete"}
        \/ request.facade = "tasks" /\ "status" \in request.names
        THEN {"status"} ELSE {})
    \cup (IF request.action = "agent.complete" THEN {"completion"} ELSE {})
    \cup (IF "grants" \in request.carries THEN {"grants"} ELSE {})
    \cup (IF request.action \in {"draft.publish", "version.restore"} THEN {"publication"} ELSE {})
Conditions(request) ==
    /\ request.expected > 0 => request.expected = resource[request.resource].revision
    /\ "leaseFence" \in request.carries => request.fence = resource[request.resource].lease.fence
Do(a, request, offline) ==
    LET r == request.resource IN
    /\ Conditions(request)
    /\ resource[r].revision < MaxRevision
    /\ resource' = [resource EXCEPT ![r].revision = @ + 1]
    /\ changes' =
          {[what |-> e, action |-> request.action, offline |-> offline,
            held |-> resource[r].lease.holder = a,
            seen |-> agent[a].read[r] = resource[r].revision] : e \in Effects(request)}

(* An agent's write names the fence it holds and, if it names a revision,  *)
(* the one it has read.                                                    *)
Current == Scope(1, 1, 1)
Filled(a, request) ==
    LET held == agent[a].lease.of = request.resource IN
    [request EXCEPT
        !.fence = IF held THEN agent[a].lease.fence ELSE 0,
        !.carries = IF held THEN @ ELSE @ \ {"leaseFence"},
        !.expected = IF @ > 0 THEN agent[a].read[request.resource] ELSE 0]
Caps ==
    [revision |-> 1, operations |->
        [i \in 1 .. Len(Requests) |->
            [operation |-> Requests[i].action, supported |-> TRUE, authorized |-> TRUE, offline |-> "queue"]]]

WriteNow(a, request) ==
    /\ Do(a, request, FALSE)
    /\ WriteValid(request, Current)
    /\ RequireOperation(Current, Caps, request.action, FALSE)
    /\ UNCHANGED <<fences, agent, queue, reply>>
Keep(a, request) ==
    /\ queue = {}
    /\ WriteValid(request, Current)
    /\ RequireOperation(Current, Caps, request.action, TRUE)
    /\ queue' = queue \cup {[by |-> a, request |-> request]}
    /\ UNCHANGED <<resource, fences, agent, reply>> /\ changes' = {}
SendKept(k) ==
    /\ Do(k.by, k.request, TRUE)
    /\ queue' = queue \ {k}
    /\ UNCHANGED <<fences, agent, reply>>

WritesNext ==
    \/ \E a \in Agents, r \in Resources : Read(a, r) \/ Acquire(a, r) \/ Release(a, r)
    \/ \E a \in Agents : TakeClaim(a)
    \/ \E r \in Resources : Expire(r)
    \/ \E a \in Agents, i \in 1 .. Len(Requests) :
          WriteNow(a, Filled(a, Requests[i])) \/ Keep(a, Filled(a, Requests[i]))
    \/ \E k \in queue : SendKept(k)

WritesSpec == WritesInit /\ [][WritesNext]_writeVars

----------------------------------------------------------------------------
(* Work is completed by the agent that holds the lease at that moment: one *)
(* whose lease ran out, was released or is of another resource cannot      *)
(* (WriteRequest's fence, ClaimResult.ValidateFor).                        *)
CompletedByHolder == \A c \in changes : c.what = "completion" => c.held

(* No change of permissions and no completion comes out of the queue: only *)
(* an action that is online-only may carry them (ActionFields, OnlineOnly).*)
AuthorityOnline == \A c \in changes : c.offline => c.what \notin {"grants", "completion"}

(* What is published or restored is what its author had read: a draft that *)
(* another changed meanwhile is not (the expected revision).               *)
PublishedWasRead == \A c \in changes : c.what = "publication" => c.seen

(* A status changes by a transition or a completion, never as a field that *)
(* is patched or cleared.                                                  *)
StatusByWorkflow ==
    \A c \in changes : c.what = "status" => c.action \in {"workflow.transition", "agent.complete"}

(* A lease an agent believes it holds was issued to it for that resource.  *)
LeaseIsOfResource ==
    \A a \in Agents : agent[a].lease # NoLease => fences[agent[a].lease.fence] = agent[a].lease

(* Work is completed by the holder of its lease, published by an author    *)
(* who had read it, moved by its workflow, and authority changes online    *)
(* only; a lease is of the resource it was asked for (WriteRequest,        *)
(* ClaimResult.ValidateFor, OnlineOnly).                                   *)
WritesByRight ==
    CompletedByHolder /\ AuthorityOnline /\ PublishedWasRead /\ StatusByWorkflow /\ LeaseIsOfResource
=============================================================================
