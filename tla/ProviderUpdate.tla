--------------------------- MODULE ProviderUpdate ---------------------------
(***************************************************************************)
(* Hot update of provider nodes: the providers of adapter/provider apply   *)
(* new subscriptions (UpdateNodes), the outbound manager replaces and      *)
(* removes their nodes, a LifecycleGroup owns the running ones, and a      *)
(* selector over the providers follows through its callback.  Providers    *)
(* update at the same time; the shutdown of the box may come at any time.  *)
(*                                                                         *)
(* Endpoints, which UpdateNodes treats like outbounds, are left out, and   *)
(* so is the default outbound, which is never a node of a provider.  The   *)
(* selector has no direct outbounds and no configured default: Start looks *)
(* for the default before there are nodes, and fails without it.           *)
(***************************************************************************)
EXTENDS Naturals, FiniteSets

CONSTANTS
    Providers,
    TagsOf,       \* [Providers -> sets of tags]; a tag carries the provider's name
    Options,      \* configurations of a node
    Detour(_, _), \* the tag that a tag's configuration needs, or None
    Matching,     \* tags that the selector's filters let through
    Saved,        \* selections that an earlier run may have left, or None
    MaxUpdates,   \* bound on the number of updates of a provider
    Compatible,   \* the fallback outbound
    None

Tags == UNION {TagsOf[p] : p \in Providers}

ASSUME ProviderAssumption ==
    /\ \A p, q \in Providers : p # q => TagsOf[p] \cap TagsOf[q] = {}
    /\ \A p \in Providers, t \in Tags, o \in Options : t \in TagsOf[p] => Detour(t, o) \in TagsOf[p] \cup {None}
    /\ Matching \subseteq Tags /\ Saved \subseteq Tags \cup {None}
    /\ None \notin Tags \cup Options \cup Providers
    /\ MaxUpdates \in Nat

VARIABLES
    byTag,      \* m.outboundByTag: the published node of each tag, or None
    mutation,   \* the provider that holds m.mutation, or None
    running,    \* the nodes with a scope in the LifecycleGroup
    cancelled,  \* the context of the box's scope has been cancelled
    closed,     \* the LifecycleGroup has been closed
    pc,         \* where each provider's update is
    sub,        \* the subscription that is applied, a configuration or None for each tag
    todo,       \* tags the loop of UpdateNodes has still to visit, or Remove has still to remove
    out,        \* outByTag
    cur,        \* the tag, the old and the new node of Replace and Remove
    applied,    \* a.appliedOutbounds
    nodes,      \* a.outbounds
    updates,    \* number of updates so far
    cache,      \* s.outboundsCache of the selector, from some of the providers to sets of nodes
    members,    \* s.outbounds
    selected,   \* s.selected
    stored,     \* the selection in the cache file, or None
    unsaved     \* the last choice of the user could not be stored

manager == <<byTag, mutation>>
scopes == <<running, cancelled, closed>>
update == <<pc, sub, todo, out, cur>>
adapter == <<applied, nodes, updates>>
selector == <<cache, members, selected, stored, unsaved>>
vars == <<byTag, mutation, running, cancelled, closed, pc, sub, todo, out, cur,
          applied, nodes, updates, cache, members, selected, stored, unsaved>>

\* A node is an instance of a tag: what it was configured with, and by which update.
Node(t, o, n) == [tag |-> t, opt |-> o, n |-> n]
Nodes == [tag : Tags, opt : Options, n : Nat]
Fallback == Node(Compatible, None, 0)
Empty(p) == [t \in TagsOf[p] |-> None]
Nothing == [tag |-> None, old |-> None, new |-> None]

ASSUME NoneAssumption == None \notin Nodes

Init ==
    /\ byTag = [t \in Tags |-> None] /\ mutation = None
    /\ running = {} /\ cancelled = FALSE /\ closed = FALSE
    /\ pc = [p \in Providers |-> "idle"]
    /\ sub = [p \in Providers |-> Empty(p)]
    /\ todo = [p \in Providers |-> {}] /\ out = [p \in Providers |-> {}]
    /\ cur = [p \in Providers |-> Nothing]
    /\ applied = [p \in Providers |-> Empty(p)]
    /\ nodes = [p \in Providers |-> {}]
    /\ updates = [p \in Providers |-> 0]
    /\ cache = [p \in {} |-> {}]
    /\ members = {Fallback} /\ selected = Fallback
    /\ stored \in Saved
    /\ unsaved = FALSE

Goto(p, l) == pc' = [pc EXCEPT ![p] = l]
Listed(s) == {t \in DOMAIN s : s[t] # None}
TagSet(N) == {n.tag : n \in N}
Active(p) == TagSet(nodes[p])   \* activeOutboundTags

-----------------------------------------------------------------------------
(* LifecycleGroup                                                          *)

\* Remove closes the scope of a node, if it has one.
RemoveScope(n) == running' = running \ {n}

-----------------------------------------------------------------------------
(* UpdateNodes: the plan                                                   *)

Needs(s, t) == Detour(t, s[t])

\* The errors of visit: a cycle, a detour that does not exist, or one that
\* this update is going to remove.
Circular(s) == \E S \in SUBSET Listed(s) : S # {} /\ \A t \in S : Needs(s, t) \in S

Dangling(p, s) ==
    \E t \in Listed(s) :
        /\ Needs(s, t) \notin Listed(s) \cup {None}
        /\ byTag[Needs(s, t)] = None \/ applied[p][Needs(s, t)] # None

\* A file or a download brings a new subscription.  If it cannot be ordered,
\* nothing is changed, yet the groups are told.
Begin(p, s) ==
    /\ pc[p] = "idle" /\ updates[p] < MaxUpdates
    /\ updates' = [updates EXCEPT ![p] = @ + 1]
    /\ sub' = [sub EXCEPT ![p] = s]
    /\ IF Circular(s) \/ Dangling(p, s)
       THEN Goto(p, "groups") /\ UNCHANGED todo
       ELSE Goto(p, "node") /\ todo' = [todo EXCEPT ![p] = Listed(s)]
    /\ UNCHANGED <<manager, scopes, out, cur, applied, nodes, selector>>

\* visit puts a detour before the nodes that need it.
Visit(p, t) ==
    /\ pc[p] = "node" /\ t \in todo[p]
    /\ Needs(sub[p], t) \notin todo[p]

Unchanged(p, t) == byTag[t] # None /\ t \in Active(p) /\ sub[p][t] = applied[p][t]

Done(p, t, N) ==
    /\ out' = [out EXCEPT ![p] = @ \cup N]
    /\ todo' = [todo EXCEPT ![p] = @ \ {t}]
    /\ cur' = [cur EXCEPT ![p] = Nothing]
    /\ Goto(p, "node")

Keep(p, t) ==
    /\ Visit(p, t) /\ Unchanged(p, t)
    /\ Done(p, t, {byTag[t]})
    /\ UNCHANGED <<manager, scopes, sub, adapter, selector>>

-----------------------------------------------------------------------------
(* Replace                                                                 *)

\* Under m.mutation until the end.  The node is created, and started in a
\* scope of its own unless the box is closing.
Replace(p, t) ==
    /\ Visit(p, t) /\ ~Unchanged(p, t)
    /\ mutation = None /\ mutation' = p
    /\ LET node == Node(t, sub[p][t], updates[p])
       IN  /\ cur' = [cur EXCEPT ![p] = [tag |-> t, old |-> byTag[t], new |-> node]]
           /\ \/ Goto(p, "failed") /\ UNCHANGED running
              \/ ~cancelled /\ Goto(p, "start") /\ running' = running \cup {node}
    /\ UNCHANGED <<byTag, cancelled, closed, sub, todo, out, adapter, selector>>

StartClosesOld(p) ==   \* mutant: the old node is closed before the new one is published
    /\ pc[p] = "start"
    /\ \/ ~cancelled /\ Goto(p, "publish") /\ RemoveScope(cur[p].old)
       \/ Goto(p, "failed") /\ UNCHANGED running
    /\ UNCHANGED <<manager, cancelled, closed, sub, todo, out, cur, adapter, selector>>

\* The remaining stages, each of which looks at the context first.
Start(p) ==
    /\ pc[p] = "start"
    /\ \/ ~cancelled /\ Goto(p, "publish")
       \/ Goto(p, "failed")
    /\ UNCHANGED <<manager, scopes, sub, todo, out, cur, adapter, selector>>

FailedKeepsNothing(p) ==   \* mutant: a node that cannot be replaced is dropped from the list
    /\ pc[p] = "failed"
    /\ RemoveScope(cur[p].new)
    /\ mutation' = None
    /\ Done(p, cur[p].tag, {})
    /\ UNCHANGED <<byTag, cancelled, closed, sub, adapter, selector>>

FailedLocked(p) ==   \* mutant: the error path does not unlock m.mutation
    /\ pc[p] = "failed"
    /\ RemoveScope(cur[p].new)
    /\ Done(p, cur[p].tag, IF cur[p].tag \in Active(p) THEN {cur[p].old} ELSE {})
    /\ UNCHANGED <<manager, cancelled, closed, sub, adapter, selector>>

\* The candidate is closed, and the node that runs stays in the list.
Failed(p) ==
    /\ pc[p] = "failed"
    /\ RemoveScope(cur[p].new)
    /\ mutation' = None
    /\ Done(p, cur[p].tag, IF cur[p].tag \in Active(p) THEN {cur[p].old} ELSE {})
    /\ UNCHANGED <<byTag, cancelled, closed, sub, adapter, selector>>

Publish(p) ==
    /\ pc[p] = "publish"
    /\ byTag' = [byTag EXCEPT ![cur[p].tag] = cur[p].new]
    /\ Goto(p, "retire")
    /\ UNCHANGED <<mutation, scopes, sub, todo, out, cur, adapter, selector>>

RetireForgets(p) ==   \* mutant: the new configuration is not recorded
    /\ pc[p] = "retire"
    /\ RemoveScope(cur[p].old)
    /\ mutation' = None
    /\ Done(p, cur[p].tag, {byTag[cur[p].tag]})
    /\ UNCHANGED <<byTag, cancelled, closed, sub, adapter, selector>>

\* The old node is closed; UpdateNodes takes note of the new one.
Retire(p) ==
    /\ pc[p] = "retire"
    /\ RemoveScope(cur[p].old)
    /\ mutation' = None
    /\ applied' = [applied EXCEPT ![p][cur[p].tag] = sub[p][cur[p].tag]]
    /\ Done(p, cur[p].tag, {byTag[cur[p].tag]})
    /\ UNCHANGED <<byTag, cancelled, closed, sub, nodes, updates, selector>>

-----------------------------------------------------------------------------
(* removeUseless, and the end of UpdateNodes                               *)

EndNodes(p) ==
    /\ pc[p] = "node" /\ todo[p] = {}
    /\ todo' = [todo EXCEPT ![p] = Active(p) \ Listed(sub[p])]
    /\ Goto(p, "remove")
    /\ UNCHANGED <<manager, scopes, sub, out, cur, adapter, selector>>

\* Remove, under m.mutation: the node is taken out of the maps, ...
Remove(p, t) ==
    /\ pc[p] \in {"remove", "closing"} /\ t \in todo[p] /\ mutation = None
    /\ byTag' = [byTag EXCEPT ![t] = None]
    /\ mutation' = p
    /\ cur' = [cur EXCEPT ![p] = [tag |-> t, old |-> byTag[t], new |-> None]]
    /\ UNCHANGED <<scopes, pc, sub, todo, out, adapter, selector>>

\* ... and closed.
Removed(p) ==
    /\ pc[p] \in {"remove", "closing"} /\ cur[p] # Nothing
    /\ RemoveScope(cur[p].old)
    /\ mutation' = None
    /\ cur' = [cur EXCEPT ![p] = Nothing]
    /\ todo' = [todo EXCEPT ![p] = @ \ {cur[p].tag}]
    /\ UNCHANGED <<byTag, cancelled, closed, pc, sub, out, adapter, selector>>

\* The lists are published and what is no longer there is forgotten.
EndUpdate(p) ==
    /\ pc[p] = "remove" /\ todo[p] = {}
    /\ nodes' = [nodes EXCEPT ![p] = out[p]]
    /\ applied' = [applied EXCEPT ![p] =
                      [t \in TagsOf[p] |-> IF t \in TagSet(out[p]) THEN applied[p][t] ELSE None]]
    /\ Goto(p, "groups")
    /\ UNCHANGED <<manager, scopes, sub, todo, out, cur, updates, selector>>

-----------------------------------------------------------------------------
(* The selector                                                            *)

Filtered(p) == {n \in nodes[p] : n.tag \in Matching}

\* collectProviderOutbounds: the provider that has changed is read again, and
\* so is one without an entry in the cache.
NewCache(p) == [q \in Providers |-> IF q # p /\ q \in DOMAIN cache THEN cache[q] ELSE Filtered(q)]

NewMembers(c) == IF \A q \in Providers : c[q] = {} THEN {Fallback} ELSE UNION {c[q] : q \in Providers}

SelectCurrent(M) ==   \* mutant: the current tag comes before the stored choice
    IF selected.tag \in TagSet(M) THEN {n \in M : n.tag = selected.tag}
    ELSE IF stored \in TagSet(M) THEN {n \in M : n.tag = stored}
    ELSE M

\* outboundSelect: the stored choice, else the current tag, else the first member.
Select(M) ==
    IF stored \in TagSet(M) THEN {n \in M : n.tag = stored}
    ELSE IF selected.tag \in TagSet(M) THEN {n \in M : n.tag = selected.tag}
    ELSE M

\* onProviderUpdated, called by UpdateGroups.
UpdateGroups(p) ==
    /\ pc[p] = "groups"
    /\ cache' = NewCache(p)
    /\ members' = NewMembers(cache')
    /\ selected' \in Select(members')
    /\ Goto(p, "idle")
    /\ sub' = [sub EXCEPT ![p] = Empty(p)]
    /\ out' = [out EXCEPT ![p] = {}]
    /\ UNCHANGED <<manager, scopes, todo, cur, adapter, stored, unsaved>>

\* The user chooses; the error of StoreSelected is only logged.
SelectOutbound(n) ==
    /\ n \in members /\ n # selected
    /\ selected' = n
    /\ \/ stored' = n.tag /\ unsaved' = FALSE
       \/ UNCHANGED stored /\ unsaved' = TRUE
    /\ UNCHANGED <<manager, scopes, update, adapter, cache, members>>

-----------------------------------------------------------------------------
(* Shutdown                                                                *)

\* Box.Close cancels the context, ...
Cancel ==
    /\ ~cancelled
    /\ cancelled' = TRUE
    /\ UNCHANGED <<manager, running, closed, update, adapter, selector>>

\* ... closes the providers, which wait for their updates and remove their nodes, ...
CloseProvider(p) ==
    /\ cancelled /\ pc[p] = "idle"
    /\ todo' = [todo EXCEPT ![p] = Active(p)]
    /\ nodes' = [nodes EXCEPT ![p] = {}]
    /\ Goto(p, "closing")
    /\ UNCHANGED <<manager, scopes, sub, out, cur, applied, updates, selector>>

ProviderClosed(p) == pc[p] = "closing" /\ todo[p] = {}

\* ... and then the outbounds that are left.
CloseGroup ==
    /\ ~closed /\ \A p \in Providers : ProviderClosed(p)
    /\ closed' = TRUE
    /\ running' = {}
    /\ UNCHANGED <<manager, cancelled, update, adapter, selector>>

-----------------------------------------------------------------------------

Subscriptions(p) == [TagsOf[p] -> Options \cup {None}]

Step(p) ==
    \/ \E t \in TagsOf[p] : Keep(p, t) \/ Replace(p, t) \/ Remove(p, t)
    \/ Start(p) \/ Failed(p) \/ Publish(p) \/ Retire(p)
    \/ EndNodes(p) \/ Removed(p) \/ EndUpdate(p) \/ UpdateGroups(p)

Next ==
    \/ \E p \in Providers : Step(p) \/ CloseProvider(p) \/ \E s \in Subscriptions(p) : Begin(p, s)
    \/ \E n \in members : SelectOutbound(n)
    \/ Cancel \/ CloseGroup

\* Updates and the shutdown run on.
Fairness ==
    /\ \A p \in Providers : WF_vars(Step(p)) /\ WF_vars(CloseProvider(p))
    /\ WF_vars(CloseGroup)

Spec == Init /\ [][Next]_vars /\ Fairness

-----------------------------------------------------------------------------
(* Properties                                                              *)

\* The manager and the LifecycleGroup agree: a node that can be looked up has
\* been started and not closed, up to the end of the shutdown, and one that
\* runs can be looked up or is in the hands of the Replace or Remove that
\* publishes or closes it.
LiveIsPublished ==
    /\ \A t \in Tags : byTag[t] # None => byTag[t] \in running \/ closed
    /\ \A n \in running : byTag[n.tag] = n \/ \E p \in Providers : mutation = p /\ n \in {cur[p].old, cur[p].new}

Settled == \A p \in Providers : pc[p] = "idle"

\* Whatever updates of several providers overlap, and whichever nodes failed
\* to start: the selection is a member at all times, and once the updates are
\* over the members are the published nodes of all providers that pass the
\* filters, or the fallback if there are none.
GroupSettles ==
    /\ selected \in members
    /\ Settled =>
          LET live == {byTag[t] : t \in Matching} \ {None}
          IN  members = IF live = {} THEN {Fallback} ELSE live

\* The user's choice outlives updates: whenever a node with the stored tag is
\* a member, it is selected, also after it was away for a while, unless the
\* cache file failed to take the last choice.
SelectionSticks == ~unsaved /\ stored \in TagSet(members) => selected.tag = stored

\* Updates do not disturb nodes they do not change: a node is closed only if
\* it failed to start, if the subscription lists it no more or with another
\* configuration than the one it runs with, or in the shutdown.
OnlyChangedRestart ==
    [][\A n \in running \ running', p \in Providers : n.tag \in TagsOf[p] =>
          pc[p] \in {"failed", "closing"} \/ closed' \/ sub[p][n.tag] # n.opt]_vars

\* The shutdown ends, with every node closed, whatever it interrupts.
ShutdownCompletes == cancelled ~> (closed /\ running = {})
=============================================================================
