------------------------ MODULE ProviderUpdateProofs ------------------------
(***************************************************************************)
(* Proofs about ProviderUpdate, for any providers, tags, configurations    *)
(* and filters, and any number of updates.                                 *)
(*                                                                         *)
(* What a provider is doing is described by its own variables and by the   *)
(* published nodes of its own tags, so that the steps of one provider say  *)
(* nothing about another; they only meet at the lock of the manager, in    *)
(* the LifecycleGroup and in the selector.                                 *)
(***************************************************************************)
EXTENDS ProviderUpdate, TLAPS

Replacing == {"start", "failed", "publish", "retire"}
Removing == {"remove", "closing"}
Phases == {"idle", "node", "groups"} \cup Replacing \cup Removing

Target == [tag : Tags \cup {None}, old : Nodes \cup {None}, new : Nodes \cup {None}]

TypeOK ==
    /\ byTag \in [Tags -> Nodes \cup {None}]
    /\ mutation \in Providers \cup {None}
    /\ running \subseteq Nodes
    /\ pc \in [Providers -> Phases]
    /\ DOMAIN sub = Providers /\ \A p \in Providers : sub[p] \in Subscriptions(p)
    /\ DOMAIN todo = Providers /\ \A p \in Providers : todo[p] \subseteq TagsOf[p]
    /\ out \in [Providers -> SUBSET Nodes]
    /\ cur \in [Providers -> Target]
    /\ DOMAIN applied = Providers /\ \A p \in Providers : applied[p] \in Subscriptions(p)
    /\ nodes \in [Providers -> SUBSET Nodes]
    /\ updates \in [Providers -> Nat]

\* The lock of the manager is with the provider that is in a Replace or Remove.
LockInv == \A p \in Providers : mutation = p <=> cur[p] # Nothing

\* The tag whose new node has been published and not been taken note of.
Pending(p) == IF pc[p] = "retire" THEN {cur[p].tag} ELSE {}

\* What Replace and Remove have at hand.
CurInv(p) ==
    /\ pc[p] \in {"idle", "node", "groups"} => cur[p] = Nothing
    /\ pc[p] \in Replacing =>
          /\ cur[p].tag \in todo[p]
          /\ cur[p].new = Node(cur[p].tag, sub[p][cur[p].tag], updates[p])
          /\ pc[p] # "failed" => cur[p].new \in running
          /\ byTag[cur[p].tag] = IF pc[p] = "retire" THEN cur[p].new ELSE cur[p].old
          /\ cur[p].old # None => /\ cur[p].old.tag = cur[p].tag /\ cur[p].old.n < updates[p]
                                  /\ cur[p].old.opt # sub[p][cur[p].tag]
    /\ pc[p] \in Removing /\ cur[p] # Nothing =>
          /\ cur[p].tag \in todo[p] /\ cur[p].new = None /\ byTag[cur[p].tag] = None
          /\ cur[p].old # None => cur[p].old.tag = cur[p].tag

\* A published node has its tag, is not younger than the last update, older
\* as long as the update has still to visit it, and has the configuration
\* that has been taken note of.
NodeInv(p) ==
    \A t \in TagsOf[p] : byTag[t] # None =>
        /\ byTag[t].tag = t /\ byTag[t].n <= updates[p]
        /\ t \in todo[p] \ Pending(p) /\ pc[p] \in {"node"} \cup Replacing => byTag[t].n < updates[p]
        /\ t \notin Pending(p) => applied[p][t] = byTag[t].opt

\* The published nodes with tags in T.
Here(T) == {byTag[t] : t \in T} \ {None}

\* The lists of a provider, and what an update has got done.
ListInv(p) ==
    /\ Active(p) \subseteq TagsOf[p]
    /\ pc[p] \in {"idle", "groups"} => nodes[p] = Here(TagsOf[p])
    /\ pc[p] = "idle" => out[p] = {}
    /\ pc[p] \in {"node"} \cup Replacing =>
          /\ todo[p] \subseteq Listed(sub[p])
          /\ out[p] = Here(Listed(sub[p]) \ todo[p])
          /\ \A t \in todo[p] \cup (TagsOf[p] \ Listed(sub[p])) :
                 t \notin Pending(p) => (t \in Active(p) <=> byTag[t] # None)
    /\ pc[p] = "remove" =>
          /\ todo[p] \cap Listed(sub[p]) = {}
          /\ out[p] = Here(Listed(sub[p]))
          /\ \A t \in TagsOf[p] \ Listed(sub[p]) : byTag[t] # None => t \in todo[p]

ClosedInv == closed => \A p \in Providers : ProviderClosed(p)

\* The selector has read every provider that has not changed since.
Read(q) == IF q \in DOMAIN cache THEN cache[q] ELSE {}
CacheInv ==
    /\ \A q \in Providers : pc[q] \notin {"groups", "closing"} => Read(q) = Filtered(q)
    /\ members = NewMembers([q \in Providers |-> Read(q)])
    /\ selected \in members

Local(p) == CurInv(p) /\ NodeInv(p) /\ ListInv(p)

Inv ==
    /\ TypeOK /\ LockInv /\ ClosedInv
    /\ \A p \in Providers : Local(p)
    /\ LiveIsPublished /\ CacheInv /\ SelectionSticks

-----------------------------------------------------------------------------
(* Frames                                                                  *)

\* A step has left provider q alone.
Quiet(q) ==
    /\ pc'[q] = pc[q] /\ sub'[q] = sub[q] /\ todo'[q] = todo[q] /\ out'[q] = out[q] /\ cur'[q] = cur[q]
    /\ applied'[q] = applied[q] /\ nodes'[q] = nodes[q] /\ updates'[q] = updates[q]
    /\ \A t \in TagsOf[q] : byTag'[t] = byTag[t]
    /\ pc[q] \in Replacing /\ cur[q].new \in running => cur[q].new \in running'

\* The tags of a provider are tags, and of no other provider.
LEMMA TagsDisjoint ==
    ASSUME NEW p \in Providers, NEW t \in TagsOf[p]
    PROVE  t \in Tags /\ \A q \in Providers \ {p} : t \notin TagsOf[q]
BY ProviderAssumption DEF Tags

\* What holds of a provider goes on holding when it is left alone.
LEMMA QuietLocal ==
    ASSUME TypeOK, NEW q \in Providers, Local(q), Quiet(q)
    PROVE  Local(q)'
<1>0. /\ todo[q] \subseteq TagsOf[q] /\ sub[q] \in Subscriptions(q)
      /\ pc[q] \in Replacing => cur[q].tag \in TagsOf[q]
      /\ pc[q] \in Removing /\ cur[q] # Nothing => cur[q].tag \in TagsOf[q]
  BY DEF TypeOK, Local, CurInv
<1>1. CurInv(q)'
  BY <1>0 DEF Local, CurInv, Quiet, Replacing, Removing, Node
<1>2. NodeInv(q)'
  BY <1>0 DEF Local, NodeInv, Quiet, Pending, Replacing
<1>3. Here(TagsOf[q])' = Here(TagsOf[q])
  BY DEF Here, Quiet
<1>4. \A S \in SUBSET TagsOf[q] : Here(S)' = Here(S)
  BY DEF Here, Quiet
<1>5. Listed(sub[q]) \subseteq TagsOf[q]
  BY <1>0 DEF Listed, Subscriptions
<1>6. Active(q)' = Active(q) /\ Pending(q)' = Pending(q) /\ Listed(sub[q])' = Listed(sub[q])
  BY DEF Active, TagSet, Pending, Quiet, Listed
<1>7. ListInv(q)'
  <2>1. Here(Listed(sub[q]))' = Here(Listed(sub[q]))
    BY <1>4, <1>5, <1>6 DEF Here
  <2>2. Here(Listed(sub[q]) \ todo[q])' = Here(Listed(sub[q]) \ todo[q])
    BY <1>4, <1>5, <1>6 DEF Here, Quiet
  <2> QED
    BY <1>0, <1>3, <1>5, <1>6, <2>1, <2>2 DEF Local, ListInv, Quiet
<1> QED
  BY <1>1, <1>2, <1>7 DEF Local

\* Nodes are looked up and run as before.
LEMMA LiveSame ==
    ASSUME LiveIsPublished, byTag' = byTag, running' = running, mutation' = mutation,
           closed' = closed, TypeOK,
           \A q \in Providers : mutation = q => cur'[q] = cur[q]
    PROVE  LiveIsPublished'
BY DEF LiveIsPublished, TypeOK

\* The selector has still read what there is to read.
LEMMA CacheSame ==
    ASSUME CacheInv, UNCHANGED <<cache, members, selected>>,
           \A q \in Providers : pc'[q] \notin {"groups", "closing"} =>
               pc[q] \notin {"groups", "closing"} /\ nodes'[q] = nodes[q]
    PROVE  CacheInv'
<1>1. \A q \in Providers : Read(q)' = Read(q)
  BY DEF Read
<1>2. \A q \in Providers : nodes'[q] = nodes[q] => Filtered(q)' = Filtered(q)
  BY DEF Filtered
<1>3. NewMembers([q \in Providers |-> Read(q)])' = NewMembers([q \in Providers |-> Read(q)])
  BY <1>1, Zenon DEF NewMembers
<1> QED
  BY <1>1, <1>2, <1>3 DEF CacheInv

\* No provider moves in a closed LifecycleGroup.
LEMMA NotClosed ==
    ASSUME Inv, NEW p \in Providers, pc[p] # "closing" \/ todo[p] # {}
    PROVE  ~closed
BY DEF Inv, ClosedInv, ProviderClosed

\* A step of provider p keeps the invariant.
LEMMA StepOf ==
    ASSUME Inv, NEW p \in Providers, TypeOK', LockInv', Local(p)',
           \A q \in Providers \ {p} : Quiet(q),
           LiveIsPublished', CacheInv', SelectionSticks', ~closed, closed' = closed
    PROVE  Inv'
<1>1. \A q \in Providers : Local(q)'
  BY QuietLocal DEF Inv
<1> QED
  BY <1>1 DEF Inv, ClosedInv

-----------------------------------------------------------------------------
(* The actions                                                             *)

\* The list of a provider has exactly the tags of the nodes it is made of.
LEMMA TagsOfHere ==
    ASSUME TypeOK, NEW p \in Providers, NodeInv(p), NEW S \in SUBSET TagsOf[p]
    PROVE  TagSet(Here(S)) = {t \in S : byTag[t] # None}
<1>1. \A t \in S : byTag[t] # None => byTag[t].tag = t
  BY DEF NodeInv
<1> QED
  BY <1>1 DEF TagSet, Here

\* A subscription arrives; it has all of its nodes to visit.
LEMMA BeginStep ==
    ASSUME Inv, NEW p \in Providers, NEW s \in Subscriptions(p), Begin(p, s)
    PROVE  Inv'
<1>0. /\ TypeOK /\ LockInv /\ Local(p) /\ pc[p] = "idle" /\ ~closed /\ cur[p] = Nothing
      /\ nodes[p] = Here(TagsOf[p]) /\ out[p] = {}
  BY NotClosed, Zenon DEF Inv, Begin, Local, ListInv, CurInv
<1>1. Listed(s) \subseteq TagsOf[p]
  BY DEF Listed, Subscriptions
<1>2. TypeOK'
  <2>1. pc' \in [Providers -> Phases]
    BY <1>0 DEF TypeOK, Begin, Goto, Phases
  <2>2. DOMAIN todo' = Providers /\ \A q \in Providers : todo'[q] \subseteq TagsOf[q]
    BY <1>0, <1>1 DEF TypeOK, Begin
  <2> QED
    BY <1>0, <2>1, <2>2 DEF TypeOK, Begin, manager, scopes, selector
<1>3. /\ updates'[p] = updates[p] + 1 /\ sub'[p] = s
      /\ \/ pc'[p] = "groups" /\ todo'[p] = todo[p]
         \/ pc'[p] = "node" /\ todo'[p] = Listed(s)
  BY <1>0 DEF TypeOK, Begin, Goto
<1>4. \A q \in Providers \ {p} : Quiet(q)
  BY <1>0 DEF TypeOK, Begin, Goto, Quiet, manager, scopes
<1>5. LockInv' /\ CurInv(p)'
  BY <1>0, <1>3 DEF LockInv, CurInv, Begin, manager, Replacing, Removing
<1>6. NodeInv(p)'
  <2>1. \A t \in TagsOf[p] : byTag[t] # None => byTag[t].n \in Nat
    BY <1>0, TagsDisjoint DEF TypeOK, Nodes
  <2> QED
    BY <1>0, <1>3, <2>1 DEF Local, NodeInv, Begin, manager, Pending, TypeOK
<1>7. ListInv(p)'
  <2>1. Active(p) = {t \in TagsOf[p] : byTag[t] # None}
    BY <1>0, TagsOfHere DEF Active, Local
  <2>2. Active(p)' = Active(p) /\ Here(TagsOf[p])' = Here(TagsOf[p]) /\ Here({}) = {} /\ Here({})' = {}
    BY DEF Active, TagSet, Here, Begin, manager
  <2>3. Listed(s) \ Listed(s) = {}
    OBVIOUS
  <2>4. CASE pc'[p] = "groups"
    BY <1>0, <2>1, <2>2, <2>4 DEF ListInv, Begin, Replacing
  <2>5. CASE pc'[p] = "node" /\ todo'[p] = Listed(s)
    BY <1>0, <1>1, <1>3, <2>1, <2>2, <2>3, <2>5 DEF ListInv, Begin, Replacing, manager
  <2> QED
    BY <1>3, <2>4, <2>5
<1>8. LiveIsPublished'
  BY <1>0, LiveSame DEF Inv, Begin, manager, scopes
<1>9. CacheInv' /\ SelectionSticks'
  <2>1. \A q \in Providers : pc'[q] \notin {"groups", "closing"} =>
            pc[q] \notin {"groups", "closing"} /\ nodes'[q] = nodes[q]
    BY <1>0, <1>3, <1>4, Zenon DEF Quiet, Begin
  <2> QED
    BY <2>1, CacheSame DEF Inv, Begin, selector, SelectionSticks, TagSet
<1> QED
  BY <1>0, <1>2, <1>4, <1>5, <1>6, <1>7, <1>8, <1>9, StepOf DEF Local, Begin, scopes

\* A visit of UpdateNodes to tag t is over: the provider's list has what is
\* published of it.
LEMMA VisitDone ==
    ASSUME Inv, NEW p \in Providers, NEW t \in todo[p], NEW N,
           pc[p] \in {"node"} \cup Replacing, Pending(p) \subseteq {t},
           Done(p, t, N), N = {byTag[t]} \ {None},
           UNCHANGED <<byTag, sub, nodes, updates>>, DOMAIN applied' = Providers,
           \A q \in Providers : applied'[q] \in Subscriptions(q),
           \A q \in Providers \ {p} : applied'[q] = applied[q],
           \A u \in TagsOf[p] \ {t} : applied'[p][u] = applied[p][u],
           byTag[t] # None => applied'[p][t] = byTag[t].opt,
           running' \subseteq Nodes, mutation' \in Providers \cup {None},
           \A q \in Providers \ {p} : pc[q] \in Replacing => running' = running,
           UNCHANGED <<cache, members, selected, stored, unsaved>>
    PROVE  /\ TypeOK' /\ Local(p)' /\ CacheInv' /\ SelectionSticks'
           /\ \A q \in Providers \ {p} : Quiet(q)
           /\ cur'[p] = Nothing
<1>0. /\ TypeOK /\ Local(p) /\ t \in TagsOf[p] /\ t \in Tags /\ todo[p] \subseteq Listed(sub[p])
      /\ Listed(sub[p]) \subseteq TagsOf[p]
  BY TagsDisjoint, Zenon DEF Inv, TypeOK, Local, ListInv, Listed, Subscriptions
<1>1. /\ pc'[p] = "node" /\ todo'[p] = todo[p] \ {t} /\ cur'[p] = Nothing /\ out'[p] = out[p] \cup N
      /\ \A q \in Providers \ {p} :
            /\ pc'[q] = pc[q] /\ todo'[q] = todo[q] /\ cur'[q] = cur[q] /\ out'[q] = out[q]
  BY <1>0 DEF TypeOK, Done, Goto
<1>2. TypeOK'
  <2>1. N \subseteq Nodes
    BY <1>0 DEF TypeOK
  <2>2. out' \in [Providers -> SUBSET Nodes]
    BY <1>0, <2>1 DEF TypeOK, Done
  <2>3. cur' \in [Providers -> Target]
    <3>1. Nothing \in Target
      BY DEF Nothing, Target
    <3> QED
      BY <1>0, <3>1 DEF TypeOK, Done
  <2>4. pc' \in [Providers -> Phases]
    BY <1>0 DEF TypeOK, Done, Goto, Phases
  <2>5. DOMAIN todo' = Providers /\ \A q \in Providers : todo'[q] \subseteq TagsOf[q]
    BY <1>0, <1>1, Zenon DEF TypeOK, Done
  <2> QED
    BY <1>0, <2>2, <2>3, <2>4, <2>5 DEF TypeOK
<1>3. Pending(p)' = {}
  BY <1>1 DEF Pending
<1>4. CurInv(p)'
  BY <1>1, Zenon DEF CurInv, Replacing, Removing
<1>5. NodeInv(p)'
  BY <1>0, <1>1, <1>3 DEF Local, NodeInv
<1>6. ListInv(p)'
  <2>1. Here(Listed(sub[p]) \ todo[p])' = Here(Listed(sub[p]) \ todo[p]) \cup N
    <3>1. (Listed(sub[p]) \ todo[p])' = (Listed(sub[p]) \ todo[p]) \cup {t}
      BY <1>0, <1>1, Zenon DEF Listed
    <3>2. Here(Listed(sub[p]) \ todo[p])' = {byTag[u] : u \in (Listed(sub[p]) \ todo[p])'} \ {None}
      BY Zenon DEF Here
    <3>3. {byTag[u] : u \in (Listed(sub[p]) \ todo[p]) \cup {t}} \ {None}
              = ({byTag[u] : u \in Listed(sub[p]) \ todo[p]} \ {None}) \cup ({byTag[t]} \ {None})
      BY Zenon
    <3> QED
      BY <3>1, <3>2, <3>3, Zenon DEF Here
  <2>2. Active(p)' = Active(p) /\ Listed(sub[p])' = Listed(sub[p])
    BY Zenon DEF Active, TagSet, Listed
  <2>3. \A u \in todo'[p] \cup (TagsOf[p] \ Listed(sub[p])) : u \in Active(p) <=> byTag[u] # None
    BY <1>0, <1>1, Zenon DEF Local, ListInv
  <2>4. out[p] = Here(Listed(sub[p]) \ todo[p]) /\ Active(p) \subseteq TagsOf[p]
    BY <1>0, Zenon DEF Local, ListInv
  <2> QED
    <3>1. out'[p] = Here(Listed(sub[p]) \ todo[p])' /\ Active(p)' \subseteq TagsOf[p]
      BY <1>1, <2>1, <2>2, <2>4, Zenon
    <3>2. \A u \in todo'[p] \cup (TagsOf[p] \ Listed(sub[p])') : u \in Active(p)' <=> byTag'[u] # None
      BY <2>2, <2>3, Zenon
    <3>3. pc'[p] \notin {"idle", "groups", "remove"}
      BY <1>1
    <3>4. todo'[p] \subseteq Listed(sub[p])'
      BY <1>0, <1>1, <2>2, Zenon
    <3> QED
      BY <3>1, <3>2, <3>3, <3>4, Zenon DEF ListInv
<1>7. CacheInv' /\ SelectionSticks'
  <2>1. \A q \in Providers : pc'[q] \notin {"groups", "closing"} =>
            pc[q] \notin {"groups", "closing"} /\ nodes'[q] = nodes[q]
    BY <1>0, <1>1, Zenon DEF Replacing
  <2> QED
    BY <2>1, CacheSame, Zenon DEF Inv, SelectionSticks, TagSet
<1>8. \A q \in Providers \ {p} : Quiet(q)
  BY <1>1, Zenon DEF Quiet
<1> QED
  BY <1>1, <1>2, <1>4, <1>5, <1>6, <1>7, <1>8 DEF Local

\* A node with an unchanged configuration is kept.
LEMMA KeepStep ==
    ASSUME Inv, NEW p \in Providers, NEW t \in TagsOf[p], Keep(p, t)
    PROVE  Inv'
<1>0. /\ TypeOK /\ LockInv /\ Local(p) /\ pc[p] = "node" /\ ~closed /\ cur[p] = Nothing
      /\ t \in todo[p] /\ byTag[t] # None /\ Pending(p) = {}
  BY NotClosed, Zenon DEF Inv, Keep, Visit, Unchanged, Local, CurInv, Pending
<1>1. applied[p][t] = byTag[t].opt
  BY <1>0, Zenon DEF Local, NodeInv
<1>2. /\ TypeOK' /\ Local(p)' /\ CacheInv' /\ SelectionSticks'
      /\ \A q \in Providers \ {p} : Quiet(q)
      /\ cur'[p] = Nothing
  BY <1>0, <1>1, VisitDone, Zenon DEF Keep, TypeOK, manager, scopes, adapter, selector
<1>3. LockInv' /\ LiveIsPublished'
  <2>1. \A q \in Providers : cur'[q] = cur[q]
    BY <1>0, <1>2, Zenon DEF Quiet
  <2> QED
    BY <1>0, <2>1, LiveSame DEF LockInv, Inv, Keep, manager, scopes
<1> QED
  BY <1>0, <1>2, <1>3, StepOf DEF Keep, scopes

\* The stages of a new node end, well or not, before it is published.
LEMMA StartStep ==
    ASSUME Inv, NEW p \in Providers, Start(p)
    PROVE  Inv'
<1>0. /\ TypeOK /\ LockInv /\ Local(p) /\ pc[p] = "start" /\ ~closed
      /\ pc'[p] \in {"publish", "failed"}
      /\ \A q \in Providers \ {p} : pc'[q] = pc[q]
  BY NotClosed DEF Inv, Start, Goto, TypeOK
<1>1. TypeOK'
  BY <1>0 DEF TypeOK, Start, Goto, Phases, Replacing, manager, scopes, adapter, selector
<1>2. \A q \in Providers \ {p} : Quiet(q)
  BY <1>0, Zenon DEF Start, Quiet, manager, scopes, adapter
<1>3. LockInv' /\ LiveIsPublished' /\ SelectionSticks'
  BY <1>0, LiveSame DEF LockInv, Inv, Start, manager, scopes, selector, SelectionSticks, TagSet
<1>4. CurInv(p)'
  BY <1>0 DEF Local, CurInv, Start, Replacing, Removing, manager, scopes, adapter
<1>5. Pending(p)' = {} /\ Pending(p) = {}
  BY <1>0, Zenon DEF Pending
<1>6. NodeInv(p)'
  BY <1>0, <1>5, Zenon DEF Local, NodeInv, Start, Replacing, manager, adapter
<1>7. ListInv(p)'
  <2>1. Active(p)' = Active(p) /\ Here(Listed(sub[p]) \ todo[p])' = Here(Listed(sub[p]) \ todo[p])
    BY SMTT(30) DEF Active, TagSet, Here, Start, manager, adapter, Listed
  <2> QED
    BY <1>0, <1>5, <2>1 DEF Local, ListInv, Start, Replacing, manager, adapter
<1>8. CacheInv'
  <2>1. \A q \in Providers : pc'[q] \notin {"groups", "closing"} =>
            pc[q] \notin {"groups", "closing"} /\ nodes'[q] = nodes[q]
    BY <1>0 DEF Start, adapter
  <2> QED
    BY <2>1, CacheSame DEF Inv, Start, selector
<1> QED
  BY <1>0, <1>1, <1>2, <1>3, <1>4, <1>6, <1>7, <1>8, StepOf, ZenonT(30) DEF Local, Start, scopes

\* While the lock is free, no Replace or Remove is under way.
LEMMA LockFree ==
    ASSUME Inv, mutation = None
    PROVE  /\ \A q \in Providers : cur[q] = Nothing
           /\ \A n \in running : byTag[n.tag] = n
BY ProviderAssumption DEF Inv, LockInv, LiveIsPublished

\* While it is taken, the others have nothing in their hands.
LEMMA LockTaken ==
    ASSUME Inv, NEW p \in Providers, pc[p] \in Replacing \/ cur[p] # Nothing
    PROVE  /\ mutation = p /\ cur[p] # Nothing
           /\ \A q \in Providers \ {p} : cur[q] = Nothing /\ pc[q] \notin Replacing
<1>1. \A q \in Providers : pc[q] \in Replacing => cur[q] # Nothing
  <2>1. \A q \in Providers : pc[q] \in Replacing => cur[q].tag \in Tags
    BY TagsDisjoint DEF Inv, Local, CurInv, TypeOK
  <2> QED
    BY <2>1, ProviderAssumption DEF Nothing
<1> QED
  BY <1>1 DEF Inv, LockInv

\* Replace takes the lock for a new node or for another configuration.
LEMMA ReplaceStep ==
    ASSUME Inv, NEW p \in Providers, NEW t \in TagsOf[p], Replace(p, t)
    PROVE  Inv'
<1>0. /\ TypeOK /\ LockInv /\ Local(p) /\ pc[p] = "node" /\ ~closed /\ t \in todo[p] /\ t \in Tags
      /\ Pending(p) = {} /\ mutation = None /\ mutation' = p /\ t # None
  BY NotClosed, TagsDisjoint, ProviderAssumption, Zenon DEF Inv, Replace, Visit, Local, Pending
<1> DEFINE node == Node(t, sub[p][t], updates[p])
           c == [tag |-> t, old |-> byTag[t], new |-> node]
<1>1. node \in Nodes /\ c \in Target
  <2>1. sub[p][t] \in Options
    BY <1>0, Zenon DEF Local, ListInv, Listed, TypeOK, Subscriptions
  <2>2. node \in Nodes
    BY <1>0, <2>1 DEF Node, Nodes, TypeOK
  <2> QED
    BY <1>0, <2>2, Zenon DEF Target, TypeOK
<1>2. /\ cur'[p] = c /\ \A q \in Providers \ {p} : cur'[q] = cur[q] /\ pc'[q] = pc[q]
      /\ \/ pc'[p] = "failed" /\ running' = running
         \/ pc'[p] = "start" /\ running' = running \cup {node}
  BY <1>0, Zenon DEF TypeOK, Replace, Goto
<1> HIDE DEF node
<1>3. TypeOK'
  <2>1. pc' \in [Providers -> Phases]
    BY <1>0, Zenon DEF TypeOK, Replace, Goto, Phases, Replacing
  <2>2. cur' \in [Providers -> Target]
    BY <1>0, <1>1 DEF TypeOK, Replace, node
  <2>3. running' \subseteq Nodes
    BY <1>0, <1>1, <1>2 DEF TypeOK
  <2> QED
    BY <1>0, <2>1, <2>2, <2>3, Zenon DEF TypeOK, Replace, adapter, selector
<1>4. LockInv'
  <2>1. c # Nothing
    BY <1>0, Zenon DEF Nothing
  <2> QED
    BY <1>0, <1>2, <2>1, LockFree, Zenon DEF LockInv
<1>5. CurInv(p)'
  <2>1. byTag[t] # None => byTag[t].tag = t /\ byTag[t].n < updates[p] /\ byTag[t].opt = applied[p][t]
    BY <1>0 DEF Local, NodeInv
  <2>2. byTag[t] # None => sub[p][t] # applied[p][t]
    BY <1>0, Zenon DEF Local, ListInv, Replace, Unchanged
  <2>3. UNCHANGED <<byTag, sub, todo, updates>>
    BY Zenon DEF Replace, adapter
  <2>4. pc'[p] # "failed" => node \in running'
    BY <1>2
  <2>5. node = Node(t, sub[p][t], updates[p])
    BY DEF node
  <2> QED
    BY <1>0, <1>2, <2>1, <2>2, <2>3, <2>4, <2>5 DEF CurInv, Replacing, Removing
<1>6. Pending(p)' = {}
  BY <1>2 DEF Pending
<1>7. NodeInv(p)'
  BY <1>0, <1>2, <1>6, Zenon DEF Local, NodeInv, Replace, Replacing, adapter
<1>8. ListInv(p)'
  <2>1. Active(p)' = Active(p) /\ Here(Listed(sub[p]) \ todo[p])' = Here(Listed(sub[p]) \ todo[p])
    BY Zenon DEF Active, TagSet, Here, Replace, adapter, Listed
  <2> QED
    BY <1>0, <1>2, <1>6, <2>1, ZenonT(30) DEF Local, ListInv, Replace, Replacing, adapter
<1>9. \A q \in Providers \ {p} : Quiet(q)
  BY <1>2, Zenon DEF Quiet, Replace, adapter
<1>10. LiveIsPublished'
  BY <1>0, <1>2, LockFree DEF LiveIsPublished, Inv, Replace
<1>11. CacheInv' /\ SelectionSticks'
  <2>1. \A q \in Providers : pc'[q] \notin {"groups", "closing"} =>
            pc[q] \notin {"groups", "closing"} /\ nodes'[q] = nodes[q]
    BY <1>0, <1>2 DEF Replace, adapter
  <2> QED
    BY <2>1, CacheSame, Zenon DEF Inv, Replace, selector, SelectionSticks, TagSet
<1> QED
  BY <1>0, <1>3, <1>4, <1>5, <1>7, <1>8, <1>9, <1>10, <1>11, StepOf, Zenon DEF Local, Replace

\* A node is published under its tag.
LEMMA PublishedTag ==
    ASSUME Inv, NEW t \in Tags, byTag[t] # None
    PROVE  byTag[t].tag = t /\ byTag[t] \in Nodes
BY DEF Tags, Inv, Local, NodeInv, TypeOK

\* What a Replace has in its hands.
LEMMA ReplaceTarget ==
    ASSUME Inv, NEW p \in Providers, pc[p] \in Replacing, NEW t, t = cur[p].tag
    PROVE  /\ t \in todo[p] /\ t \in TagsOf[p] /\ t \in Tags /\ sub[p][t] \in Options
           /\ cur[p].new \in Nodes /\ cur[p].new.tag = t /\ cur[p].new.n = updates[p]
           /\ cur[p].new.opt = sub[p][t]
           /\ cur[p].old # None => cur[p].old \in Nodes /\ cur[p].old.tag = t /\ cur[p].old # cur[p].new
<1>1. t \in todo[p] /\ t \in TagsOf[p] /\ t \in Tags
  BY TagsDisjoint DEF Inv, TypeOK, Local, CurInv
<1>2. sub[p][t] \in Options
  <2>1. todo[p] \subseteq Listed(sub[p])
    BY Zenon DEF Inv, Local, ListInv
  <2>2. sub[p] \in [TagsOf[p] -> Options \cup {None}]
    BY DEF Inv, TypeOK, Subscriptions
  <2> QED
    BY <1>1, <2>1, <2>2 DEF Listed
<1>3. updates[p] \in Nat /\ cur[p].old \in Nodes \cup {None}
  BY Zenon DEF Inv, TypeOK, Target
<1>4. cur[p].new = Node(t, sub[p][t], updates[p])
  BY Zenon DEF Inv, Local, CurInv
<1>5. /\ cur[p].new \in Nodes /\ cur[p].new.tag = t /\ cur[p].new.n = updates[p]
      /\ cur[p].new.opt = sub[p][t]
  <2>1. Node(t, sub[p][t], updates[p]) = [tag |-> t, opt |-> sub[p][t], n |-> updates[p]]
    BY Zenon DEF Node
  <2>2. t \in Tags /\ sub[p][t] \in Options /\ updates[p] \in Nat
    BY <1>1, <1>2, <1>3, Zenon
  <2>3. cur[p].new \in Nodes
    BY <1>4, <2>1, <2>2 DEF Nodes
  <2> QED
    BY <1>4, <2>1, <2>3
<1>6. cur[p].old # None => cur[p].old.tag = t /\ cur[p].old.n < updates[p]
  BY DEF Inv, Local, CurInv
<1>7. cur[p].old # None => cur[p].old # cur[p].new
  BY <1>3, <1>5, <1>6
<1> QED
  BY <1>1, <1>2, <1>3, <1>5, <1>6, <1>7, Zenon

\* Closing a scope that is not the one of the published node.
LEMMA CloseUnpublished ==
    ASSUME Inv, NEW p \in Providers, mutation = p, NEW o, NEW k, {cur[p].old, cur[p].new} = {o, k},
           k \in Nodes => byTag[k.tag] = k, o \in Nodes => byTag[o.tag] # o,
           RemoveScope(o), byTag' = byTag, mutation' = None, closed' = closed
    PROVE  LiveIsPublished' /\ running' \subseteq Nodes
<1>0. running \subseteq Nodes
  BY DEF Inv, TypeOK
<1>1. \A t \in Tags : byTag'[t] # None => byTag'[t] \in running' \/ closed'
  BY PublishedTag DEF Inv, LiveIsPublished, RemoveScope
<1>2. \A n \in running' : byTag'[n.tag] = n
  BY <1>0 DEF Inv, LiveIsPublished, RemoveScope
<1> QED
  BY <1>0, <1>1, <1>2 DEF LiveIsPublished, RemoveScope

\* A node that did not start is closed; what was published stays so.
LEMMA FailedStep ==
    ASSUME Inv, NEW p \in Providers, Failed(p)
    PROVE  Inv'
<1>0. /\ TypeOK /\ Local(p) /\ pc[p] = "failed" /\ ~closed /\ Pending(p) = {}
      /\ mutation' = None /\ mutation = p
      /\ \A q \in Providers \ {p} : cur[q] = Nothing /\ pc[q] \notin Replacing
  BY NotClosed, LockTaken DEF Inv, Failed, Pending, Replacing
<1>1. PICK t : t = cur[p].tag
  BY Zenon
<1>2. /\ t \in todo[p] /\ t \in TagsOf[p] /\ t \in Tags /\ cur[p].new \in Nodes /\ cur[p].new.tag = t
      /\ cur[p].old # None => cur[p].old \in Nodes /\ cur[p].old.tag = t /\ cur[p].old # cur[p].new
  BY <1>0, <1>1, ReplaceTarget DEF Replacing
<1>3. byTag[t] = cur[p].old /\ (t \in Active(p) <=> byTag[t] # None)
  BY <1>0, <1>1, <1>2, Zenon DEF Local, CurInv, ListInv, Replacing
<1>4. LiveIsPublished' /\ running' \subseteq Nodes
  <2>1. cur[p].old \in Nodes => byTag[cur[p].old.tag] = cur[p].old
    BY <1>2, <1>3, NoneAssumption
  <2>2. byTag[cur[p].new.tag] # cur[p].new
    BY <1>2, <1>3, NoneAssumption
  <2> QED
    BY <1>0, <2>1, <2>2, CloseUnpublished, Zenon DEF Failed
<1>5. Done(p, t, {byTag[t]} \ {None})
  BY <1>1, <1>3, Zenon DEF Failed
<1>6. byTag[t] # None => applied[p][t] = byTag[t].opt
  BY <1>0, <1>2 DEF Local, NodeInv
<1>7. UNCHANGED <<byTag, sub, nodes, updates, applied, cache, members, selected, stored, unsaved, closed>>
  BY DEF Failed, adapter, selector
<1>8. /\ TypeOK' /\ Local(p)' /\ CacheInv' /\ SelectionSticks'
      /\ \A q \in Providers \ {p} : Quiet(q)
      /\ cur'[p] = Nothing
  BY <1>0, <1>2, <1>4, <1>5, <1>6, <1>7, VisitDone, Zenon DEF TypeOK, Replacing
<1>9. LockInv'
  BY <1>0, <1>8, ProviderAssumption DEF LockInv, Quiet
<1> QED
  BY <1>0, <1>4, <1>7, <1>8, <1>9, StepOf

\* The node that has been replaced is closed.
LEMMA RetireStep ==
    ASSUME Inv, NEW p \in Providers, Retire(p)
    PROVE  Inv'
<1>0. /\ TypeOK /\ Local(p) /\ pc[p] = "retire" /\ ~closed
      /\ mutation' = None /\ mutation = p
      /\ \A q \in Providers \ {p} : cur[q] = Nothing /\ pc[q] \notin Replacing
  BY NotClosed, LockTaken DEF Inv, Retire, Replacing
<1>1. PICK t : t = cur[p].tag
  BY Zenon
<1>2. /\ t \in todo[p] /\ t \in TagsOf[p] /\ t \in Tags /\ cur[p].new \in Nodes /\ cur[p].new.tag = t
      /\ sub[p][t] \in Options /\ cur[p].new.opt = sub[p][t]
      /\ cur[p].old # None => cur[p].old \in Nodes /\ cur[p].old.tag = t /\ cur[p].old # cur[p].new
  BY <1>0, <1>1, ReplaceTarget DEF Replacing
<1>3. byTag[t] = cur[p].new /\ Pending(p) = {t}
  BY <1>0, <1>1 DEF Local, CurInv, Replacing, Pending
<1>4. LiveIsPublished' /\ running' \subseteq Nodes
  <2>1. byTag[cur[p].new.tag] = cur[p].new
    BY <1>2, <1>3
  <2>2. cur[p].old \in Nodes => byTag[cur[p].old.tag] # cur[p].old
    BY <1>2, <1>3, NoneAssumption
  <2> QED
    BY <1>0, <2>1, <2>2, CloseUnpublished DEF Retire
<1>5. Done(p, t, {byTag[t]} \ {None})
  BY <1>1, <1>2, <1>3, NoneAssumption DEF Retire
<1>6. UNCHANGED <<byTag, sub, nodes, updates, cache, members, selected, stored, unsaved, closed>>
  BY DEF Retire, selector
<1>7. /\ DOMAIN applied' = Providers
      /\ applied'[p] = [applied[p] EXCEPT ![t] = sub[p][t]]
      /\ \A q \in Providers \ {p} : applied'[q] = applied[q]
  BY <1>0, <1>1, Zenon DEF Retire, TypeOK
<1>8. /\ applied'[p][t] = byTag[t].opt /\ \A u \in TagsOf[p] \ {t} : applied'[p][u] = applied[p][u]
      /\ \A q \in Providers : applied'[q] \in Subscriptions(q)
  <2>1. applied[p] \in [TagsOf[p] -> Options \cup {None}] /\ \A q \in Providers : applied[q] \in Subscriptions(q)
    BY <1>0, Zenon DEF TypeOK, Subscriptions
  <2>2. applied'[p] \in Subscriptions(p)
    BY <1>2, <1>7, <2>1 DEF Subscriptions
  <2> QED
    BY <1>2, <1>3, <1>7, <2>1, <2>2
<1>9. /\ TypeOK' /\ Local(p)' /\ CacheInv' /\ SelectionSticks'
      /\ \A q \in Providers \ {p} : Quiet(q)
      /\ cur'[p] = Nothing
  BY <1>0, <1>2, <1>3, <1>4, <1>5, <1>6, <1>7, <1>8, VisitDone, Zenon DEF TypeOK, Replacing
<1>10. LockInv'
  BY <1>0, <1>9, ProviderAssumption, Zenon DEF LockInv, Quiet
<1> QED
  BY <1>0, <1>4, <1>6, <1>9, <1>10, StepOf, Zenon

\* The new node is published, in place of the old one.
LEMMA PublishStep ==
    ASSUME Inv, NEW p \in Providers, Publish(p)
    PROVE  Inv'
<1>0. /\ TypeOK /\ LockInv /\ Local(p) /\ pc[p] = "publish" /\ ~closed /\ mutation = p
      /\ pc'[p] = "retire" /\ Pending(p) = {} /\ \A q \in Providers \ {p} : pc'[q] = pc[q]
  BY NotClosed, LockTaken DEF Inv, Publish, Replacing, Pending, Goto, TypeOK
<1>1. PICK t : t = cur[p].tag
  BY Zenon
<1>2. /\ t \in todo[p] /\ t \in TagsOf[p] /\ t \in Tags /\ cur[p].new \in Nodes /\ cur[p].new.tag = t
      /\ cur[p].new.n = updates[p] /\ updates[p] \in Nat /\ t \notin Tags \ {t}
      /\ byTag[t] = cur[p].old /\ cur[p].new \in running
  <2>1. pc[p] \in Replacing
    BY <1>0, Zenon DEF Replacing
  <2>2. /\ t \in todo[p] /\ t \in TagsOf[p] /\ t \in Tags /\ cur[p].new \in Nodes /\ cur[p].new.tag = t
        /\ cur[p].new.n = updates[p]
    BY <1>1, <2>1, ReplaceTarget, Zenon
  <2>3. pc[p] # "failed" /\ pc[p] # "retire"
    BY <1>0
  <2>4. byTag[t] = cur[p].old /\ cur[p].new \in running
    BY <1>0, <1>1, <2>1, <2>3, Zenon DEF Local, CurInv
  <2>5. updates[p] \in Nat
    BY <1>0, Zenon DEF TypeOK
  <2> QED
    BY <2>2, <2>4, <2>5, Zenon
<1>3. byTag'[t] = cur[p].new /\ \A u \in Tags \ {t} : byTag'[u] = byTag[u]
  BY <1>0, <1>1, <1>2, Zenon DEF Publish, TypeOK
<1>4. Pending(p)' = {t}
  BY <1>0, <1>1, Zenon DEF Pending, Publish
<1>5. TypeOK'
  <2>1. pc' \in [Providers -> Phases] /\ byTag' \in [Tags -> Nodes \cup {None}]
    BY <1>0, <1>1, <1>2 DEF TypeOK, Publish, Goto, Phases, Replacing
  <2> QED
    BY <1>0, <2>1, Zenon DEF TypeOK, Publish, scopes, adapter, selector
<1>6. \A q \in Providers \ {p} : Quiet(q)
  <2>1. \A q \in Providers \ {p} : \A u \in TagsOf[q] : byTag'[u] = byTag[u]
    BY <1>2, <1>3, TagsDisjoint
  <2> QED
    BY <1>0, <2>1, Zenon DEF Quiet, Publish, scopes, adapter
<1>7. LockInv' /\ SelectionSticks'
  BY <1>0, Zenon DEF LockInv, Publish, Inv, selector, SelectionSticks, TagSet
<1>8. CurInv(p)'
  BY <1>0, <1>1, <1>3, Zenon DEF Local, CurInv, Publish, Replacing, Removing, scopes, adapter
<1>9. NodeInv(p)'
  BY <1>0, <1>2, <1>3, <1>4, TagsDisjoint DEF Local, NodeInv, Publish, Replacing, adapter
<1>10. ListInv(p)'
  <2>1. Active(p)' = Active(p) /\ Listed(sub[p])' = Listed(sub[p])
    BY Zenon DEF Active, TagSet, Publish, adapter, Listed
  <2>2. Listed(sub[p]) \subseteq TagsOf[p]
    BY <1>0, Zenon DEF TypeOK, Listed, Subscriptions
  <2>3. Here(Listed(sub[p]) \ todo[p])' = Here(Listed(sub[p]) \ todo[p])
    <3>1. \A u \in Listed(sub[p]) \ todo[p] : byTag'[u] = byTag[u]
      BY <1>2, <1>3, <2>2, TagsDisjoint, Zenon
    <3> QED
      BY <3>1, <2>1 DEF Here, Publish
  <2>4. \A u \in todo[p] \cup (TagsOf[p] \ Listed(sub[p])) : u # t => byTag'[u] = byTag[u]
    BY <1>0, <1>3, TagsDisjoint, Zenon DEF TypeOK
  <2> QED
    BY <1>0, <1>4, <2>1, <2>3, <2>4, Zenon DEF Local, ListInv, Publish, Replacing, adapter
<1>11. CacheInv'
  <2>1. \A q \in Providers : pc'[q] \notin {"groups", "closing"} =>
            pc[q] \notin {"groups", "closing"} /\ nodes'[q] = nodes[q]
    BY <1>0, Zenon DEF Publish, adapter
  <2> QED
    BY <2>1, CacheSame, Zenon DEF Inv, Publish, selector
<1>12. LiveIsPublished'
  <2>1. \A u \in Tags : byTag'[u] # None => byTag'[u] \in running' \/ closed'
    <3>1. \A u \in Tags : byTag[u] # None => byTag[u] \in running \/ closed
      BY Zenon DEF Inv, LiveIsPublished
    <3>2. UNCHANGED <<running, closed>>
      BY Zenon DEF Publish, scopes
    <3> SUFFICES ASSUME NEW u \in Tags, byTag'[u] # None
                 PROVE  byTag'[u] \in running \/ closed
      BY <3>2
    <3>3. CASE u = t
      BY <1>2, <1>3, <3>3, Zenon
    <3>4. CASE u # t
      BY <1>3, <3>1, <3>4, Zenon
    <3> QED
      BY <3>3, <3>4, Zenon
  <2>2. \A n \in running : n.tag \in Tags
    BY <1>0, Zenon DEF TypeOK, Nodes
  <2>3. \A n \in running : byTag'[n.tag] = n \/ n \in {cur[p].old, cur[p].new}
    BY <1>0, <1>2, <1>3, <2>2, Zenon DEF Inv, LiveIsPublished
  <2> QED
    BY <1>0, <2>1, <2>3, Zenon DEF LiveIsPublished, Publish, scopes
<1> QED
  BY <1>0, <1>5, <1>6, <1>7, <1>8, <1>9, <1>10, <1>11, <1>12, StepOf, Zenon DEF Local, Publish, scopes

\* UpdateNodes has visited every node and goes on to those to remove.
LEMMA EndNodesStep ==
    ASSUME Inv, NEW p \in Providers, EndNodes(p)
    PROVE  Inv'
<1>0. /\ TypeOK /\ LockInv /\ Local(p) /\ pc[p] = "node" /\ ~closed /\ cur[p] = Nothing /\ todo[p] = {}
      /\ Pending(p) = {} /\ pc'[p] = "remove" /\ todo'[p] = Active(p) \ Listed(sub[p])
      /\ \A q \in Providers \ {p} : pc'[q] = pc[q] /\ todo'[q] = todo[q]
  BY NotClosed, Zenon DEF Inv, EndNodes, Local, CurInv, Pending, Goto, TypeOK
<1>1. \A t \in TagsOf[p] \ Listed(sub[p]) : byTag[t] # None <=> t \in Active(p)
  BY <1>0, Zenon DEF Local, ListInv
<1>2. Active(p) \subseteq TagsOf[p]
  BY <1>0, Zenon DEF Local, ListInv
<1>3. TypeOK'
  <2>1. DOMAIN todo' = Providers /\ \A q \in Providers : todo'[q] \subseteq TagsOf[q]
    BY <1>0, <1>2, Zenon DEF TypeOK, EndNodes
  <2>2. pc' \in [Providers -> Phases]
    BY <1>0, Zenon DEF TypeOK, EndNodes, Goto, Phases, Removing
  <2> QED
    BY <1>0, <2>1, <2>2, Zenon DEF TypeOK, EndNodes, manager, scopes, adapter, selector
<1>4. \A q \in Providers \ {p} : Quiet(q)
  BY <1>0, Zenon DEF Quiet, EndNodes, manager, scopes, adapter
<1>5. LockInv' /\ LiveIsPublished' /\ SelectionSticks'
  BY <1>0, LiveSame, Zenon DEF LockInv, Inv, EndNodes, manager, scopes, selector, SelectionSticks, TagSet
<1>6. CurInv(p)'
  BY <1>0, Zenon DEF CurInv, EndNodes, Replacing
<1>7. NodeInv(p)'
  BY <1>0, Zenon DEF Local, NodeInv, EndNodes, Replacing, manager, adapter, Pending
<1>8. ListInv(p)'
  <2>1. Active(p)' = Active(p) /\ Here(Listed(sub[p]))' = Here(Listed(sub[p])) /\ Listed(sub[p]) \ {} = Listed(sub[p])
    BY Zenon DEF Active, TagSet, Here, EndNodes, manager, adapter, Listed
  <2>2. out[p] = Here(Listed(sub[p]) \ {})
    BY <1>0, Zenon DEF Local, ListInv
  <2> QED
    BY <1>0, <1>1, <1>2, <2>1, <2>2, Zenon DEF ListInv, EndNodes, Replacing, manager
<1>9. CacheInv'
  <2>1. \A q \in Providers : pc'[q] \notin {"groups", "closing"} =>
            pc[q] \notin {"groups", "closing"} /\ nodes'[q] = nodes[q]
    BY <1>0, Zenon DEF EndNodes, adapter
  <2> QED
    BY <2>1, CacheSame, Zenon DEF Inv, EndNodes, selector
<1> QED
  BY <1>0, <1>3, <1>4, <1>5, <1>6, <1>7, <1>8, <1>9, StepOf, Zenon DEF Local, EndNodes, scopes

\* Remove takes the lock and unpublishes a node.
LEMMA RemoveStep ==
    ASSUME Inv, NEW p \in Providers, NEW t \in TagsOf[p], Remove(p, t)
    PROVE  Inv'
<1>0. /\ TypeOK /\ LockInv /\ Local(p) /\ pc[p] \in Removing /\ ~closed /\ t \in todo[p]
      /\ t \in Tags /\ t # None /\ mutation = None /\ mutation' = p /\ Pending(p) = {}
  BY NotClosed, TagsDisjoint, ProviderAssumption, Zenon DEF Inv, Remove, Removing, Pending
<1>1. /\ byTag'[t] = None /\ \A u \in Tags \ {t} : byTag'[u] = byTag[u]
      /\ cur'[p] = [tag |-> t, old |-> byTag[t], new |-> None]
      /\ \A q \in Providers \ {p} : cur'[q] = cur[q]
  BY <1>0, Zenon DEF TypeOK, Remove
<1>2. UNCHANGED <<running, cancelled, closed, pc, sub, todo, out, applied, nodes, updates,
                  cache, members, selected, stored, unsaved>>
  BY Zenon DEF Remove, scopes, adapter, selector
<1>3. TypeOK'
  <2>1. [tag |-> t, old |-> byTag[t], new |-> None] \in Target
    BY <1>0, Zenon DEF Target, TypeOK
  <2>2. cur' \in [Providers -> Target] /\ byTag' \in [Tags -> Nodes \cup {None}]
    BY <1>0, <2>1, Zenon DEF TypeOK, Remove
  <2> QED
    BY <1>0, <1>2, <2>2, Zenon DEF TypeOK
<1>4. \A q \in Providers \ {p} : Quiet(q)
  <2>1. \A q \in Providers \ {p} : \A u \in TagsOf[q] : byTag'[u] = byTag[u]
    BY <1>1, TagsDisjoint, ZenonT(30)
  <2> QED
    BY <1>1, <1>2, <2>1, Zenon DEF Quiet
<1>5. LockInv'
  <2>1. cur'[p] # Nothing
    BY <1>0, <1>1 DEF Nothing
  <2>2. \A q \in Providers \ {p} : cur'[q] = Nothing
    BY <1>0, <1>1, LockFree, Zenon
  <2> QED
    BY <1>0, <2>1, <2>2, Zenon DEF LockInv
<1>6. CurInv(p)'
  <2>1. byTag[t] # None => byTag[t].tag = t
    BY <1>0, PublishedTag
  <2> QED
    <3>1. cur'[p].tag = t /\ cur'[p].old = byTag[t] /\ cur'[p].new = None
      BY <1>1
    <3>2. pc'[p] \notin {"idle", "node", "groups"} \cup Replacing
      BY <1>0, <1>2, Zenon DEF Replacing, Removing
    <3>3. cur'[p].tag \in todo'[p] /\ byTag'[cur'[p].tag] = None
      BY <1>0, <1>1, <1>2, <3>1, Zenon
    <3> QED
      BY <2>1, <3>1, <3>2, <3>3, ZenonT(30) DEF CurInv
<1>7. NodeInv(p)'
  <2>1. \A u \in TagsOf[p] : byTag'[u] # None => byTag'[u] = byTag[u]
    BY <1>1, TagsDisjoint
  <2>2. Pending(p)' = {} /\ pc'[p] \notin {"node"} \cup Replacing
    BY <1>0, <1>2, Zenon DEF Pending, Removing, Replacing
  <2> QED
    BY <1>0, <1>2, <2>1, <2>2, Zenon DEF Local, NodeInv
<1>8. ListInv(p)'
  <2>1. Active(p)' = Active(p) /\ Listed(sub[p])' = Listed(sub[p])
    BY <1>2, Zenon DEF Active, TagSet, Listed
  <2>2. Listed(sub[p]) \subseteq TagsOf[p]
    BY <1>0, Zenon DEF TypeOK, Listed, Subscriptions
  <2>3. pc[p] = "remove" => Here(Listed(sub[p]))' = Here(Listed(sub[p]))
    <3>1. pc[p] = "remove" => \A u \in Listed(sub[p]) : byTag'[u] = byTag[u]
      BY <1>0, <1>1, <2>2, TagsDisjoint, Zenon DEF Local, ListInv
    <3> QED
      BY <3>1, <2>1, Zenon DEF Here
  <2>4. \A u \in TagsOf[p] : byTag'[u] # None => byTag[u] # None
    BY <1>1, TagsDisjoint
  <2> QED
    BY <1>0, <1>2, <2>1, <2>3, <2>4, Zenon DEF Local, ListInv, Removing, Replacing
<1>9. CacheInv' /\ SelectionSticks'
  BY <1>2, CacheSame, Zenon DEF Inv, SelectionSticks, TagSet
<1>10. LiveIsPublished'
  <2>1. \A u \in Tags : byTag'[u] # None => byTag'[u] \in running' \/ closed'
    BY <1>1, <1>2, Zenon DEF Inv, LiveIsPublished
  <2>2. \A n \in running : n.tag \in Tags /\ byTag[n.tag] = n
    BY <1>0, LockFree, Zenon DEF TypeOK, Nodes
  <2>3. \A n \in running : byTag'[n.tag] = n \/ n = byTag[t]
    BY <1>1, <2>2
  <2> QED
    <3>1. running' = running /\ mutation' = p /\ cur'[p].old = byTag[t]
      BY <1>0, <1>1, <1>2
    <3>2. \A n \in running' : byTag'[n.tag] = n \/ n \in {cur'[p].old, cur'[p].new}
      BY <2>3, <3>1, Zenon
    <3> QED
      BY <2>1, <3>1, <3>2, Zenon DEF LiveIsPublished
<1> QED
  BY <1>0, <1>2, <1>3, <1>4, <1>5, <1>6, <1>7, <1>8, <1>9, <1>10, StepOf, Zenon DEF Local

\* The removed node is closed.
LEMMA RemovedStep ==
    ASSUME Inv, NEW p \in Providers, Removed(p)
    PROVE  Inv'
<1>0. /\ TypeOK /\ Local(p) /\ pc[p] \in Removing /\ cur[p] # Nothing /\ Pending(p) = {}
      /\ mutation' = None /\ mutation = p
      /\ \A q \in Providers \ {p} : cur[q] = Nothing /\ pc[q] \notin Replacing
  BY LockTaken DEF Inv, Removed, Removing, Pending
<1>1. PICK t : t = cur[p].tag
  BY Zenon
<1>2. /\ t \in todo[p] /\ t \in TagsOf[p] /\ t \in Tags /\ cur[p].new = None /\ byTag[t] = None
      /\ cur[p].old # None => cur[p].old.tag = t
  BY <1>0, <1>1, TagsDisjoint, Zenon DEF Local, CurInv, TypeOK
<1>3. ~closed
  BY <1>2, NotClosed
<1>4. UNCHANGED <<byTag, closed, pc, sub, out, applied, nodes, updates,
                  cache, members, selected, stored, unsaved>>
  BY DEF Removed, adapter, selector
<1>5. LiveIsPublished' /\ running' \subseteq Nodes
  BY <1>0, <1>2, NoneAssumption, CloseUnpublished, ZenonT(30) DEF Removed
<1>6. /\ cur'[p] = Nothing /\ todo'[p] = todo[p] \ {t}
      /\ \A q \in Providers \ {p} : cur'[q] = cur[q] /\ todo'[q] = todo[q]
  BY <1>0, <1>1, Zenon DEF TypeOK, Removed
<1>7. TypeOK'
  <2>1. Nothing \in Target
    BY DEF Nothing, Target
  <2>2. cur' \in [Providers -> Target]
    BY <1>0, <2>1, Zenon DEF TypeOK, Removed
  <2>3. DOMAIN todo' = Providers /\ \A q \in Providers : todo'[q] \subseteq TagsOf[q]
    BY <1>0, <1>6, Zenon DEF TypeOK, Removed
  <2> QED
    BY <1>0, <1>4, <1>5, <2>2, <2>3 DEF TypeOK
<1>8. \A q \in Providers \ {p} : Quiet(q)
  BY <1>0, <1>4, <1>6, Zenon DEF Quiet
<1>9. LockInv'
  BY <1>0, <1>6, ProviderAssumption, Zenon DEF LockInv
<1>10. CurInv(p)' /\ NodeInv(p)'
  BY <1>0, <1>4, <1>6, Zenon DEF Local, CurInv, NodeInv, Pending, Removing, Replacing
<1>11. ListInv(p)'
  <2>1. Active(p)' = Active(p) /\ Here(Listed(sub[p]))' = Here(Listed(sub[p])) /\ Listed(sub[p])' = Listed(sub[p])
    BY <1>4, Zenon DEF Active, TagSet, Here, Listed
  <2> QED
    BY <1>0, <1>2, <1>4, <1>6, <2>1, Zenon DEF Local, ListInv, Removing, Replacing
<1>12. CacheInv' /\ SelectionSticks'
  BY <1>4, CacheSame, Zenon DEF Inv, SelectionSticks, TagSet
<1> QED
  BY <1>3, <1>4, <1>5, <1>7, <1>8, <1>9, <1>10, <1>11, <1>12, StepOf DEF Local

\* The update is over, and the callbacks of the groups come next.
LEMMA EndUpdateStep ==
    ASSUME Inv, NEW p \in Providers, EndUpdate(p)
    PROVE  Inv'
<1>0. /\ TypeOK /\ LockInv /\ Local(p) /\ pc[p] = "remove" /\ todo[p] = {} /\ ~closed
      /\ pc'[p] = "groups" /\ nodes'[p] = out[p]
      /\ \A q \in Providers \ {p} : pc'[q] = pc[q] /\ nodes'[q] = nodes[q] /\ applied'[q] = applied[q]
  BY NotClosed, Zenon DEF Inv, EndUpdate, Goto, TypeOK
<1>1. cur[p] = Nothing
  BY <1>0, Zenon DEF Local, CurInv, Removing
<1>2. UNCHANGED <<byTag, mutation, running, cancelled, closed, sub, todo, out, cur, updates,
                  cache, members, selected, stored, unsaved>>
  BY DEF EndUpdate, manager, scopes, selector
<1>3. Listed(sub[p]) \subseteq TagsOf[p]
  BY <1>0, Zenon DEF TypeOK, Listed, Subscriptions
<1>4. out[p] = Here(Listed(sub[p])) /\ out[p] = Here(TagsOf[p])
  <2>1. out[p] = Here(Listed(sub[p])) /\ \A t \in TagsOf[p] \ Listed(sub[p]) : byTag[t] = None
    BY <1>0, Zenon DEF Local, ListInv
  <2> QED
    BY <1>3, <2>1, Zenon DEF Here
<1>5. TagSet(out[p]) = {t \in TagsOf[p] : byTag[t] # None}
  BY <1>0, <1>4, TagsOfHere, Zenon DEF Local
<1>6. applied'[p] = [t \in TagsOf[p] |-> IF t \in TagSet(out[p]) THEN applied[p][t] ELSE None]
  BY <1>0, Zenon DEF EndUpdate, TypeOK
<1>7. TypeOK'
  <2>1. applied'[p] \in Subscriptions(p)
    <3>1. applied[p] \in Subscriptions(p)
      BY <1>0, Zenon DEF TypeOK
    <3>2. applied[p] \in [TagsOf[p] -> Options \cup {None}]
      BY <3>1, Zenon DEF Subscriptions
    <3>3. \A t \in TagsOf[p] : (IF t \in TagSet(out[p]) THEN applied[p][t] ELSE None) \in Options \cup {None}
      BY <3>2, Zenon
    <3> QED
      BY <1>6, <3>3, Zenon DEF Subscriptions
  <2>2. DOMAIN applied' = Providers /\ \A q \in Providers : applied'[q] \in Subscriptions(q)
    BY <1>0, <2>1 DEF TypeOK, EndUpdate
  <2>3. pc' \in [Providers -> Phases] /\ nodes' \in [Providers -> SUBSET Nodes]
    BY <1>0 DEF TypeOK, EndUpdate, Goto, Phases
  <2> QED
    BY <1>0, <1>2, <2>2, <2>3, Zenon DEF TypeOK
<1>8. \A q \in Providers \ {p} : Quiet(q)
  BY <1>0, <1>2, Zenon DEF Quiet
<1>9. LockInv' /\ LiveIsPublished' /\ SelectionSticks'
  BY <1>0, <1>2, LiveSame, Zenon DEF LockInv, Inv, SelectionSticks, TagSet
<1>10. CurInv(p)'
  BY <1>0, <1>1, <1>2, Zenon DEF CurInv, Replacing, Removing
<1>11. NodeInv(p)'
  BY <1>0, <1>2, <1>5, <1>6, ZenonT(30) DEF Local, NodeInv, Pending, Replacing
<1>12. ListInv(p)'
  <2>1. Here(TagsOf[p])' = Here(TagsOf[p]) /\ Active(p)' = TagSet(out[p])
    BY <1>0, <1>2, Zenon DEF Here, Active, TagSet
  <2> QED
    BY <1>0, <1>4, <1>5, <2>1, Zenon DEF ListInv, Replacing
<1>13. CacheInv'
  <2>1. \A q \in Providers : pc'[q] \notin {"groups", "closing"} =>
            pc[q] \notin {"groups", "closing"} /\ nodes'[q] = nodes[q]
    BY <1>0, Zenon
  <2> QED
    BY <1>2, <2>1, CacheSame, Zenon DEF Inv
<1> QED
  BY <1>0, <1>2, <1>7, <1>8, <1>9, <1>10, <1>11, <1>12, <1>13, StepOf, Zenon DEF Local

\* The selector reads the list of the provider whose callback it is.
LEMMA UpdateGroupsStep ==
    ASSUME Inv, NEW p \in Providers, UpdateGroups(p)
    PROVE  Inv'
<1>0. /\ TypeOK /\ LockInv /\ Local(p) /\ pc[p] = "groups" /\ ~closed /\ cur[p] = Nothing
      /\ pc'[p] = "idle" /\ out'[p] = {}
      /\ \A q \in Providers \ {p} : pc'[q] = pc[q] /\ sub'[q] = sub[q] /\ out'[q] = out[q]
  BY NotClosed, Zenon DEF Inv, UpdateGroups, Goto, TypeOK, Local, CurInv
<1>1. UNCHANGED <<byTag, mutation, running, cancelled, closed, todo, cur, applied, nodes, updates, stored, unsaved>>
  BY DEF UpdateGroups, manager, scopes, adapter
<1>2. TypeOK'
  <2>1. Empty(p) \in Subscriptions(p)
    BY DEF Empty, Subscriptions
  <2>2. DOMAIN sub' = Providers /\ \A q \in Providers : sub'[q] \in Subscriptions(q)
    BY <1>0, <2>1, Zenon DEF TypeOK, UpdateGroups
  <2>3. pc' \in [Providers -> Phases] /\ out' \in [Providers -> SUBSET Nodes]
    BY <1>0, Zenon DEF TypeOK, UpdateGroups, Goto, Phases
  <2> QED
    BY <1>0, <1>1, <2>2, <2>3, Zenon DEF TypeOK
<1>3. \A q \in Providers \ {p} : Quiet(q)
  BY <1>0, <1>1, Zenon DEF Quiet
<1>4. LockInv' /\ LiveIsPublished'
  BY <1>0, <1>1, LiveSame, Zenon DEF LockInv, Inv
<1>5. CurInv(p)' /\ NodeInv(p)'
  BY <1>0, <1>1, Zenon DEF Local, CurInv, NodeInv, Pending, Replacing, Removing
<1>6. ListInv(p)'
  <2>1. Here(TagsOf[p])' = Here(TagsOf[p]) /\ Active(p)' = Active(p)
    BY <1>1, Zenon DEF Here, Active, TagSet
  <2> QED
    BY <1>0, <1>1, <2>1, Zenon DEF Local, ListInv, Replacing
<1>7. CacheInv'
  <2>1. \A q \in Providers : Read(q)' = IF q # p /\ q \in DOMAIN cache THEN cache[q] ELSE Filtered(q)
    BY DEF Read, UpdateGroups, NewCache
  <2>2. cache' = [q \in Providers |-> Read(q)'] /\ \A q \in Providers : Filtered(q)' = Filtered(q)
    BY <1>1, <2>1, Zenon DEF UpdateGroups, NewCache, Filtered
  <2>3. members' = NewMembers([q \in Providers |-> Read(q)])'
    BY <2>2, Zenon DEF UpdateGroups, NewMembers
  <2>4. selected' \in members'
    BY DEF UpdateGroups, Select
  <2>5. \A q \in Providers : pc'[q] \notin {"groups", "closing"} => Read(q)' = Filtered(q)'
    BY <1>0, <2>1, <2>2, Zenon DEF Inv, CacheInv, Read
  <2> QED
    BY <2>3, <2>4, <2>5, Zenon DEF CacheInv
<1>8. SelectionSticks'
  BY <1>1, Zenon DEF UpdateGroups, Select, SelectionSticks, TagSet
<1> QED
  BY <1>0, <1>1, <1>2, <1>3, <1>4, <1>5, <1>6, <1>7, <1>8, StepOf, Zenon DEF Local

\* Close of a provider: it has all of its nodes to remove.
LEMMA CloseProviderStep ==
    ASSUME Inv, NEW p \in Providers, CloseProvider(p)
    PROVE  Inv'
<1>0. /\ TypeOK /\ LockInv /\ Local(p) /\ pc[p] = "idle" /\ ~closed /\ cur[p] = Nothing
      /\ pc'[p] = "closing" /\ nodes'[p] = {} /\ todo'[p] = Active(p)
      /\ \A q \in Providers \ {p} : pc'[q] = pc[q] /\ nodes'[q] = nodes[q] /\ todo'[q] = todo[q]
  BY NotClosed, Zenon DEF Inv, CloseProvider, Goto, TypeOK, Local, CurInv
<1>1. UNCHANGED <<byTag, mutation, running, cancelled, closed, sub, out, cur, applied, updates,
                  cache, members, selected, stored, unsaved>>
  BY DEF CloseProvider, manager, scopes, selector
<1>2. TypeOK'
  <2>1. DOMAIN todo' = Providers /\ \A q \in Providers : todo'[q] \subseteq TagsOf[q]
    BY <1>0, Zenon DEF TypeOK, CloseProvider, Local, ListInv
  <2>2. pc' \in [Providers -> Phases] /\ nodes' \in [Providers -> SUBSET Nodes]
    BY <1>0, Zenon DEF TypeOK, CloseProvider, Goto, Phases, Removing
  <2> QED
    BY <1>0, <1>1, <2>1, <2>2, Zenon DEF TypeOK
<1>3. \A q \in Providers \ {p} : Quiet(q)
  BY <1>0, <1>1 DEF Quiet
<1>4. LockInv' /\ LiveIsPublished' /\ SelectionSticks'
  BY <1>0, <1>1, LiveSame, Zenon DEF LockInv, Inv, SelectionSticks, TagSet
<1>5. CurInv(p)' /\ NodeInv(p)'
  BY <1>0, <1>1, Zenon DEF Local, CurInv, NodeInv, Pending, Replacing
<1>6. ListInv(p)'
  BY <1>0, Zenon DEF ListInv, Active, TagSet, Replacing
<1>7. CacheInv'
  <2>1. \A q \in Providers : pc'[q] \notin {"groups", "closing"} =>
            pc[q] \notin {"groups", "closing"} /\ nodes'[q] = nodes[q]
    BY <1>0, Zenon
  <2> QED
    BY <1>1, <2>1, CacheSame, Zenon DEF Inv
<1> QED
  BY <1>0, <1>1, <1>2, <1>3, <1>4, <1>5, <1>6, <1>7, StepOf, Zenon DEF Local

\* Steps that leave every provider alone: the choice of the user and the two
\* ends of the shutdown.
LEMMA OtherSteps ==
    ASSUME Inv, (\E n \in members : SelectOutbound(n)) \/ Cancel \/ CloseGroup
    PROVE  Inv'
<1>0. UNCHANGED <<byTag, mutation, pc, sub, todo, out, cur, applied, nodes, updates, cache, members>>
  BY DEF SelectOutbound, Cancel, CloseGroup, manager, update, adapter, selector
<1>1. \/ running' = running /\ closed' = closed
      \/ /\ running' = {} /\ closed' = TRUE /\ \A q \in Providers : ProviderClosed(q)
         /\ UNCHANGED <<selected, stored, unsaved>>
  BY DEF SelectOutbound, Cancel, CloseGroup, scopes, selector
<1>2. TypeOK' /\ LockInv' /\ ClosedInv'
  <2>1. TypeOK /\ LockInv /\ ClosedInv
    BY Zenon DEF Inv
  <2>2. running' \subseteq Nodes
    BY <1>1, <2>1, Zenon DEF TypeOK
  <2>3. TypeOK'
    BY <1>0, <2>1, <2>2, Zenon DEF TypeOK, Subscriptions
  <2>4. LockInv'
    BY <1>0, <2>1, Zenon DEF LockInv
  <2>5. ClosedInv'
    BY <1>0, <1>1, <2>1, Zenon DEF ClosedInv, ProviderClosed
  <2> QED
    BY <2>3, <2>4, <2>5
<1>3. \A q \in Providers : Local(q)'
  <2>1. \A q \in Providers : Quiet(q)
    BY <1>0, <1>1, Zenon DEF Quiet, ProviderClosed, Replacing
  <2> QED
    BY <2>1, QuietLocal DEF Inv
<1>4. LiveIsPublished'
  <2>0. LiveIsPublished
    BY Zenon DEF Inv
  <2>1. CASE running' = running /\ closed' = closed
    BY <1>0, <2>0, <2>1, Zenon DEF LiveIsPublished
  <2>2. CASE running' = {} /\ closed' = TRUE
    BY <2>2, Zenon DEF LiveIsPublished
  <2> QED
    BY <1>1, <2>1, <2>2, Zenon
<1>5. CacheInv' /\ SelectionSticks'
  <2>1. CASE UNCHANGED <<selected, stored, unsaved>>
    BY <1>0, <2>1, CacheSame DEF Inv, SelectionSticks, TagSet
  <2>2. CASE \E n \in members : SelectOutbound(n)
    <3>1. selected' \in members /\ (unsaved' \/ stored' = selected'.tag)
      BY <2>2 DEF SelectOutbound
    <3>2. \A q \in Providers : Read(q)' = Read(q) /\ Filtered(q)' = Filtered(q)
      BY <1>0 DEF Read, Filtered
    <3>3. NewMembers([q \in Providers |-> Read(q)])' = NewMembers([q \in Providers |-> Read(q)])
      BY <3>2, Zenon DEF NewMembers
    <3> QED
      BY <1>0, <3>1, <3>2, <3>3 DEF Inv, CacheInv, SelectionSticks
  <2> QED
    BY <2>1, <2>2 DEF Cancel, CloseGroup, selector
<1> QED
  BY <1>2, <1>3, <1>4, <1>5 DEF Inv

-----------------------------------------------------------------------------
(* Theorems                                                                *)

\* A new box, with no nodes, satisfies the invariant.
LEMMA InitInv == Init => Inv
<1> SUFFICES ASSUME Init PROVE Inv
  BY Zenon
<1>1. TypeOK
  <2>1. Nothing \in Target /\ \A p \in Providers : Empty(p) \in Subscriptions(p)
    BY Zenon DEF Nothing, Target, Empty, Subscriptions
  <2> QED
    BY <2>1, Zenon DEF Init, TypeOK, Phases
<1>2. LockInv /\ ClosedInv
  BY ProviderAssumption DEF Init, LockInv, ClosedInv
<1>3. \A p \in Providers : Local(p)
  <2> SUFFICES ASSUME NEW p \in Providers PROVE Local(p)
    BY Zenon
  <2>1. \A t \in TagsOf[p] : byTag[t] = None
    BY TagsDisjoint DEF Init
  <2>2. Here(TagsOf[p]) = {} /\ Active(p) = {}
    BY <2>1 DEF Here, Active, TagSet, Init
  <2>3. pc[p] = "idle" /\ cur[p] = Nothing /\ nodes[p] = {} /\ out[p] = {}
    BY DEF Init
  <2> QED
    BY <2>1, <2>2, <2>3, Zenon DEF Local, CurInv, NodeInv, ListInv, Replacing, Removing
<1>4. CacheInv
  <2>1. \A q \in Providers : Read(q) = {} /\ Filtered(q) = {}
    BY DEF Init, Read, Filtered
  <2> QED
    BY <2>1, Zenon DEF Init, CacheInv, NewMembers
<1>5. LiveIsPublished /\ SelectionSticks
  BY DEF Init, LiveIsPublished, SelectionSticks, TagSet
<1> QED
  BY <1>1, <1>2, <1>3, <1>4, <1>5 DEF Inv

\* Every step keeps the invariant.
LEMMA NextInv == Inv /\ [Next]_vars => Inv'
<1> SUFFICES ASSUME Inv, [Next]_vars PROVE Inv'
  OBVIOUS
<1>1. ASSUME NEW p \in Providers, Step(p) PROVE Inv'
  BY Zenon, <1>1, KeepStep, ReplaceStep, RemoveStep, StartStep, FailedStep, PublishStep, RetireStep,
     EndNodesStep, RemovedStep, EndUpdateStep, UpdateGroupsStep DEF Step
<1>2. CASE UNCHANGED vars
  <2>1. UNCHANGED <<byTag, mutation, running, cancelled, closed, pc, sub, todo, out, cur,
                    applied, nodes, updates, cache, members, selected, stored, unsaved>>
    BY <1>2 DEF vars
  <2>2. \A q \in Providers : Quiet(q)
    BY <2>1 DEF Quiet
  <2>3. \A q \in Providers : Local(q)'
    BY <2>2, QuietLocal DEF Inv
  <2>4. TypeOK' /\ LockInv' /\ ClosedInv'
    BY <2>1, Zenon DEF Inv, TypeOK, LockInv, ClosedInv, ProviderClosed
  <2> QED
    BY <2>1, <2>3, <2>4, LiveSame, CacheSame DEF Inv, SelectionSticks, TagSet
<1> QED
  BY <1>1, <1>2, BeginStep, CloseProviderStep, OtherSteps DEF Next

\* So it always holds.
LEMMA Invariance == Spec => []Inv
BY InitInv, NextInv, PTL DEF Spec

\* Manager and LifecycleGroup agree, whatever providers update at the same
\* time and whenever the shutdown comes: what Manager.Outbound returns has
\* been started and not been closed, and nothing is left running that cannot
\* be looked up, but for the node in the hands of Replace or Remove.
THEOREM LookupsRun == Spec => []LiveIsPublished
<1>1. Inv => LiveIsPublished
  BY DEF Inv
<1> QED
  BY <1>1, Invariance, PTL

\* Once the updates are over, the selector's members are the published nodes
\* of all the providers, although it has read each provider only in that
\* provider's own callback; and its selection is a member at all times.
THEOREM MembersConverge == Spec => []GroupSettles
<1>1. Inv => GroupSettles
  <2> SUFFICES ASSUME Inv, Settled
               PROVE  LET live == {byTag[t] : t \in Matching} \ {None}
                      IN  members = IF live = {} THEN {Fallback} ELSE live
    BY Zenon DEF Inv, CacheInv, GroupSettles
  <2> DEFINE live == {byTag[t] : t \in Matching} \ {None}
             r == [q \in Providers |-> Read(q)]
  <2>1. \A q \in Providers : r[q] = {n \in Here(TagsOf[q]) : n.tag \in Matching}
    BY Zenon DEF Settled, Inv, Local, ListInv, CacheInv, Filtered
  <2>2. \A q \in Providers : r[q] = {byTag[t] : t \in TagsOf[q] \cap Matching} \ {None}
    <3>1. \A q \in Providers : \A t \in TagsOf[q] : byTag[t] # None => byTag[t].tag = t
      BY DEF Inv, Local, NodeInv
    <3> HIDE DEF r
    <3> QED
      BY <2>1, <3>1 DEF Here
  <2> HIDE DEF r
  <2>3. \A t \in Matching : \E q \in Providers : t \in TagsOf[q]
    BY ProviderAssumption DEF Tags
  <2>4. live = UNION {r[q] : q \in Providers}
    BY <2>2, <2>3
  <2>5. members = IF \A q \in Providers : r[q] = {} THEN {Fallback} ELSE UNION {r[q] : q \in Providers}
    BY Zenon DEF Inv, CacheInv, NewMembers, r
  <2>6. live = {} <=> \A q \in Providers : r[q] = {}
    BY <2>4
  <2> QED
    BY <2>4, <2>5, <2>6, Zenon
<1> QED
  BY <1>1, Invariance, PTL

\* The stored choice of the user is selected whenever a node with its tag is a
\* member, however often that node has been away.
THEOREM ChoiceIsKept == Spec => []SelectionSticks
<1>1. Inv => SelectionSticks
  BY Zenon DEF Inv
<1> QED
  BY <1>1, Invariance, PTL

\* UpdateNodes closes a node only for a reason: it did not start, the
\* subscription no longer has it or has it with another configuration, or
\* the box shuts down.
THEOREM RestartsAreDue == Spec => OnlyChangedRestart
<1> DEFINE Due == \A n \in running \ running', p \in Providers : n.tag \in TagsOf[p] =>
                     pc[p] \in {"failed", "closing"} \/ closed' \/ sub[p][n.tag] # n.opt
<1>1. Inv /\ [Next]_vars => [Due]_vars
  <2> SUFFICES ASSUME Inv, Next, NEW n \in running \ running', NEW p \in Providers, n.tag \in TagsOf[p]
               PROVE  pc[p] \in {"failed", "closing"} \/ closed' \/ sub[p][n.tag] # n.opt
    OBVIOUS
  <2>0. TypeOK /\ n \in Nodes /\ n # None
    BY NoneAssumption, Zenon DEF Inv, TypeOK
  <2>1. CASE CloseGroup
    BY <2>1 DEF CloseGroup
  <2>2. ASSUME NEW q \in Providers, Failed(q) PROVE pc[p] = "failed"
    <3>1. n = cur[q].new /\ pc[q] = "failed"
      BY <2>2, Zenon DEF Failed, RemoveScope
    <3>2. n.tag \in TagsOf[q]
      BY <3>1, ReplaceTarget DEF Replacing
    <3> QED
      BY <3>1, <3>2, TagsDisjoint
  <2>3. ASSUME NEW q \in Providers, Retire(q) PROVE sub[p][n.tag] # n.opt
    <3>1. n = cur[q].old /\ pc[q] = "retire"
      BY <2>3 DEF Retire, RemoveScope
    <3>2. n.tag = cur[q].tag /\ cur[q].tag \in TagsOf[q] /\ n.opt # sub[q][cur[q].tag]
      BY <2>0, <3>1, Zenon DEF Inv, Local, CurInv, Replacing, TypeOK
    <3> QED
      BY <3>2, TagsDisjoint
  <2>4. ASSUME NEW q \in Providers, Removed(q) PROVE pc[p] = "closing" \/ sub[p][n.tag] # n.opt
    <3>1. n = cur[q].old /\ pc[q] \in {"remove", "closing"} /\ cur[q] # Nothing
      BY <2>4, Zenon DEF Removed, RemoveScope
    <3>2. n.tag = cur[q].tag /\ n.tag \in todo[q] /\ n.tag \in TagsOf[q]
      BY <2>0, <3>1, Zenon DEF Inv, Local, CurInv, Removing, TypeOK
    <3>3. p = q
      BY <3>2, TagsDisjoint
    <3>4. CASE pc[q] = "remove"
      <4>1. n.tag \notin Listed(sub[q]) /\ sub[q] \in Subscriptions(q)
        BY <3>2, <3>4, Zenon DEF Inv, Local, ListInv, TypeOK
      <4>2. sub[q][n.tag] = None
        BY <3>2, <4>1, Zenon DEF Listed, Subscriptions
      <4> QED
        BY <2>0, <3>3, <4>2, ProviderAssumption DEF Nodes
    <3> QED
      BY <3>1, <3>3, <3>4, Zenon
  <2>5. ASSUME NEW q \in Providers, NEW t \in TagsOf[q], Keep(q, t) \/ Replace(q, t) \/ Remove(q, t) PROVE FALSE
    BY <2>5, Zenon DEF Keep, Replace, Remove, scopes
  <2>6. ASSUME NEW q \in Providers,
               Start(q) \/ Publish(q) \/ EndNodes(q) \/ EndUpdate(q) \/ UpdateGroups(q) \/ CloseProvider(q)
               \/ \E s \in Subscriptions(q) : Begin(q, s)
        PROVE FALSE
    BY <2>6 DEF Start, Publish, EndNodes, EndUpdate, UpdateGroups, CloseProvider, Begin, scopes
  <2>7. CASE (\E m \in members : SelectOutbound(m)) \/ Cancel
    BY <2>7 DEF SelectOutbound, Cancel, scopes
  <2> QED
    BY <2>1, <2>2, <2>3, <2>4, <2>5, <2>6, <2>7, Zenon DEF Next, Step
<1> QED
  BY <1>1, Invariance, PTL DEF Spec, OnlyChangedRestart

=============================================================================
