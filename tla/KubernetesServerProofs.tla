----------------------- MODULE KubernetesServerProofs -----------------------
(***************************************************************************)
(* Theorems about KubernetesServer for every value of its constants: a     *)
(* replayed answer is one the same call got before, and a drain answered   *)
(* as done has left nothing behind that it could have evicted.             *)
(***************************************************************************)
EXTENDS KubernetesServer, TLAPS

(* The inductive invariant.  What the cache holds, this process has        *)
(* answered; and while a drain is under way and nobody has uncordoned the  *)
(* node, the node is closed to new pods and the drain knows of every pod   *)
(* on it that it may evict.                                                *)

Stages == {"idle", "lock", "tool", "cordoned", "evicting"}

WrapperType ==
    /\ at \in [Threads -> Stages]
    /\ call \in [Threads -> Call]
    /\ lock \in [CacheKeys -> Threads \cup {Free}]
    /\ cache \in [CacheKeys -> {"none"} \cup Outcomes]
    /\ answers \in SUBSET Answer

ClusterType ==
    /\ unschedulable \in BOOLEAN
    /\ pods \in SUBSET Pods
    /\ todo \in [Threads -> SUBSET Pods]
    /\ blocked \in [Threads -> SUBSET Pods]
    /\ reopened \in [Threads -> BOOLEAN]

Gave(k, outcome) ==
    \E b \in answers : ~b.replayed /\ b.outcome = outcome /\ CacheKey(b.call) = k

CachedAsAnswered == \A k \in CacheKeys : cache[k] # "none" => Gave(k, cache[k])

Draining(t) == at[t] \in {"cordoned", "evicting"} /\ ~reopened[t]

DrainsAhead ==
    \A t \in Threads : Draining(t) =>
        /\ unschedulable
        /\ at[t] = "evicting" => pods \ Protected \subseteq todo[t] \cup blocked[t]

WrapperInv == WrapperType /\ CachedAsAnswered /\ ReplayedAsAnswered

IInv == WrapperInv /\ ClusterType /\ DrainsAhead

----------------------------------------------------------------------------
(* The wrapper.                                                            *)

\* The key of a call is one the lock and the cache know, and tells the tool
\* and the key of the call (common.py:104).
LEMMA KeyType ==
    ASSUME NEW c \in Call
    PROVE  /\ CacheKey(c) \in CacheKeys
           /\ \A d \in Call : CacheKey(d) = CacheKey(c) => d.tool = c.tool /\ d.key = c.key
BY DEF Call, CacheKey, CacheKeys

\* A call arrives on an idle thread (common.py:99-103).
LEMMA InvokeInv ==
    ASSUME WrapperInv, NEW t \in Threads, Invoke(t)
    PROVE  WrapperInv'
<1>1. PICK c \in Call :
        /\ call' = [call EXCEPT ![t] = c]
        /\ at' = [at EXCEPT ![t] = IF c.key = NoKey THEN "tool" ELSE "lock"]
  BY DEF Invoke
<1>2. lock' = lock /\ cache' = cache /\ answers' = answers
  BY DEF Invoke
<1>3. WrapperType'
  BY <1>1, <1>2 DEF WrapperInv, WrapperType, Stages
<1> QED
  BY <1>2, <1>3 DEF WrapperInv, CachedAsAnswered, Gave, ReplayedAsAnswered, CacheKey

\* A lock that is free is taken (common.py:105-109).
LEMMA EnterInv ==
    ASSUME WrapperInv, NEW t \in Threads, Enter(t)
    PROVE  WrapperInv'
<1>1. /\ at' = [at EXCEPT ![t] = "tool"] /\ call' = call /\ cache' = cache
      /\ answers' = answers /\ lock' = [lock EXCEPT ![CacheKey(call[t])] = t]
  BY DEF Enter
<1>2. WrapperType'
  BY <1>1 DEF WrapperInv, WrapperType, Stages
<1> QED
  BY <1>1, <1>2 DEF WrapperInv, CachedAsAnswered, Gave, ReplayedAsAnswered, CacheKey

\* A tool goes on to its next stage (kubernetes.py:130-161).
LEMMA GoesInv ==
    ASSUME WrapperInv, NEW t \in Threads, NEW stage \in Stages, Goes(t, stage)
    PROVE  WrapperInv'
<1>1. /\ at' = [at EXCEPT ![t] = stage] /\ call' = call /\ cache' = cache
      /\ answers' = answers /\ lock' = lock
  BY DEF Goes
<1>2. WrapperType'
  BY <1>1 DEF WrapperInv, WrapperType
<1> QED
  BY <1>1, <1>2 DEF WrapperInv, CachedAsAnswered, Gave, ReplayedAsAnswered, CacheKey

\* More answers leave the earlier ones given: what was cached or replayed
\* before keeps its source.
LEMMA MoreAnswers ==
    ASSUME WrapperInv, NEW a, answers' = answers \cup {a}
    PROVE  /\ \A k, o : Gave(k, o) => Gave(k, o)'
           /\ (a.replayed => \E b \in answers :
                  /\ ~b.replayed /\ b.outcome = a.outcome
                  /\ b.call.tool = a.call.tool /\ b.call.key = a.call.key)
              => ReplayedAsAnswered'
<1>1. \A k, o : Gave(k, o) => Gave(k, o)'
  BY DEF Gave, CacheKey
<1>2. ASSUME a.replayed => \E b \in answers :
                  /\ ~b.replayed /\ b.outcome = a.outcome
                  /\ b.call.tool = a.call.tool /\ b.call.key = a.call.key
      PROVE  ReplayedAsAnswered'
  BY <1>2 DEF WrapperInv, ReplayedAsAnswered
<1> QED
  BY <1>1, <1>2

\* A kept answer is given again; the cache says who got it first
\* (common.py:105-108).
LEMMA ReplayInv ==
    ASSUME WrapperInv, NEW t \in Threads, Replay(t)
    PROVE  WrapperInv'
<1> DEFINE k == CacheKey(call[t])
           a == [call |-> call[t], outcome |-> cache[k], replayed |-> TRUE]
<1>1. call[t] \in Call /\ k \in CacheKeys
  BY KeyType DEF WrapperInv, WrapperType
<1>2. /\ cache[k] # "none" /\ answers' = answers \cup {a}
      /\ at' = [at EXCEPT ![t] = "idle"]
      /\ call' = call /\ lock' = lock /\ cache' = cache
  BY DEF Replay
<1>3. a \in Answer /\ a.call = call[t] /\ a.outcome = cache[k]
  BY <1>1, <1>2 DEF WrapperInv, WrapperType, Answer, Outcomes
<1>4. Gave(k, cache[k])
  BY <1>1, <1>2 DEF WrapperInv, CachedAsAnswered
<1>5. PICK b \in answers : ~b.replayed /\ b.outcome = cache[k] /\ CacheKey(b.call) = k
  BY <1>4 DEF Gave
<1>6. b.call.tool = a.call.tool /\ b.call.key = a.call.key
  BY <1>1, <1>3, <1>5, KeyType DEF WrapperInv, WrapperType, Answer
<1> HIDE DEF a, k
<1>7. WrapperType'
  BY <1>2, <1>3 DEF WrapperInv, WrapperType, Stages
<1>8. ReplayedAsAnswered'
  BY <1>2, <1>3, <1>5, <1>6, MoreAnswers
<1>9. CachedAsAnswered'
  <2>1. ASSUME NEW j \in CacheKeys, cache[j] # "none" PROVE Gave(j, cache[j])'
    <3>1. Gave(j, cache[j])
      BY <2>1 DEF WrapperInv, CachedAsAnswered
    <3> QED
      BY <1>2, <3>1 DEF Gave, CacheKey
  <2> QED
    BY <1>2, <2>1 DEF CachedAsAnswered
<1> QED
  BY <1>7, <1>8, <1>9 DEF WrapperInv

\* What a tool returns is answered and, without an error, kept under the key
\* of its call (common.py:105-112).
LEMMA FinishInv ==
    ASSUME WrapperInv, NEW t \in Threads, NEW outcome \in Outcomes, Finish(t, outcome)
    PROVE  WrapperInv'
<1> DEFINE k == CacheKey(call[t])
           a == [call |-> call[t], outcome |-> outcome, replayed |-> FALSE]
<1>1. call[t] \in Call /\ k \in CacheKeys
  BY KeyType DEF WrapperInv, WrapperType
<1>2. /\ answers' = answers \cup {a} /\ at' = [at EXCEPT ![t] = "idle"] /\ call' = call
      /\ lock' = lock \/ lock' = [lock EXCEPT ![k] = Free]
      /\ cache' = cache \/ cache' = [cache EXCEPT ![k] = outcome]
  BY DEF Finish, Answered
<1>3. a \in Answer /\ ~a.replayed /\ a.outcome = outcome /\ CacheKey(a.call) = k
  BY <1>1 DEF Answer
<1> HIDE DEF a, k
<1>4. WrapperType'
  <2>1. cache' \in [CacheKeys -> {"none"} \cup Outcomes]
    BY <1>2 DEF WrapperInv, WrapperType
  <2>2. lock' \in [CacheKeys -> Threads \cup {Free}]
    BY <1>2 DEF WrapperInv, WrapperType
  <2> QED
    BY <1>2, <1>3, <2>1, <2>2 DEF WrapperInv, WrapperType, Stages
<1>5. ReplayedAsAnswered'
  BY <1>2, <1>3, MoreAnswers
<1>6. CachedAsAnswered'
  <2>1. ASSUME NEW j \in CacheKeys, cache'[j] # "none" PROVE Gave(j, cache[j])'
    <3>1. CASE cache'[j] = cache[j]
      <4>1. Gave(j, cache[j])
        BY <2>1, <3>1 DEF WrapperInv, CachedAsAnswered
      <4> QED
        BY <1>2, <3>1, <4>1 DEF Gave, CacheKey
    <3>2. CASE cache'[j] # cache[j]
      <4>1. j = k /\ cache'[j] = outcome
        BY <1>1, <1>2, <3>2 DEF WrapperInv, WrapperType
      <4>2. a \in answers'
        BY <1>2
      <4> QED
        BY <1>3, <4>1, <4>2 DEF Gave, CacheKey
    <3> QED
      BY <3>1, <3>2
  <2> QED
    BY <2>1 DEF CachedAsAnswered
<1> QED
  BY <1>4, <1>5, <1>6 DEF WrapperInv

\* A server that starts has answered nothing and kept nothing (common.py:71-73).
LEMMA RestartInv ==
    ASSUME WrapperInv, Restart
    PROVE  WrapperInv'
<1>1. WrapperType'
  BY DEF Restart, WrapperInv, WrapperType, Stages
<1>2. CachedAsAnswered' /\ ReplayedAsAnswered'
  BY DEF Restart, CachedAsAnswered, ReplayedAsAnswered
<1> QED
  BY <1>1, <1>2 DEF WrapperInv

----------------------------------------------------------------------------
(* The node and its drains.                                                *)

\* A step after which no drain is at another stage, fewer pods are on the
\* node and it is as closed as before leaves the drains ahead.
LEMMA DrainsStay ==
    ASSUME DrainsAhead, NEW t \in Threads,
           \A u \in Threads : u # t /\ at'[u] # "idle" => at'[u] = at[u],
           at'[t] \notin {"cordoned", "evicting"},
           unschedulable' = unschedulable, reopened' = reopened,
           pods' \subseteq pods, todo' = todo, blocked' = blocked
    PROVE  DrainsAhead'
BY DEF DrainsAhead, Draining

\* Nobody drains on a thread that just got its answer.
LEMMA IdleAt ==
    ASSUME WrapperType, NEW t \in Threads, NEW stage \in Stages,
           at' = [at EXCEPT ![t] = stage]
    PROVE  at'[t] = stage /\ \A u \in Threads : u # t => at'[u] = at[u]
BY DEF WrapperType

\* The node's patch raised, done or not: an uncordon that was done tells every
\* drain, any other patch that was done closes the node (kubernetes.py:103-127).
LEMMA PatchFailedInv ==
    ASSUME IInv, NEW t \in Threads, PatchFailed(t)
    PROVE  IInv'
<1>1. PICK done \in BOOLEAN :
          /\ unschedulable' = IF done THEN ~Runs(t, "uncordon_node") ELSE unschedulable
          /\ reopened' = [u \in Threads |-> reopened[u] \/ (done /\ Runs(t, "uncordon_node"))]
  BY DEF PatchFailed
<1>2. Finish(t, "error") /\ UNCHANGED <<pods, todo, blocked>> /\ at' = [at EXCEPT ![t] = "idle"]
  BY DEF PatchFailed, Finish, Answered
<1>3. WrapperInv'
  BY <1>2, FinishInv DEF IInv, Outcomes
<1>4. \A u \in Threads : reopened'[u] = (reopened[u] \/ (done /\ Runs(t, "uncordon_node")))
  BY <1>1
<1>5. ClusterType'
  <2>1. reopened' \in [Threads -> BOOLEAN]
    BY <1>1 DEF IInv, ClusterType
  <2>2. unschedulable' \in BOOLEAN
    BY <1>1, Zenon DEF IInv, ClusterType, Runs
  <2> QED
    BY <1>2, <2>1, <2>2 DEF IInv, ClusterType
<1>6. at'[t] = "idle" /\ \A u \in Threads : u # t => at'[u] = at[u]
  BY <1>2, IdleAt DEF IInv, WrapperInv, Stages
<1>7. ASSUME NEW u \in Threads, Draining(u)'
      PROVE  /\ unschedulable'
             /\ at'[u] = "evicting" => pods' \ Protected \subseteq todo'[u] \cup blocked'[u]
  <2>1. u # t /\ at'[u] = at[u] /\ ~reopened'[u]
    BY <1>6, <1>7 DEF Draining
  <2>2. Draining(u) /\ ~(done /\ Runs(t, "uncordon_node"))
    BY <1>4, <1>7, <2>1, Zenon DEF Draining
  <2>3. unschedulable'
    BY <1>1, <2>2, Zenon DEF IInv, DrainsAhead
  <2> QED
    BY <1>2, <2>1, <2>2, <2>3 DEF IInv, DrainsAhead
<1>8. DrainsAhead'
  BY <1>7 DEF DrainsAhead
<1> QED
  BY <1>3, <1>5, <1>8 DEF IInv

\* A call ends at a tool that patched nothing, or a drain gives up or is done:
\* the other drains go on as before (kubernetes.py:138-161).
LEMMA EndInv ==
    ASSUME IInv, NEW t \in Threads, NEW outcome \in Outcomes, Finish(t, outcome),
           UNCHANGED <<cluster, drain>>
    PROVE  IInv'
<1>1. at' = [at EXCEPT ![t] = "idle"]
  BY DEF Finish, Answered
<1>2. WrapperInv'
  BY FinishInv DEF IInv
<1>3. ClusterType'
  BY DEF IInv, ClusterType, cluster, drain
<1>4. at'[t] = "idle" /\ \A u \in Threads : u # t => at'[u] = at[u]
  BY <1>1, IdleAt DEF IInv, WrapperInv, Stages
<1>5. DrainsAhead'
  BY <1>4, DrainsStay DEF IInv, cluster, drain
<1> QED
  BY <1>2, <1>3, <1>5 DEF IInv

\* A cordon closes the node, an uncordon opens it and is known to every drain
\* (kubernetes.py:103-127).
LEMMA CordonInv ==
    ASSUME IInv, NEW t \in Threads, Cordon(t) \/ Uncordon(t)
    PROVE  IInv'
<1>1. Finish(t, "ok") /\ at' = [at EXCEPT ![t] = "idle"] /\ UNCHANGED <<pods, todo, blocked>>
  BY DEF Cordon, Uncordon, Finish, Answered, drain
<1>2. WrapperInv'
  BY <1>1, FinishInv DEF IInv, Outcomes
<1>3. at'[t] = "idle" /\ \A u \in Threads : u # t => at'[u] = at[u]
  BY <1>1, IdleAt DEF IInv, WrapperInv, Stages
<1>4. CASE Cordon(t)
  <2>1. unschedulable' = TRUE /\ reopened' = reopened
    BY <1>4 DEF Cordon, drain
  <2>2. ClusterType'
    BY <1>1, <2>1 DEF IInv, ClusterType
  <2>3. DrainsAhead'
    BY <1>1, <1>3, <2>1 DEF IInv, DrainsAhead, Draining
  <2> QED
    BY <1>2, <2>2, <2>3 DEF IInv
<1>5. CASE Uncordon(t)
  <2>1. unschedulable' = FALSE /\ reopened' = [u \in Threads |-> TRUE]
    BY <1>5 DEF Uncordon
  <2>2. ClusterType'
    BY <1>1, <2>1 DEF IInv, ClusterType
  <2>3. DrainsAhead'
    BY <2>1 DEF DrainsAhead, Draining
  <2> QED
    BY <1>2, <2>2, <2>3 DEF IInv
<1> QED
  BY <1>4, <1>5

\* A drain begins by closing the node (kubernetes.py:136).
LEMMA DrainCordonInv ==
    ASSUME IInv, NEW t \in Threads, DrainCordon(t)
    PROVE  IInv'
<1>1. /\ unschedulable' = TRUE /\ reopened' = [reopened EXCEPT ![t] = FALSE]
      /\ Goes(t, "cordoned") /\ at' = [at EXCEPT ![t] = "cordoned"]
      /\ UNCHANGED <<pods, todo, blocked>>
  BY DEF DrainCordon, Goes
<1>2. WrapperInv'
  BY <1>1, GoesInv DEF IInv, Stages
<1>3. ClusterType'
  BY <1>1 DEF IInv, ClusterType
<1>4. at'[t] = "cordoned" /\ \A u \in Threads : u # t => at'[u] = at[u] /\ reopened'[u] = reopened[u]
  BY <1>1, IdleAt DEF IInv, WrapperInv, ClusterType, Stages
<1>5. DrainsAhead'
  BY <1>1, <1>4 DEF IInv, DrainsAhead, Draining
<1> QED
  BY <1>2, <1>3, <1>5 DEF IInv

\* It lists the pods of a node that is closed (kubernetes.py:138-147).
LEMMA DrainListInv ==
    ASSUME IInv, NEW t \in Threads, DrainList(t)
    PROVE  IInv'
<1>1. /\ todo' = [todo EXCEPT ![t] = pods \ Protected] /\ blocked' = [blocked EXCEPT ![t] = {}]
      /\ Goes(t, "evicting") /\ at' = [at EXCEPT ![t] = "evicting"]
      /\ at[t] = "cordoned" /\ UNCHANGED <<pods, unschedulable, reopened>>
  BY DEF DrainList, Goes, cluster
<1>2. WrapperInv'
  BY <1>1, GoesInv DEF IInv, Stages
<1>3. ClusterType'
  BY <1>1 DEF IInv, ClusterType
<1>4. /\ todo'[t] = pods \ Protected
      /\ \A u \in Threads : u # t => at'[u] = at[u] /\ todo'[u] = todo[u] /\ blocked'[u] = blocked[u]
  BY <1>1, IdleAt DEF IInv, WrapperInv, ClusterType, Stages
<1>5. DrainsAhead'
  BY <1>1, <1>4 DEF IInv, DrainsAhead, Draining
<1> QED
  BY <1>2, <1>3, <1>5 DEF IInv

\* A pod that was tried is gone or is reported as blocked (kubernetes.py:148-159).
LEMMA EvictInv ==
    ASSUME IInv, NEW t \in Threads, Evict(t) \/ EvictBlocked(t)
    PROVE  IInv'
<1>1. Goes(t, "evicting") /\ at[t] = "evicting" /\ UNCHANGED <<unschedulable, reopened>>
  BY DEF Evict, EvictBlocked, cluster
<1>2. at' = at
  BY <1>1 DEF Goes, IInv, WrapperInv, WrapperType
<1>3. WrapperInv'
  BY <1>1, GoesInv DEF IInv, Stages
<1>4. PICK p \in todo[t] :
        /\ todo' = [todo EXCEPT ![t] = @ \ {p}]
        /\ \/ pods' = pods \ {p} /\ blocked' = blocked
           \/ pods' = pods /\ p \in pods /\ blocked' = [blocked EXCEPT ![t] = @ \cup {p}]
  BY DEF Evict, EvictBlocked, cluster
<1>5. ClusterType'
  BY <1>1, <1>4 DEF IInv, ClusterType
<1>6. /\ todo'[t] = todo[t] \ {p}
      /\ \A u \in Threads : u # t => todo'[u] = todo[u] /\ blocked'[u] = blocked[u]
      /\ \/ pods' = pods \ {p} /\ blocked'[t] = blocked[t]
         \/ pods' = pods /\ blocked'[t] = blocked[t] \cup {p}
  BY <1>4 DEF IInv, ClusterType
<1>7. pods' \subseteq pods
  BY <1>4
<1>8. ASSUME NEW u \in Threads, Draining(u)'
      PROVE  /\ unschedulable'
             /\ at'[u] = "evicting" => pods' \ Protected \subseteq todo'[u] \cup blocked'[u]
  <2>1. Draining(u)
    BY <1>1, <1>2, <1>8 DEF Draining
  <2>2. unschedulable /\ (at[u] = "evicting" => pods \ Protected \subseteq todo[u] \cup blocked[u])
    BY <2>1 DEF IInv, DrainsAhead
  <2>3. CASE u # t
    BY <1>1, <1>2, <1>6, <1>7, <2>2, <2>3
  <2>4. CASE u = t
    BY <1>1, <1>2, <1>6, <2>2, <2>4
  <2> QED
    BY <2>3, <2>4
<1>9. DrainsAhead'
  BY <1>8 DEF DrainsAhead
<1> QED
  BY <1>3, <1>5, <1>9 DEF IInv

\* Every stage of the three tools keeps the invariant (kubernetes.py:103-161).
LEMMA ServeInv ==
    ASSUME IInv, NEW t \in Threads, Serve(t)
    PROVE  IInv'
<1>1. CASE Wrapper(t)
  <2>1. PICK stage \in {"tool", "idle"} : at' = [at EXCEPT ![t] = stage]
    BY <1>1 DEF Wrapper, Enter, Replay
  <2>2. WrapperInv'
    BY <1>1, EnterInv, ReplayInv DEF Wrapper, IInv
  <2>3. ClusterType'
    BY <1>1 DEF Wrapper, IInv, ClusterType, cluster, drain
  <2>4. at'[t] = stage /\ \A u \in Threads : u # t => at'[u] = at[u]
    BY <2>1, IdleAt DEF IInv, WrapperInv, Stages
  <2>5. DrainsAhead'
    BY <1>1, <2>4, DrainsStay DEF IInv, Wrapper, cluster, drain
  <2> QED
    BY <2>2, <2>3, <2>5 DEF IInv
<1>2. CASE ApiFailed(t) \/ EvictGone(t) \/ DrainDone(t)
  BY <1>2, EndInv DEF ApiFailed, EvictGone, DrainDone, Outcomes
<1> QED
  BY <1>1, <1>2, PatchFailedInv, CordonInv, DrainCordonInv, DrainListInv, EvictInv DEF Serve

\* A server that starts has no drain under way: what the old one left is on
\* nobody's list (kubernetes.py:130-161).
LEMMA RestartServerInv ==
    ASSUME IInv, RestartServer
    PROVE  IInv'
<1>1. WrapperInv' /\ \A t \in Threads : at'[t] = "idle"
  BY RestartInv DEF IInv, RestartServer, Restart
<1>2. ClusterType' /\ DrainsAhead'
  BY <1>1 DEF RestartServer, IInv, ClusterType, DrainsAhead, Draining, cluster, drain
<1> QED
  BY <1>1, <1>2 DEF IInv

\* A new call drains nothing yet.
LEMMA CallerInv ==
    ASSUME IInv, Caller
    PROVE  IInv'
<1>1. PICK t \in Threads : Invoke(t)
  BY DEF Caller
<1>2. WrapperInv'
  BY <1>1, InvokeInv DEF IInv
<1>3. PICK stage \in {"tool", "lock"} : at' = [at EXCEPT ![t] = stage]
  BY <1>1 DEF Invoke
<1>4. at'[t] = stage /\ \A u \in Threads : u # t => at'[u] = at[u]
  BY <1>3, IdleAt DEF IInv, WrapperInv, Stages
<1>5. ClusterType' /\ DrainsAhead'
  BY <1>4, DrainsStay DEF Caller, IInv, ClusterType, cluster, drain
<1> QED
  BY <1>2, <1>5 DEF IInv

\* The scheduler brings pods only to an open node, which no drain counts on;
\* a pod that ends is one fewer to evict.
LEMMA PodsInv ==
    ASSUME IInv, PodStarts \/ PodEnds
    PROVE  IInv'
<1>1. UNCHANGED <<toolVars, unschedulable, drain>>
  BY DEF PodStarts, PodEnds
<1>2. WrapperInv'
  BY <1>1 DEF toolVars, IInv, WrapperInv, WrapperType, CachedAsAnswered, Gave, ReplayedAsAnswered, CacheKey
<1>3. pods' \in SUBSET Pods /\ (unschedulable => pods' \subseteq pods)
  BY DEF PodStarts, PodEnds, IInv, ClusterType
<1>4. ClusterType'
  BY <1>1, <1>3 DEF IInv, ClusterType, drain
<1>5. DrainsAhead'
  <2>1. at' = at /\ UNCHANGED <<unschedulable, todo, blocked, reopened>>
    BY <1>1 DEF toolVars, drain
  <2> QED
    BY <1>3, <2>1 DEF IInv, DrainsAhead, Draining
<1> QED
  BY <1>2, <1>4, <1>5 DEF IInv

\* The invariant holds when the server starts.
LEMMA InitInv == Init => IInv
<1> SUFFICES ASSUME Init PROVE IInv
  OBVIOUS
<1>1. (CHOOSE c \in Call : TRUE) \in Call
  <2>1. PICK tool \in Tools, args \in Args : TRUE
    BY ToolsAssumption
  <2>2. [tool |-> tool, key |-> NoKey, args |-> args] \in Call
    BY ToolsAssumption DEF Call
  <2> QED
    BY <2>2
<1>2. WrapperType /\ ClusterType
  BY <1>1 DEF Init, ToolsInit, WrapperType, ClusterType, Stages
<1>3. CachedAsAnswered /\ ReplayedAsAnswered /\ DrainsAhead
  BY DEF Init, ToolsInit, CachedAsAnswered, ReplayedAsAnswered, DrainsAhead, Draining
<1> QED
  BY <1>2, <1>3 DEF IInv, WrapperInv

\* Every step keeps the invariant.
LEMMA StepInv == IInv /\ [Next]_vars => IInv'
<1> SUFFICES ASSUME IInv, [Next]_vars PROVE IInv'
  OBVIOUS
<1>1. CASE UNCHANGED vars
  BY <1>1 DEF vars, toolVars, IInv, WrapperInv, WrapperType, ClusterType, CachedAsAnswered, Gave,
     ReplayedAsAnswered, DrainsAhead, Draining, CacheKey
<1> QED
  BY <1>1, CallerInv, RestartServerInv, PodsInv, ServeInv DEF Next

----------------------------------------------------------------------------
(* The theorems.                                                           *)

\* The drains under way are ahead of the scheduler, and the cache holds only
\* what was answered, in every state the server reaches.
THEOREM Invariance == Spec => []IInv
<1> QED
  BY InitInv, StepInv, PTL DEF Spec

\* For any number of threads, keys, failures and restarts, a replay gives an
\* answer that a call of the same tool with the same key got from this server
\* process (common.py:91-92, 104-108).
THEOREM Replayed == Spec => []ReplayedAsAnswered
<1>1. IInv => ReplayedAsAnswered
  BY DEF IInv, WrapperInv
<1> QED
  BY <1>1, Invariance, PTL

\* For any pods, any number of drains, cordons and uncordons at a time and any
\* failures of the API, a drain that is answered as done has left no pod on
\* the node but the protected ones and those it reports as blocked, unless
\* the node was uncordoned under it (kubernetes.py:130-161).
THEOREM Drained == Spec => DrainedIsEmpty
<1>1. ASSUME IInv, NEW t \in Threads, at[t] = "evicting", DrainDone(t), ~reopened[t]
      PROVE  pods \ Protected \subseteq blocked[t]
  <2>1. todo[t] = {}
    BY <1>1 DEF DrainDone
  <2> QED
    BY <1>1, <2>1 DEF IInv, DrainsAhead, Draining
<1>2. IInv => [\A t \in Threads :
          at[t] = "evicting" /\ DrainDone(t) /\ ~reopened[t] =>
              pods \ Protected \subseteq blocked[t]]_vars
  BY <1>1
<1> QED
  BY <1>2, Invariance, PTL DEF DrainedIsEmpty
============================================================================
