------------------------ MODULE RedfishServerProofs ------------------------
(***************************************************************************)
(* Theorems about RedfishServer for every value of its constants: a key is *)
(* worked on by one thread, and not again once it has been answered.       *)
(***************************************************************************)
EXTENDS RedfishServer, TLAPS

(* The inductive invariant.  A thread inside a tool called with a key      *)
(* holds the lock of that key and the cache has nothing under it; an       *)
(* answer that is not an error is in the cache.                            *)

TypeInv ==
    /\ at \in [Threads -> Stages]
    /\ call \in [Threads -> Call]
    /\ lock \in [CacheKeys -> Threads \cup {Free}]
    /\ cache \in [CacheKeys -> {"none"} \cup (Outcomes \ {"error"})]
    /\ answers \in SUBSET Answer
    /\ resets \in [CacheKeys -> Nat]
    /\ unpaused \in [Threads -> {"none", "yes", "no"}]

Keyed(t) == call[t].key # NoKey

HoldersInv ==
    \A t \in Threads : InTool(t) /\ Keyed(t) =>
        lock[CacheKey(call[t])] = t /\ cache[CacheKey(call[t])] = "none"

KeptInv ==
    \A a \in answers : a.outcome # "error" /\ a.call.key # NoKey =>
        cache[CacheKey(a.call)] # "none"

IInv == TypeInv /\ HoldersInv /\ KeptInv

----------------------------------------------------------------------------
(* The invariant holds at the start and in every step.                     *)

\* The key of a call is one the lock and the cache know (common.py:104).
LEMMA KeyType ==
    ASSUME NEW c \in Call
    PROVE  CacheKey(c) \in CacheKeys /\ CacheKey(c)[2] = c.key
BY DEF Call, CacheKey, CacheKeys

\* A server that starts has no lock and no answer (common.py:71-73).
LEMMA InitInv == Init => IInv
<1> SUFFICES ASSUME Init PROVE IInv
  OBVIOUS
<1>1. (CHOOSE c \in Call : TRUE) \in Call
  <2>1. PICK tool \in Tools, args \in Args : TRUE
    BY ToolsAssumption
  <2>2. [tool |-> tool, key |-> NoKey, args |-> args] \in Call
    BY ToolsAssumption DEF Call
  <2> QED
    BY <2>2
<1>2. TypeInv
  BY <1>1 DEF Init, ToolsInit, TypeInv, Stages
<1>3. HoldersInv /\ KeptInv
  BY DEF Init, ToolsInit, HoldersInv, KeptInv, InTool
<1> QED
  BY <1>2, <1>3 DEF IInv

\* A call arrives, on a thread that held nothing (common.py:99-103).
LEMMA InvokeInv ==
    ASSUME IInv, NEW t \in Threads, Invoke(t), resets' = resets, unpaused' = unpaused
    PROVE  IInv'
<1>1. PICK c \in Call :
        /\ call' = [call EXCEPT ![t] = c]
        /\ at' = [at EXCEPT ![t] = IF c.key = NoKey THEN "tool" ELSE "lock"]
  BY DEF Invoke
<1>2. lock' = lock /\ cache' = cache /\ answers' = answers
  BY DEF Invoke
<1>3. TypeInv'
  BY <1>1, <1>2 DEF IInv, TypeInv, Stages
<1>4. \A u \in Threads : u # t => at'[u] = at[u] /\ call'[u] = call[u]
  BY <1>1 DEF IInv, TypeInv
<1>5. ~(InTool(t) /\ Keyed(t))'
  BY <1>1 DEF IInv, TypeInv, InTool, Keyed
<1>6. HoldersInv'
  BY <1>2, <1>4, <1>5 DEF IInv, HoldersInv, InTool, Keyed
<1>7. KeptInv'
  BY <1>2 DEF IInv, KeptInv
<1> QED
  BY <1>3, <1>6, <1>7 DEF IInv

\* A lock that is free is taken, with nothing in the cache (common.py:105-109).
LEMMA EnterInv ==
    ASSUME IInv, NEW t \in Threads, Enter(t), resets' = resets, unpaused' = unpaused
    PROVE  IInv'
<1> DEFINE k == CacheKey(call[t])
<1>1. k \in CacheKeys
  BY KeyType DEF IInv, TypeInv
<1>2. /\ lock[k] = Free /\ cache[k] = "none"
      /\ lock' = [lock EXCEPT ![k] = t] /\ at' = [at EXCEPT ![t] = "tool"]
      /\ call' = call /\ cache' = cache /\ answers' = answers
  BY DEF Enter
<1> HIDE DEF k
<1>3. TypeInv'
  BY <1>2 DEF IInv, TypeInv, Stages
<1>4. lock'[k] = t /\ \A j \in CacheKeys : j # k => lock'[j] = lock[j]
  BY <1>1, <1>2 DEF IInv, TypeInv
<1>5. ASSUME NEW u \in Threads, u # t, (InTool(u) /\ Keyed(u))'
      PROVE  lock'[CacheKey(call[u])] = u /\ cache[CacheKey(call[u])] = "none"
  <2>1. InTool(u) /\ Keyed(u)
    BY <1>2, <1>5 DEF IInv, TypeInv, InTool, Keyed
  <2>2. lock[CacheKey(call[u])] = u /\ cache[CacheKey(call[u])] = "none"
    BY <2>1 DEF IInv, HoldersInv
  <2>3. CacheKey(call[u]) \in CacheKeys
    BY KeyType DEF IInv, TypeInv
  <2>4. CacheKey(call[u]) # k
    BY <1>2, <2>2, ToolsAssumption
  <2> QED
    BY <1>4, <2>2, <2>3, <2>4
<1>6. HoldersInv'
  BY <1>2, <1>4, <1>5 DEF HoldersInv, k, CacheKey
<1>7. KeptInv'
  BY <1>2 DEF IInv, KeptInv, CacheKey
<1> QED
  BY <1>3, <1>6, <1>7 DEF IInv

\* A kept answer is given again (common.py:105-108).
LEMMA ReplayInv ==
    ASSUME IInv, NEW t \in Threads, Replay(t), resets' = resets, unpaused' = unpaused
    PROVE  IInv'
<1> DEFINE k == CacheKey(call[t])
           a == [call |-> call[t], outcome |-> cache[k], replayed |-> TRUE]
<1>1. call[t] \in Call /\ k \in CacheKeys
  BY KeyType DEF IInv, TypeInv
<1>2. /\ cache[k] # "none" /\ answers' = answers \cup {a}
      /\ at' = [at EXCEPT ![t] = "idle"]
      /\ call' = call /\ lock' = lock /\ cache' = cache
  BY DEF Replay
<1>3. a \in Answer /\ a.call = call[t]
  BY <1>1, <1>2 DEF IInv, TypeInv, Answer, Outcomes
<1>4. CacheKey(a.call) = k
  BY <1>3
<1> HIDE DEF k, a
<1>5. TypeInv'
  BY <1>2, <1>3 DEF IInv, TypeInv, Stages
<1>6. HoldersInv'
  BY <1>2 DEF IInv, TypeInv, HoldersInv, InTool, Keyed, CacheKey
<1>7. KeptInv'
  BY <1>2, <1>4 DEF IInv, KeptInv, CacheKey
<1> QED
  BY <1>5, <1>6, <1>7 DEF IInv

\* The tool returns or raises: its thread lets the lock go (common.py:105-112).
LEMMA FinishInv ==
    ASSUME IInv, NEW t \in Threads, InTool(t), NEW outcome \in Outcomes, Finish(t, outcome),
           resets' \in [CacheKeys -> Nat], unpaused' = unpaused
    PROVE  IInv'
<1> DEFINE k == CacheKey(call[t])
           a == [call |-> call[t], outcome |-> outcome, replayed |-> FALSE]
<1>1. call[t] \in Call /\ k \in CacheKeys
  BY KeyType DEF IInv, TypeInv
<1>2. /\ answers' = answers \cup {a} /\ at' = [at EXCEPT ![t] = "idle"] /\ call' = call
      /\ lock' = IF ~Keyed(t) THEN lock ELSE [lock EXCEPT ![k] = Free]
      /\ cache' = IF ~Keyed(t) \/ outcome = "error" THEN cache ELSE [cache EXCEPT ![k] = outcome]
  BY DEF Finish, Answered, Keyed
<1>3. a \in Answer /\ a.call = call[t] /\ a.outcome = outcome
  BY <1>1 DEF Answer
<1>4. CacheKey(a.call) = k /\ (a.call.key # NoKey <=> Keyed(t))
  BY <1>3 DEF Keyed
<1> HIDE DEF k, a
<1>5. TypeInv'
  BY <1>2, <1>3 DEF IInv, TypeInv, Stages, Outcomes
<1>6. \A j \in CacheKeys : j # k \/ ~Keyed(t) => lock'[j] = lock[j] /\ cache'[j] = cache[j]
  BY <1>1, <1>2 DEF IInv, TypeInv
<1>7. ASSUME NEW u \in Threads, (InTool(u) /\ Keyed(u))'
      PROVE  lock'[CacheKey(call[u])] = u /\ cache'[CacheKey(call[u])] = "none"
  <2>1. u # t /\ InTool(u) /\ Keyed(u)
    BY <1>2, <1>7 DEF IInv, TypeInv, InTool, Keyed
  <2>2. lock[CacheKey(call[u])] = u /\ cache[CacheKey(call[u])] = "none"
    BY <2>1 DEF IInv, HoldersInv
  <2>3. CacheKey(call[u]) \in CacheKeys
    BY KeyType DEF IInv, TypeInv
  <2>4. Keyed(t) => CacheKey(call[u]) # k
    BY <2>1, <2>2 DEF IInv, HoldersInv, k
  <2> QED
    BY <1>6, <2>2, <2>3, <2>4
<1>8. HoldersInv'
  BY <1>2, <1>7 DEF HoldersInv, CacheKey
<1>9. ASSUME NEW b \in answers', b.outcome # "error", b.call.key # NoKey
      PROVE  cache'[CacheKey(b.call)] # "none"
  <2>1. CASE b = a
    <3>1. Keyed(t) /\ outcome # "error"
      BY <1>3, <1>4, <1>9, <2>1
    <3>2. cache'[k] = outcome
      BY <1>1, <1>2, <3>1 DEF IInv, TypeInv
    <3> QED
      BY <1>4, <2>1, <3>2 DEF Outcomes
  <2>2. CASE b # a
    <3>1. b \in answers /\ cache[CacheKey(b.call)] # "none"
      BY <1>2, <1>9, <2>2 DEF IInv, KeptInv
    <3>2. CacheKey(b.call) \in CacheKeys
      BY <3>1, KeyType DEF IInv, TypeInv, Answer
    <3>3. cache'[k] = cache[k] \/ cache'[k] = outcome
      BY <1>1, <1>2 DEF IInv, TypeInv
    <3>4. outcome # "none"
      BY DEF Outcomes
    <3> QED
      BY <1>6, <3>1, <3>2, <3>3, <3>4
  <2> QED
    BY <2>1, <2>2
<1>10. KeptInv'
  BY <1>9 DEF KeptInv, CacheKey
<1> QED
  BY <1>5, <1>8, <1>10 DEF IInv

\* A tool goes on to its next stage (redfish.py:204-233).
LEMMA GoesInv ==
    ASSUME IInv, NEW t \in Threads, InTool(t), NEW to \in Stages, Goes(t, to),
           resets' \in [CacheKeys -> Nat], unpaused' \in [Threads -> {"none", "yes", "no"}]
    PROVE  IInv'
<1>1. at' = [at EXCEPT ![t] = to] /\ UNCHANGED <<call, lock, cache, answers>>
  BY DEF Goes
<1>2. TypeInv'
  BY <1>1 DEF IInv, TypeInv
<1>3. \A u \in Threads : InTool(u)' => InTool(u)
  BY <1>1 DEF IInv, TypeInv, InTool
<1>4. HoldersInv' /\ KeptInv'
  BY <1>1, <1>3 DEF IInv, HoldersInv, KeptInv, Keyed, CacheKey
<1> QED
  BY <1>2, <1>4 DEF IInv

\* Counting a reset keeps the counters numbers.
LEMMA CountedType ==
    ASSUME IInv, NEW t \in Threads
    PROVE  Counted(resets, t) \in [CacheKeys -> Nat]
BY KeyType DEF IInv, TypeInv, Counted

\* reset_system keeps the invariant at each of its stages (redfish.py:204-233).
LEMMA ServeInv ==
    ASSUME IInv, NEW t \in Threads, Serve(t)
    PROVE  IInv'
<1>1. resets \in [CacheKeys -> Nat] /\ unpaused \in [Threads -> {"none", "yes", "no"}]
  BY DEF IInv, TypeInv
<1>2. CASE Wrapper(t)
  BY <1>2, EnterInv, ReplayInv DEF Wrapper
<1>3. CASE BadType(t)
  BY <1>1, <1>3, FinishInv DEF BadType, InTool, Outcomes
<1>4. CASE PostAccepted(t)
  BY <1>1, <1>4, GoesInv, CountedType DEF PostAccepted, InTool, Stages
<1>5. CASE PostFailed(t)
  <2>1. resets' \in [CacheKeys -> Nat]
    BY <1>1, <1>5, CountedType DEF PostFailed
  <2> QED
    BY <1>5, <2>1, FinishInv DEF PostFailed, InTool, Outcomes
<1>6. CASE Thaw(t)
  <2>1. PICK u \in {"none", "yes", "no"} : unpaused' = [unpaused EXCEPT ![t] = u]
    BY <1>6 DEF Thaw
  <2>2. unpaused' \in [Threads -> {"none", "yes", "no"}]
    BY <1>1, <2>1
  <2> QED
    BY <1>1, <1>6, <2>2, GoesInv DEF Thaw, InTool, Stages
<1>7. CASE ReadLog(t)
  BY <1>1, <1>7, FinishInv DEF ReadLog, InTool, Outcomes
<1>8. CASE ReadLogFailed(t)
  BY <1>1, <1>8, FinishInv DEF ReadLogFailed, InTool, Outcomes
<1> QED
  BY <1>2, <1>3, <1>4, <1>5, <1>6, <1>7, <1>8 DEF Serve

\* Every step keeps the invariant.
LEMMA StepInv == IInv /\ [Next]_vars => IInv'
<1> SUFFICES ASSUME IInv, [Next]_vars PROVE IInv'
  OBVIOUS
<1>1. CASE Caller
  BY <1>1, InvokeInv DEF Caller
<1>2. CASE RestartServer
  <2>1. TypeInv'
    BY <1>2 DEF RestartServer, Restart, IInv, TypeInv, Stages
  <2>2. HoldersInv' /\ KeptInv'
    BY <1>2 DEF RestartServer, Restart, HoldersInv, KeptInv, InTool
  <2> QED
    BY <2>1, <2>2 DEF IInv
<1>3. CASE \E t \in Threads : Serve(t)
  BY <1>3, ServeInv
<1>4. CASE UNCHANGED vars
  BY <1>4 DEF vars, toolVars, IInv, TypeInv, HoldersInv, KeptInv, InTool, Keyed, CacheKey
<1> QED
  BY <1>1, <1>2, <1>3, <1>4 DEF Next

\* Locks are held by the threads that work under them and answers that are
\* not errors are kept, in every state the server reaches (common.py:97-112).
THEOREM Invariance == Spec => []IInv
<1> QED
  BY InitInv, StepInv, PTL DEF Spec

----------------------------------------------------------------------------
(* The theorem.                                                            *)

\* A step that resets a machine is one of a thread that works on the call.
LEMMA ResetStep ==
    ASSUME IInv, [Next]_vars, NEW k \in CacheKeys, resets'[k] # resets[k]
    PROVE  \E t \in Threads : InTool(t) /\ CacheKey(call[t]) = k
<1>1. PICK t \in Threads : PostAccepted(t) \/ PostFailed(t)
  <2>1. resets' # resets
    OBVIOUS
  <2> QED
    BY <2>1 DEF Next, Serve, Wrapper, Caller, RestartServer, BadType, Thaw, ReadLog,
       ReadLogFailed, vars
<1>2. resets' = Counted(resets, t) \/ resets' = resets
  BY <1>1 DEF PostAccepted, PostFailed
<1>3. CacheKey(call[t]) = k
  BY <1>2 DEF Counted, IInv, TypeInv
<1>4. InTool(t)
  BY <1>1 DEF PostAccepted, PostFailed, InTool
<1> QED
  BY <1>3, <1>4

\* What ResetStep finds is alone and has no answer to go by.
LEMMA FirstReset ==
    ASSUME IInv, NEW k \in CacheKeys, k[2] # NoKey,
           NEW t \in Threads, InTool(t), CacheKey(call[t]) = k
    PROVE  /\ \A a \in answers : CacheKey(a.call) = k => a.outcome = "error"
           /\ \A u, v \in Threads :
                 InTool(u) /\ InTool(v) /\ CacheKey(call[u]) = k /\ CacheKey(call[v]) = k
                    => u = v
<1>1. \A u \in Threads : CacheKey(call[u]) = k => Keyed(u)
  BY KeyType DEF IInv, TypeInv, Keyed
<1>2. cache[k] = "none"
  BY <1>1 DEF IInv, HoldersInv
<1>3. ASSUME NEW a \in answers, CacheKey(a.call) = k PROVE a.outcome = "error"
  <2>1. a.call.key # NoKey
    BY <1>3, KeyType DEF IInv, TypeInv, Answer
  <2> QED
    BY <1>2, <1>3, <2>1 DEF IInv, KeptInv
<1>4. \A u \in Threads : InTool(u) /\ CacheKey(call[u]) = k => lock[k] = u
  BY <1>1 DEF IInv, HoldersInv
<1> QED
  BY <1>3, <1>4

\* For any number of threads, calls, failures and restarts, no machine is
\* reset for a key that was answered without an error or that another call is
\* still working on (common.py:97-112, redfish.py:206-233).
THEOREM ResetOnce == Spec => NoSecondReset
<1>1. ASSUME IInv, [Next]_vars
      PROVE  [\A k \in CacheKeys : resets'[k] # resets[k] /\ k[2] # NoKey =>
                /\ \A a \in answers : CacheKey(a.call) = k => a.outcome = "error"
                /\ \A t, u \in Threads :
                      InTool(t) /\ InTool(u) /\ CacheKey(call[t]) = k /\ CacheKey(call[u]) = k
                          => t = u]_vars
  <2>1. ASSUME NEW k \in CacheKeys, resets'[k] # resets[k], k[2] # NoKey
        PROVE  /\ \A a \in answers : CacheKey(a.call) = k => a.outcome = "error"
               /\ \A t, u \in Threads :
                     InTool(t) /\ InTool(u) /\ CacheKey(call[t]) = k /\ CacheKey(call[u]) = k
                         => t = u
    <3>1. PICK t \in Threads : InTool(t) /\ CacheKey(call[t]) = k
      BY <1>1, <2>1, ResetStep
    <3> QED
      BY <1>1, <2>1, <3>1, FirstReset
  <2> QED
    BY <2>1
<1> QED
  BY <1>1, Invariance, PTL DEF Spec, NoSecondReset
============================================================================
