-------------------------- MODULE IdempotentTools --------------------------
(***************************************************************************)
(* The wrapper around every tool that changes something, mcp/hush_mcp/     *)
(* common.py: a call with an idempotency key takes the lock of its tool    *)
(* and key, is answered from the cache when an earlier call was answered   *)
(* without an error, and otherwise runs the tool and caches what it        *)
(* returns.  The server answers several calls at a time, each on a thread  *)
(* of its own, and may be restarted, which forgets the cache.              *)
(*                                                                         *)
(* What the tool does between Enter and Finish is in the module of the     *)
(* server, which extends this one.                                         *)
(***************************************************************************)
EXTENDS Integers, FiniteSets

CONSTANTS
    Threads,
    Tools,
    Keys,          \* the idempotency keys that callers use, NoKey among them
    NoKey,         \* the empty key
    Args,          \* what else a call says
    Free,          \* no thread
    MaxCalls,      \* bound: calls made
    MaxRestarts    \* bound: restarts of the server

ASSUME ToolsAssumption ==
    /\ Tools # {} /\ Args # {}
    /\ NoKey \in Keys
    /\ Free \notin Threads
    /\ MaxCalls \in Nat
    /\ MaxRestarts \in Nat

VARIABLES
    at,        \* where each thread is: "idle", "lock" or a stage of its tool
    call,      \* the call each thread serves, or served last
    lock,      \* _KEY_LOCKS: the thread that holds the lock of a cache key
    cache,     \* _IDEMPOTENT: the outcome kept under a cache key, or "none"
    answers,   \* what this server process has answered
    made,      \* how many calls were made
    restarts   \* how many times the server was restarted

toolVars == <<at, call, lock, cache, answers, made, restarts>>

Call == [tool: Tools, key: Keys, args: Args]

\* Mutated form of CacheKey: the key is not scoped to the tool.
CacheKeyUnscoped(c) == <<CHOOSE tool \in Tools : TRUE, c.key>>

CacheKey(c) == <<c.tool, c.key>>

CacheKeys == Tools \X Keys

\* "not_ok" is an answer with ok: false; only an error envelope is "error".
Outcomes == {"ok", "not_ok", "error"}

Answer == [call: Call, outcome: Outcomes, replayed: BOOLEAN]

InTool(t) == at[t] \notin {"idle", "lock"}

ToolsInit ==
    /\ at = [t \in Threads |-> "idle"]
    /\ call = [t \in Threads |-> CHOOSE c \in Call : TRUE]
    /\ lock = [k \in CacheKeys |-> Free]
    /\ cache = [k \in CacheKeys |-> "none"]
    /\ answers = {}
    /\ made = 0
    /\ restarts = 0

Invoke(t) ==
    /\ at[t] = "idle"
    /\ made < MaxCalls
    /\ \E c \in Call :
          /\ call' = [call EXCEPT ![t] = c]
          /\ at' = [at EXCEPT ![t] = IF c.key = NoKey THEN "tool" ELSE "lock"]
    /\ made' = made + 1
    /\ UNCHANGED <<lock, cache, answers, restarts>>

\* Mutated form of Enter: the lock is not waited for.
EnterUnlocked(t) ==
    LET k == CacheKey(call[t]) IN
    /\ at[t] = "lock"
    /\ cache[k] = "none"
    /\ lock' = [lock EXCEPT ![k] = t]
    /\ at' = [at EXCEPT ![t] = "tool"]
    /\ UNCHANGED <<call, cache, answers, made, restarts>>

\* The lock is taken and the cache holds nothing: the tool runs.
Enter(t) ==
    LET k == CacheKey(call[t]) IN
    /\ at[t] = "lock"
    /\ lock[k] = Free
    /\ cache[k] = "none"
    /\ lock' = [lock EXCEPT ![k] = t]
    /\ at' = [at EXCEPT ![t] = "tool"]
    /\ UNCHANGED <<call, cache, answers, made, restarts>>

\* The lock is taken, the answer is in the cache, the lock is let go.
Replay(t) ==
    LET k == CacheKey(call[t]) IN
    /\ at[t] = "lock"
    /\ lock[k] = Free
    /\ cache[k] # "none"
    /\ answers' = answers \cup
          {[call |-> call[t], outcome |-> cache[k], replayed |-> TRUE]}
    /\ at' = [at EXCEPT ![t] = "idle"]
    /\ UNCHANGED <<call, lock, cache, made, restarts>>

Answered(t, outcome) ==
    /\ answers' = answers \cup {[call |-> call[t], outcome |-> outcome, replayed |-> FALSE]}
    /\ at' = [at EXCEPT ![t] = "idle"]
    /\ UNCHANGED <<call, made, restarts>>

\* Mutated form of Finish: an error leaves the lock held.
FinishHoldingLock(t, outcome) ==
    LET k == CacheKey(call[t]) IN
    /\ Answered(t, outcome)
    /\ lock' = IF call[t].key = NoKey \/ outcome = "error" THEN lock
               ELSE [lock EXCEPT ![k] = Free]
    /\ cache' = IF call[t].key = NoKey \/ outcome = "error" THEN cache
                ELSE [cache EXCEPT ![k] = outcome]

\* The tool of thread t returns, or raises (outcome "error").
Finish(t, outcome) ==
    LET k == CacheKey(call[t]) IN
    /\ Answered(t, outcome)
    /\ lock' = IF call[t].key = NoKey THEN lock ELSE [lock EXCEPT ![k] = Free]
    /\ cache' = IF call[t].key = NoKey \/ outcome = "error" THEN cache
                ELSE [cache EXCEPT ![k] = outcome]

Goes(t, stage) ==
    /\ at' = [at EXCEPT ![t] = stage]
    /\ UNCHANGED <<call, lock, cache, answers, made, restarts>>

\* The server is stopped and started: calls under way are lost.
Restart ==
    /\ restarts < MaxRestarts
    /\ restarts' = restarts + 1
    /\ at' = [t \in Threads |-> "idle"]
    /\ lock' = [k \in CacheKeys |-> Free]
    /\ cache' = [k \in CacheKeys |-> "none"]
    /\ answers' = {}
    /\ UNCHANGED <<call, made>>

----------------------------------------------------------------------------

\* A replayed answer is one that a call of the same tool with the same key
\* got before: a key used for two tools never passes off one's answer as the
\* other's (common.py:91-92, 104-108).
ReplayedAsAnswered ==
    \A a \in answers : a.replayed =>
        \E b \in answers :
            /\ ~b.replayed /\ b.outcome = a.outcome
            /\ b.call.tool = a.call.tool /\ b.call.key = a.call.key

\* Every call is answered unless the server is restarted under it: no lock is
\* left held, whatever the tool raises (common.py:105-112).
EveryCallAnswered ==
    \A t \in Threads : at[t] # "idle" ~> at[t] = "idle"
============================================================================
