------------------------ MODULE ApprovalFilesProofs ------------------------
(***************************************************************************)
(* Theorems about ApprovalFiles for every value of its constants: the web  *)
(* bridge implements ApprovalGate, and a console accepts one decision for  *)
(* a call.                                                                 *)
(***************************************************************************)
EXTENDS ApprovalFiles, TLAPS

(* The inductive invariant, in four parts.                                 *)

Request ==
    [stage: {"unused", "received", "read", "recorded", "accepted", "refused"},
     for: Question, allow: BOOLEAN, seen: Question \cup {None}]

Standings == {"unasked", "asked"} \cup Outcomes

TypeInv ==
    /\ pending \in Question \cup {None, Partial}
    /\ decision \in Decision \cup {None}
    /\ stage \in [Controllers -> Stages]
    /\ question \in [Controllers -> Question]
    /\ verdict \in [Controllers -> Outcomes]
    /\ asked \in 0 .. MaxAsks
    /\ result \in [Toks -> Standings]
    /\ shown \in SUBSET Question
    /\ request \in [Requests -> Request]
    /\ recorded \in SUBSET Question
    /\ posted \in SUBSET (Toks \X BOOLEAN)
    /\ placed \in [Toks -> Nat]

\* A controller inside decide() has a question of its own that is still open.
OpenInv ==
    /\ \A t \in Toks : result[t] = "unasked" <=> t > asked
    /\ \A c \in Controllers : stage[c] # "idle" => result[question[c].tok] = "asked"
    /\ \A c, d \in Controllers :
          stage[c] # "idle" /\ stage[d] # "idle" /\ c # d
              => question[c].tok # question[d].tok
    /\ \A q \in shown : result[q.tok] # "unasked"

Carries(d) == <<d.tok, d.allow>> \in posted

Justified(c) ==
    /\ verdict[c] = "allow" => <<question[c].tok, TRUE>> \in posted
    /\ verdict[c] = "deny" => <<question[c].tok, FALSE>> \in posted

\* A decision is one a human posted, on its way, on disk and in a verdict.
TrueInv ==
    /\ decision # None => Carries(decision)
    /\ \A r \in Requests : request[r].stage \in {"received", "read", "recorded"}
          => <<request[r].for.tok, request[r].allow>> \in posted
    /\ \A c \in Controllers : stage[c] \in {"closing", "closed"} => Justified(c)

\* Questions are told apart by their call, and a recorded one is placed once.
OnceInv ==
    /\ \A p, q \in shown : p.tok = q.tok => p = q
    /\ \A c \in Controllers : stage[c] \in {"cleared", "writing"}
          => \A q \in shown : q.tok # question[c].tok
    /\ pending \in Question => pending \in shown
    /\ \A r \in Requests : request[r].seen \in Question => request[r].seen \in shown
    /\ recorded \subseteq shown
    /\ \A r \in Requests : request[r].stage = "recorded"
          => request[r].for \in recorded /\ placed[request[r].for.tok] = 0
    /\ \A r, s \in Requests :
          request[r].stage = "recorded" /\ request[s].stage = "recorded" /\ r # s
              => request[r].for # request[s].for
    /\ \A t \in Toks : placed[t] <= 1
    /\ \A t \in Toks : placed[t] > 0 => \E q \in recorded : q.tok = t

IInv == TypeInv /\ OpenInv /\ TrueInv /\ OnceInv

----------------------------------------------------------------------------
(* The invariant holds at the start and in every step.                     *)

\* Nothing has been asked, posted or written (approval.ts, ui-server.ts).
LEMMA InitInv == Init => IInv
<1> SUFFICES ASSUME Init PROVE IInv
  OBVIOUS
<1> USE ApprovalAssumption
<1>1. PICK q \in Question : q = CHOOSE p \in Question : TRUE
  <2>1. PICK a \in Actions : TRUE
    OBVIOUS
  <2>2. 1 \in Toks
    BY DEF Toks
  <2>3. [tok |-> 1, action |-> a] \in Question
    BY <2>1, <2>2 DEF Question
  <2> QED
    BY <2>3
<1>2. TypeInv
  BY <1>1 DEF Init, TypeInv, Stages, Outcomes, Standings, Request
<1>3. OpenInv
  BY DEF Init, OpenInv, Toks
<1>4. TrueInv
  BY DEF Init, TrueInv
<1>5. OnceInv
  BY DEF Init, OnceInv
<1> QED
  BY <1>2, <1>3, <1>4, <1>5 DEF IInv

\* N6 asks: the call is new, so nobody was shown it (approval.ts:93-105).
LEMMA AskInv ==
    ASSUME IInv, NEW c \in Controllers, Ask(c)
    PROVE  IInv'
<1> USE ApprovalAssumption
<1> DEFINE t == asked + 1
<1>1. PICK a \in Actions : question' = [question EXCEPT ![c] = [tok |-> t, action |-> a]]
  BY DEF Ask
<1>2. t \in Toks /\ t \in Nat /\ asked' = t /\ asked \in Nat /\ t \in 0 .. MaxAsks
  BY DEF Ask, IInv, TypeInv, Toks
<1>3. [tok |-> t, action |-> a] \in Question
  BY <1>2 DEF Question
<1>4. TypeInv'
  BY <1>1, <1>2, <1>3 DEF IInv, TypeInv, Ask, Moves, Stages, Standings, console
<1>5. result[t] = "unasked" /\ result' = [result EXCEPT ![t] = "asked"]
  BY <1>2 DEF IInv, OpenInv, Ask
<1>6. /\ question'[c].tok = t
      /\ \A d \in Controllers : d # c => question'[d] = question[d] /\ stage'[d] = stage[d]
  BY <1>1 DEF IInv, TypeInv, Ask, Moves
<1>7. OpenInv'
  <2>1. \A u \in Toks : result'[u] = "unasked" <=> u > t
    BY <1>2, <1>5 DEF IInv, TypeInv, OpenInv, Toks
  <2>2. \A d \in Controllers : stage'[d] # "idle" => result'[question'[d].tok] = "asked"
    BY <1>2, <1>5, <1>6 DEF IInv, TypeInv, OpenInv, Question
  <2>3. \A d \in Controllers : d # c /\ stage[d] # "idle" => question[d].tok # t
    BY <1>5 DEF IInv, OpenInv
  <2>4. \A q \in shown' : result'[q.tok] # "unasked"
    BY <1>2, <1>5 DEF IInv, TypeInv, OpenInv, Ask, Question
  <2> QED
    BY <1>2, <1>6, <2>1, <2>2, <2>3, <2>4 DEF IInv, OpenInv
<1>8. TrueInv'
  BY <1>6 DEF IInv, TypeInv, TrueInv, Justified, Carries, Ask, Moves, console
<1>9. \A q \in shown : q.tok # t
  BY <1>5 DEF IInv, OpenInv
<1>10. OnceInv'
  BY <1>6, <1>9 DEF IInv, TypeInv, OnceInv, Ask, Moves, console
<1> QED
  BY <1>4, <1>7, <1>8, <1>10 DEF IInv

\* A controller goes on inside decide() and its files change (approval.ts:113-176).
LEMMA DecideInv ==
    ASSUME IInv, NEW c \in Controllers,
           OpenPending(c) \/ WritePending(c) \/ Poll(c) \/ Expire(c) \/ RemovePending(c)
    PROVE  IInv'
<1> USE ApprovalAssumption
<1>1. /\ question' = question /\ asked' = asked /\ result' = result /\ UNCHANGED console
      /\ stage[c] # "idle"
      /\ \A d \in Controllers : d # c => stage'[d] = stage[d] /\ verdict'[d] = verdict[d]
  BY DEF IInv, TypeInv, OpenPending, WritePending, Poll, Expire, RemovePending, Moves
<1>2. question[c] \in Question /\ result[question[c].tok] = "asked"
  BY <1>1 DEF IInv, TypeInv, OpenInv
<1>3. TypeInv'
  BY <1>1, <1>2 DEF IInv, TypeInv, OpenPending, WritePending, Poll, Expire, RemovePending, Moves,
     Stages, Outcomes, console
<1>4. shown' \subseteq shown \cup {question[c]}
  BY DEF OpenPending, WritePending, Poll, Expire, RemovePending
<1>5. OpenInv'
  BY <1>1, <1>2, <1>4 DEF IInv, TypeInv, OpenInv
<1>6. stage'[c] \in {"closing", "closed"} => Justified(c)'
  <2>1. CASE Poll(c)
    BY <1>1, <2>1 DEF IInv, TypeInv, TrueInv, Carries, Justified, Poll, Answers, Decision, console
  <2>2. CASE Expire(c)
    BY <1>1, <2>2 DEF IInv, TypeInv, Justified, Expire
  <2>3. CASE RemovePending(c)
    BY <1>1, <2>3 DEF IInv, TypeInv, TrueInv, Justified, RemovePending, Moves, console
  <2>4. CASE OpenPending(c) \/ WritePending(c)
    BY <2>4 DEF IInv, TypeInv, OpenPending, WritePending, Moves
  <2> QED
    BY <2>1, <2>2, <2>3, <2>4
<1>7. TrueInv'
  <2>1. decision' = decision
    BY DEF OpenPending, WritePending, Poll, Expire, RemovePending
  <2> QED
    BY <1>1, <1>6, <2>1 DEF IInv, TrueInv, Carries, Justified, console
<1>8. OnceInv'
  <2>1. CASE WritePending(c)
    BY <1>1, <1>2, <2>1 DEF IInv, TypeInv, OpenInv, OnceInv, WritePending, Moves, console
  <2>2. CASE ~WritePending(c)
    <3>1. /\ shown' = shown /\ (pending' = pending \/ pending' \in {None, Partial})
          /\ \A d \in Controllers : stage'[d] \in {"cleared", "writing"}
                => stage[d] \in {"cleared", "writing"}
      BY <1>1, <2>2 DEF IInv, TypeInv, OpenPending, Poll, Expire, RemovePending, Moves
    <3> QED
      BY <1>1, <3>1 DEF IInv, TypeInv, OnceInv, console
  <2> QED
    BY <2>1, <2>2
<1> QED
  BY <1>3, <1>5, <1>7, <1>8 DEF IInv

\* A controller leaves decide(): it returns, throws or is killed.
LEMMA LeaveInv ==
    ASSUME IInv, NEW c \in Controllers, HeldUnplanned(c) \/ RemoveDecision(c) \/ Die(c)
    PROVE  IInv'
<1> USE ApprovalAssumption
<1>1. /\ question' = question /\ asked' = asked /\ verdict' = verdict /\ shown' = shown
      /\ pending' = pending /\ UNCHANGED console
      /\ stage[c] # "idle" /\ stage' = [stage EXCEPT ![c] = "idle"]
      /\ decision' \in {decision, None}
  BY DEF HeldUnplanned, RemoveDecision, Die, Moves
<1>2. question[c].tok \in Toks /\ result[question[c].tok] = "asked"
  BY <1>1 DEF IInv, TypeInv, OpenInv, Question
<1>3. PICK outcome \in {"asked"} \cup Outcomes :
        result' = [result EXCEPT ![question[c].tok] = outcome]
  <2>1. CASE HeldUnplanned(c)
    BY <2>1 DEF HeldUnplanned, Outcomes
  <2>2. CASE RemoveDecision(c)
    BY <2>2 DEF IInv, TypeInv, RemoveDecision
  <2>3. CASE Die(c)
    BY <1>2, <2>3 DEF IInv, TypeInv, Die
  <2> QED
    BY <2>1, <2>2, <2>3
<1>4. outcome # "unasked" /\ outcome \in Standings
  BY DEF Outcomes, Standings
<1>5. TypeInv'
  BY <1>1, <1>3, <1>4 DEF IInv, TypeInv, Stages, console
<1>6. \A d \in Controllers : d # c => stage'[d] = stage[d]
  BY <1>1 DEF IInv, TypeInv
<1>7. stage'[c] = "idle"
  BY <1>1 DEF IInv, TypeInv
<1>8. OpenInv'
  <2>1. \A t \in Toks : result'[t] = "unasked" <=> result[t] = "unasked"
    BY <1>2, <1>3, <1>4 DEF IInv, TypeInv
  <2>2. \A d \in Controllers : stage'[d] # "idle" => result'[question'[d].tok] = "asked"
    BY <1>1, <1>2, <1>3, <1>6, <1>7 DEF IInv, TypeInv, OpenInv, Question
  <2>3. \A q \in shown : q.tok \in Toks
    BY DEF IInv, TypeInv, Question
  <2> QED
    BY <1>1, <1>6, <1>7, <2>1, <2>2, <2>3 DEF IInv, OpenInv
<1>9. TrueInv'
  BY <1>1, <1>6, <1>7 DEF IInv, TrueInv, Carries, Justified, console
<1>10. OnceInv'
  BY <1>1, <1>6, <1>7 DEF IInv, OnceInv, console
<1> QED
  BY <1>5, <1>8, <1>9, <1>10 DEF IInv

\* What a step of the console leaves alone keeps OpenInv and the verdicts.
LEMMA ConsoleOpenInv ==
    ASSUME IInv, UNCHANGED controllers, posted \subseteq posted'
    PROVE  OpenInv' /\ \A c \in Controllers : stage'[c] \in {"closing", "closed"} => Justified(c)'
BY DEF IInv, OpenInv, TrueInv, Justified, controllers

\* A human posts an answer to a question that was shown (app.js).
LEMMA PostInv ==
    ASSUME IInv, NEW r \in Requests, Post(r)
    PROVE  IInv'
<1> USE ApprovalAssumption
<1>1. PICK q \in shown, allow \in BOOLEAN :
        /\ request' = [request EXCEPT ![r] =
                         [stage |-> "received", for |-> q, allow |-> allow, seen |-> None]]
        /\ posted' = posted \cup {<<q.tok, allow>>}
  BY DEF Post
<1>2. q \in Question /\ q.tok \in Toks
  BY DEF IInv, TypeInv, Question
<1>3. UNCHANGED <<pending, decision, controllers, recorded, placed>>
  BY DEF Post
<1>4. TypeInv'
  BY <1>1, <1>2, <1>3 DEF IInv, TypeInv, Request, controllers
<1>5. TrueInv'
  <2>1. /\ \A s \in Requests : s # r => request'[s] = request[s]
        /\ request'[r].for = q /\ request'[r].allow = allow
    BY <1>1 DEF IInv, TypeInv
  <2>2. \A s \in Requests : request'[s].stage \in {"received", "read", "recorded"}
           => <<request'[s].for.tok, request'[s].allow>> \in posted'
    BY <1>1, <2>1 DEF IInv, TrueInv
  <2>3. decision' # None => Carries(decision)'
    BY <1>1, <1>3 DEF IInv, TrueInv, Carries
  <2> QED
    BY <1>1, <1>3, <2>2, <2>3, ConsoleOpenInv DEF TrueInv
<1>6. OnceInv'
  <2>1. /\ \A s \in Requests : s # r => request'[s] = request[s]
        /\ request'[r].stage = "received" /\ request'[r].seen = None
    BY <1>1 DEF IInv, TypeInv
  <2> QED
    BY <1>3, <2>1 DEF IInv, OnceInv, controllers
<1> QED
  BY <1>1, <1>3, <1>4, <1>5, <1>6, ConsoleOpenInv DEF IInv

\* The console reads, refuses or records, and fails to write (ui-server.ts:349-399).
LEMMA HandleInv ==
    ASSUME IInv, NEW r \in Requests,
           \/ ReadPending(r) \/ Refused(r) \/ Recorded(r)
           \/ MkdirFailed(r) \/ PlaceFailed(r)
    PROVE  IInv'
<1> USE ApprovalAssumption
<1>1. /\ UNCHANGED <<pending, decision, controllers, posted, placed>>
      /\ \A s \in Requests : s # r => request'[s] = request[s]
      /\ request'[r].for = request[r].for /\ request'[r].allow = request[r].allow
  BY DEF IInv, TypeInv, Request, ReadPending, Refused, Recorded, MkdirFailed, PlaceFailed,
     Becomes
<1>2. TypeInv'
  BY <1>1 DEF IInv, TypeInv, Request, ReadPending, Refused, Recorded, MkdirFailed, PlaceFailed,
     Becomes, controllers
<1>3. TrueInv'
  <2>1. request'[r].stage \in {"received", "read", "recorded"}
           => request[r].stage \in {"received", "read", "recorded"}
    BY DEF IInv, TypeInv, Request, ReadPending, Refused, Recorded, MkdirFailed, PlaceFailed,
     Becomes
  <2> QED
    BY <1>1, <2>1, ConsoleOpenInv DEF IInv, TrueInv, Carries
<1>4. OnceInv'
  <2>1. CASE ReadPending(r) \/ Refused(r) \/ MkdirFailed(r)
    <3>1. /\ recorded' = recorded /\ request'[r].stage # "recorded"
          /\ request'[r].seen \in {request[r].seen, pending, None}
      BY <2>1 DEF IInv, TypeInv, Request, ReadPending, Refused, MkdirFailed, Becomes
    <3> QED
      BY <1>1, <3>1 DEF IInv, OnceInv, controllers
  <2>2. CASE Recorded(r)
    <3> DEFINE q == request[r].for
    <3>1. /\ recorded' = recorded \cup {q} /\ q \notin recorded
          /\ request'[r].seen = request[r].seen /\ request[r].seen = q
          /\ q \in Question
      BY <2>2 DEF IInv, TypeInv, Request, Recorded, Becomes
    <3>2. q \in shown
      BY <3>1 DEF IInv, OnceInv
    <3>3. q.tok \in Toks /\ placed[q.tok] = 0
      <4>1. q.tok \in Toks
        BY <3>1 DEF Question
      <4>2. placed[q.tok] \in Nat
        BY <4>1 DEF IInv, TypeInv
      <4>3. ASSUME placed[q.tok] > 0 PROVE FALSE
        <5>1. PICK p \in recorded : p.tok = q.tok
          BY <4>1, <4>3 DEF IInv, OnceInv
        <5>2. p = q
          BY <3>2, <5>1 DEF IInv, OnceInv
        <5> QED
          BY <3>1, <5>1, <5>2
      <4> QED
        BY <4>1, <4>2, <4>3
    <3>4. \A s \in Requests : s # r /\ request[s].stage = "recorded" => request[s].for # q
      BY <3>1 DEF IInv, OnceInv
    <3> QED
      BY <1>1, <3>1, <3>2, <3>3, <3>4 DEF IInv, OnceInv, controllers
  <2>3. CASE PlaceFailed(r)
    <3> DEFINE q == request[r].for
    <3>1. /\ recorded' = recorded \ {q} /\ request[r].stage = "recorded"
          /\ request'[r].stage = "refused" /\ request'[r].seen = request[r].seen
          /\ placed[q.tok] = 0
      BY <2>3 DEF IInv, TypeInv, Request, OnceInv, PlaceFailed, Becomes
    <3>2. \A s \in Requests : s # r /\ request[s].stage = "recorded" => request[s].for # q
      BY <3>1 DEF IInv, OnceInv
    <3>3. \A t \in Toks : placed[t] > 0 => \E p \in recorded \ {q} : p.tok = t
      BY <3>1 DEF IInv, OnceInv
    <3> QED
      BY <1>1, <3>1, <3>2, <3>3 DEF IInv, OnceInv, controllers
  <2> QED
    BY <2>1, <2>2, <2>3
<1> QED
  BY <1>1, <1>2, <1>3, <1>4, ConsoleOpenInv DEF IInv

\* The decision is renamed into place (ui-server.ts:378-394).
LEMMA PlaceInv ==
    ASSUME IInv, NEW r \in Requests, Place(r)
    PROVE  IInv'
<1> USE ApprovalAssumption
<1> DEFINE q == request[r].for
           d == [tok |-> q.tok, action |-> q.action, allow |-> request[r].allow]
<1>1. /\ UNCHANGED <<pending, controllers, recorded, posted>>
      /\ \A s \in Requests : s # r => request'[s] = request[s]
      /\ request'[r].stage = "accepted" /\ request'[r].seen = request[r].seen
      /\ request[r].stage = "recorded"
      /\ decision' = d /\ placed' = [placed EXCEPT ![q.tok] = @ + 1]
  BY DEF IInv, TypeInv, Request, Place, Becomes
<1>2. q \in Question /\ q.tok \in Toks /\ d \in Decision /\ d.tok = q.tok
      /\ d.allow = request[r].allow
  BY DEF IInv, TypeInv, Request, Question, Decision
<1>3. TypeInv'
  BY <1>1, <1>2 DEF IInv, TypeInv, Request, Place, Becomes, controllers
<1>4. TrueInv'
  <2>1. Carries(decision)'
    BY <1>1, <1>2 DEF IInv, TrueInv, Carries
  <2> QED
    BY <1>1, <2>1, ConsoleOpenInv DEF IInv, TrueInv
<1>5. placed[q.tok] = 0 /\ q \in recorded /\ q \in shown /\ recorded \subseteq shown
  BY <1>1 DEF IInv, OnceInv
<1>6. /\ placed'[q.tok] = 1
      /\ \A t \in Toks : t # q.tok => placed'[t] = placed[t]
  BY <1>1, <1>2, <1>5 DEF IInv, TypeInv
<1>7. \A s \in Requests : s # r /\ request[s].stage = "recorded" =>
        /\ request[s].for \in recorded /\ placed[request[s].for.tok] = 0
        /\ request[s].for.tok # q.tok /\ request[s].for.tok \in Toks
  BY <1>1, <1>2, <1>5 DEF IInv, TypeInv, OnceInv, Question
<1>8. OnceInv'
  <2>1. \A s \in Requests : request'[s].stage = "recorded"
          => request'[s].for \in recorded' /\ placed'[request'[s].for.tok] = 0
    BY <1>1, <1>6, <1>7
  <2>2. \A t \in Toks : placed'[t] <= 1
    BY <1>6 DEF IInv, OnceInv
  <2>3. \A t \in Toks : placed'[t] > 0 => \E p \in recorded' : p.tok = t
    BY <1>1, <1>5, <1>6 DEF IInv, OnceInv
  <2> QED
    BY <1>1, <2>1, <2>2, <2>3 DEF IInv, OnceInv, controllers
<1> QED
  BY <1>1, <1>3, <1>4, <1>8, ConsoleOpenInv DEF IInv

\* A console that starts anew has recorded nothing (ui-server.ts:35).
LEMMA RestartInv ==
    ASSUME IInv, RestartConsole
    PROVE  IInv'
<1> USE ApprovalAssumption
<1>1. /\ UNCHANGED <<pending, decision, controllers, posted>>
      /\ recorded' = {} /\ placed' = [t \in Toks |-> 0]
  BY DEF RestartConsole
<1>2. \A r \in Requests :
        /\ request'[r].stage \in {"unused", "refused"}
        /\ request'[r].seen = request[r].seen
        /\ request'[r] \in Request
  BY DEF IInv, TypeInv, Request, RestartConsole
<1>3. TypeInv'
  BY <1>1, <1>2 DEF IInv, TypeInv, RestartConsole, controllers
<1>4. TrueInv'
  BY <1>1, <1>2, ConsoleOpenInv DEF IInv, TrueInv, Carries
<1>5. OnceInv'
  BY <1>1, <1>2 DEF IInv, OnceInv, controllers
<1> QED
  BY <1>1, <1>3, <1>4, <1>5, ConsoleOpenInv DEF IInv

\* Every step keeps the invariant.
LEMMA StepInv == IInv /\ [Next]_vars => IInv'
<1> SUFFICES ASSUME IInv, [Next]_vars PROVE IInv'
  OBVIOUS
<1>1. CASE \E c \in Controllers : Ask(c) \/ Decide(c) \/ Die(c)
  BY <1>1, AskInv, DecideInv, LeaveInv DEF Decide
<1>2. CASE \E r \in Requests : Serve(r)
  BY <1>2, PostInv, HandleInv, PlaceInv DEF Serve
<1>3. CASE RestartConsole
  BY <1>3, RestartInv
<1>4. CASE UNCHANGED vars
  BY <1>4 DEF vars, controllers, console, IInv, TypeInv, OpenInv, TrueInv, Carries, Justified,
     OnceInv
<1> QED
  BY <1>1, <1>2, <1>3, <1>4 DEF Next

\* An open question has a controller of its own, what is on its way to it was
\* posted by a human, and a recorded decision is placed once, in every state
\* the two processes can reach (approval.ts:93-176, ui-server.ts:324-402).
THEOREM Invariance == Spec => []IInv
<1> QED
  BY InitInv, StepInv, PTL DEF Spec

----------------------------------------------------------------------------
(* The theorems.                                                           *)

\* For any number of controllers, posts, kills and restarts a console accepts
\* at most one decision for a call (ui-server.ts:371-376).
THEOREM OneDecision == Spec => []OneDecisionPerCall
<1>1. IInv => OneDecisionPerCall
  BY DEF IInv, OnceInv, OneDecisionPerCall
<1> QED
  BY <1>1, Invariance, PTL

\* A step of the bridge is a step of the gate or changes nothing of it.
LEMMA StepGate ==
    ASSUME IInv, [Next]_vars
    PROVE  [Gate!Next]_<<result, posted>>
<1>1. CASE \E c \in Controllers : Ask(c)
  <2>1. PICK c \in Controllers : Ask(c)
    BY <1>1
  <2>2. asked + 1 \in Toks /\ result[asked + 1] = "unasked"
    <3>1. asked \in 0 .. MaxAsks /\ asked < MaxAsks
      BY <2>1 DEF IInv, TypeInv, Ask
    <3>2. asked + 1 \in Toks /\ asked + 1 > asked
      BY <3>1, ApprovalAssumption DEF Toks
    <3> QED
      BY <3>2 DEF IInv, OpenInv
  <2>3. Gate!Ask(asked + 1)
    BY <2>1, <2>2 DEF Gate!Ask, Ask, console
  <2> QED
    BY <2>2, <2>3 DEF Gate!Next
<1>2. CASE \E c \in Controllers : HeldUnplanned(c) \/ RemoveDecision(c)
  <2>1. PICK c \in Controllers : HeldUnplanned(c) \/ RemoveDecision(c)
    BY <1>2
  <2> DEFINE t == question[c].tok
             outcome == IF HeldUnplanned(c) THEN "error" ELSE verdict[c]
  <2>2. t \in Toks /\ result[t] = "asked" /\ verdict[c] \in Outcomes
    BY <2>1 DEF IInv, TypeInv, OpenInv, Question, HeldUnplanned, RemoveDecision, Moves
  <2>3. outcome \in Gate!Results \ {"unasked", "asked"}
    BY <2>2 DEF Outcomes, Gate!Results
  <2>4. result' = [result EXCEPT ![t] = outcome] /\ posted' = posted
    BY <2>1 DEF HeldUnplanned, RemoveDecision, console
  <2>5. /\ outcome = "allow" => <<t, TRUE>> \in posted
        /\ outcome = "deny" => <<t, FALSE>> \in posted
    BY <2>1 DEF IInv, TrueInv, Justified, RemoveDecision, Moves
  <2>6. Gate!Conclude(t, outcome)
    BY <2>2, <2>4, <2>5 DEF Gate!Conclude
  <2> QED
    BY <2>2, <2>3, <2>6 DEF Gate!Next
<1>3. CASE \E c \in Controllers :
             \/ OpenPending(c) \/ WritePending(c) \/ Poll(c) \/ Expire(c)
             \/ RemovePending(c) \/ Die(c)
  BY <1>3 DEF OpenPending, WritePending, Poll, Expire, RemovePending, Die, console
<1>4. CASE \E r \in Requests : Post(r)
  <2>1. PICK r \in Requests, q \in shown, allow \in BOOLEAN :
          posted' = posted \cup {<<q.tok, allow>>} /\ result' = result
    BY <1>4 DEF Post, controllers
  <2>2. q.tok \in Toks /\ result[q.tok] # "unasked"
    BY DEF IInv, TypeInv, OpenInv, Question
  <2>3. Gate!Post(q.tok, allow)
    BY <2>1, <2>2 DEF Gate!Post
  <2> QED
    BY <2>2, <2>3 DEF Gate!Next
<1>5. CASE \E r \in Requests :
             \/ ReadPending(r) \/ Refused(r) \/ Recorded(r)
             \/ MkdirFailed(r) \/ Place(r) \/ PlaceFailed(r)
  BY <1>5 DEF ReadPending, Refused, Recorded, MkdirFailed, Place, PlaceFailed, controllers
<1>6. CASE RestartConsole \/ UNCHANGED vars
  BY <1>6 DEF RestartConsole, vars, controllers, console
<1> QED
  BY <1>1, <1>2, <1>3, <1>4, <1>5, <1>6 DEF Next, Decide, Serve

\* The web bridge implements the gate: whatever becomes of its files and its
\* processes, a question ends with a human's answer only if one was given for
\* that very call (approval.ts:134-161).
THEOREM Implementation == Spec => Implements
<1>1. Init => Gate!Init
  BY DEF Init, Gate!Init
<1>2. IInv /\ [Next]_vars => [Gate!Next]_<<result, posted>>
  BY StepGate
<1> QED
  BY <1>1, <1>2, Invariance, PTL DEF Spec, Implements, Gate!Spec
============================================================================
